----------------------------- MODULE TreeProofs -----------------------------
(***************************************************************************)
(* The tree of directories: link counts are the numbers of names, and no   *)
(* path comes before a panic, as long as no path asks a removed directory  *)
(* for its parent.  For any number of processes, any calls and any sizes   *)
(* of the disk and of the tables.                                          *)
(***************************************************************************)
EXTENDS FileSystemProofs
-----------------------------------------------------------------------------
(* Directories *)

IsDir(i) == dinode[i].type = "dir"
Dotted(i) == dir[i]["."] = i /\ dir[i][".."] # 0
Folder(i) == IsDir(i) /\ Dotted(i)
Lists(d, i) == \E n \in Name \ Dots : dir[d][n] = i

\* The entries of a directory that name directories.
SubEntries(i) == {n \in Name \ Dots : dir[i][n] # 0 /\ IsDir(dir[i][n])}

\* What the variables of a process refer to, as an inode; 0 if nothing.  The inode
\* iput() has freed is no one's any more.
Ino(s) == itable[s].inum
Ref(p, v) == IF v = "put1" /\ At(p, "idrop") THEN 0 ELSE Held1(p, v)
In(p, v) == IF Ref(p, v) = 0 THEN 0 ELSE Ino(Ref(p, v))

\* Links that are counted and are no names: not yet, or no more.
Owing == {"createlink", "createfail", "unlinkdec"}
Owes(p, i) == In(p, "tgt") = i \/ (Eff(th[p]) \in Owing /\ In(p, "ip") = i)
Owers(i) == {p \in Proc : Owes(p, i)}
Links(i) == Cardinality(Names(i)) + Cardinality(SubEntries(i)) + Cardinality(Owers(i))
            + (IF i = ROOTINO THEN 1 ELSE 0)
Counting == \A i \in Inum : dinode[i].nlink >= Links(i) /\ (i \notin lost => dinode[i].nlink = Links(i))

\* What is free has no links, and only directories have entries.
Blank == \A i \in Inum : /\ dinode[i].type = "none" => dinode[i].nlink = 0 /\ i \notin lost
                         /\ ~IsDir(i) => \A n \in Name : dir[i][n] = 0

\* A directory has one name, in the directory that its ".." says; the root has none.
Rooted == IsDir(ROOTINO) /\ \A n \in Dots : dir[ROOTINO][n] = ROOTINO
OneName == \A i \in Inum : IsDir(i) => \A l \in Names(i) :
             Names(i) = {l} /\ dir[i][".."] = l[1] /\ dir[i]["."] = i /\ i # ROOTINO
InFolders == \A i \in Inum : IsDir(i) /\ ~IsDirEmpty(i) => Dotted(i)

\* What has subdirectories has a name.  What is in a removed directory is lost, and a
\* directory that is lost and has a name is in one that is lost.
Attached == \A i \in Inum \ (lost \cup {ROOTINO}) : IsDir(i) /\ SubEntries(i) # {} => Names(i) # {}
Removed == \A i \in Inum : IsDir(i) /\ (i \in lost \/ dinode[i].nlink = 0) =>
             \A n \in Name \ Dots : dir[i][n] \in lost \cup {0}
LostWithin == \A i \in lost : IsDir(i) => \A l \in Names(i) : l[1] \in lost

\* Directories name each other in no cycle.
Acyclic == \A S \in (SUBSET Inum) \ {{}} : \E i \in S : \A j \in S : ~Lists(i, j)

Tree == Counting /\ Blank /\ Rooted /\ OneName /\ InFolders /\ Attached /\ Removed /\ LostWithin /\ Acyclic
-----------------------------------------------------------------------------
(* Paths *)

\* The inode that create() is making, and the one that iput() is freeing, are one path's own.
Making == {"iallocget", "createip", "createlink", "createfail"}
Freeing(p) == th[p].at \in {"itrunc", "ifree"}
New(p) == IF Eff(th[p]) = "iallocget" THEN th[p].inum ELSE In(p, "ip")
Claims(p, i) == (Eff(th[p]) \in Making /\ i = New(p)) \/ (Freeing(p) /\ i = In(p, "put1"))
ClaimVar(p) == IF Freeing(p) THEN "put1" ELSE "ip"
Alone(p, i) ==
  /\ \A q \in Proc \ {p} : ~Claims(q, i) /\ \A v \in LocalVar : In(q, v) # i
  /\ \A f \in File : ftable[f].ref > 0 => Ino(ftable[f].ip) # i
Exclusive == \A p \in Proc, i \in Inum : Claims(p, i) =>
               Alone(p, i) /\ \A v \in LocalVar : In(p, v) = i => v = ClaimVar(p)

\* What is referred to is allocated.
Allocated == \A p \in Proc, v \in LocalVar : In(p, v) # 0 => dinode[In(p, v)].type # "none"

\* Who has locked an entry is where it keeps it, or frees the inode.
Locking == \A s \in Slot, p \in Proc : itable[s].lock = p => KeepsLocked(th[p], s) \/ Frees(th[p], s)

\* Directories are directories, with dots where a path may look, and names are what
\* was found under the lock of the directory.
Homes(p) ==
  /\ In(p, "cwd") # 0 => Folder(In(p, "cwd"))
  /\ In(p, "dp") # 0 => Folder(In(p, "dp"))
  /\ In(p, "tgt") # 0 => dinode[In(p, "tgt")].type = "file"
Looking == {"walk", "openip", "chdirip", "linkinc", "createdp", "unlinkdp", "linkdp", "createfound", "unlinkip"}
Seeks(p) ==
  /\ Eff(th[p]) \in Looking /\ IsDir(In(p, "ip")) => Dotted(In(p, "ip"))
  /\ Eff(th[p]) \in {"createdp", "unlinkdp", "linkdp"} => IsDir(In(p, "ip"))
Unlinks(p) ==
  /\ Eff(th[p]) = "unlinkip" => LastOf(th[p].path) \notin Dots /\ dir[In(p, "dp")][LastOf(th[p].path)] = In(p, "ip")
  /\ Eff(th[p]) = "unlinkdec" /\ IsDir(In(p, "ip")) => IsDirEmpty(In(p, "ip"))
Makes(p) ==
  /\ Eff(th[p]) \in {"ialloc", "iallocget", "createip", "createlink"} =>
       LastOf(th[p].path) \notin Dots /\ dir[In(p, "dp")][LastOf(th[p].path)] = 0
  /\ Eff(th[p]) \in Making =>
       /\ th[p].puts = <<>> /\ New(p) \in Inum
       /\ dinode[New(p)].type = IF IsMkdir(p) THEN "dir" ELSE "file"
       /\ dinode[New(p)].nlink = IF Eff(th[p]) \in {"iallocget", "createip"} THEN 0 ELSE 1
       /\ IsDirEmpty(New(p)) /\ New(p) \notin lost
       /\ Eff(th[p]) \in {"iallocget", "createip"} => dinode[New(p)].addrs = {}
  /\ Eff(th[p]) = "createlink" /\ IsMkdir(p) =>
       dir[New(p)]["."] = New(p) /\ dir[New(p)][".."] = In(p, "dp")
Lets(p) ==
  Freeing(p) => /\ dinode[In(p, "put1")].nlink = 0
                /\ At(p, "ifree") => \A n \in Name : dir[In(p, "put1")][n] = 0
Stands(p) == Homes(p) /\ Seeks(p) /\ Unlinks(p) /\ Makes(p) /\ Lets(p)

TInv == Tree /\ Exclusive /\ Allocated /\ Locking /\ \A p \in Proc : Stands(p)

\* The name a path looks up next, and the hypothesis: ".." of directories that have a
\* name, or of the root.
Sought(p) == IF At(p, "walk") THEN Head(th[p].path) ELSE LastOf(th[p].path)
StaysInTree ==
  \A p \in Proc : th[p].at \in {"walk", "createdp", "linkdp"} /\ Sought(p) = ".." /\ th'[p] # th[p] =>
    In(p, "ip") = ROOTINO \/ Names(In(p, "ip")) # {}
-----------------------------------------------------------------------------
(* What is referred to *)

\* A variable refers to an entry in use, or to none.
LEMMA RefInUse ==
  ASSUME IInv, NEW p \in Proc, NEW v \in LocalVar
  PROVE  /\ Held1(p, v) # 0 => Held1(p, v) \in Slot /\ itable[Held1(p, v)].ref > 0 /\ Ino(Held1(p, v)) \in Inum
         /\ In(p, v) \in Inum \cup {0} /\ (In(p, v) = 0 <=> Ref(p, v) = 0)
  <1>1. Held1(p, v) # 0 => Held1(p, v) \in Slot /\ itable[Held1(p, v)].ref > 0
    <2>1. CASE v = "ip"
      BY <2>1, InUse DEF Held1
    <2>2. CASE v # "ip"
      BY <2>2, InUse DEF Held1, LocalVar
    <2> QED
      BY <2>1, <2>2
  <1>2. \A s \in Slot : itable[s].inum \in Inum
    BY InUse
  <1>3. Inum \subseteq Nat /\ 0 \notin Inum
    BY Sizes DEF Inum
  <1> QED
    BY <1>1, <1>2, <1>3 DEF In, Ref, Ino

\* Entries in use are for the inodes they were for.
InumsKept == \A s \in Slot : itable[s].ref > 0 => itable'[s].inum = itable[s].inum

\* Where a variable has the entry that another one had, it refers to the inode that one referred to.
LEMMA InMoved ==
  ASSUME IInv, InumsKept, NEW p \in Proc, NEW v \in LocalVar, NEW q \in Proc, NEW u \in LocalVar,
         Ref(p, v)' = Ref(q, u)
  PROVE  In(p, v)' = In(q, u)
  BY RefInUse DEF In, Ref, Ino, InumsKept

\* The other processes refer to what they did.
LEMMA InOthers ==
  ASSUME IInv, InumsKept, NEW q \in Proc, th'[q] = th[q], cwd'[q] = cwd[q]
  PROVE  /\ \A v \in LocalVar : In(q, v)' = In(q, v) /\ Ref(q, v)' = Ref(q, v)
         /\ \A i : (Claims(q, i)' <=> Claims(q, i)) /\ (Owes(q, i)' <=> Owes(q, i))
         /\ New(q)' = New(q) /\ ClaimVar(q)' = ClaimVar(q)
  <1>1. \A v \in LocalVar : Ref(q, v)' = Ref(q, v)
    BY DEF Ref, Held1, LocalVar, At
  <1>2. \A v \in LocalVar : In(q, v)' = In(q, v)
    BY <1>1, InMoved
  <1>3. In(q, "ip")' = In(q, "ip") /\ In(q, "tgt")' = In(q, "tgt") /\ In(q, "put1")' = In(q, "put1")
    BY <1>2 DEF LocalVar
  <1> QED
    BY <1>1, <1>2, <1>3 DEF Claims, New, ClaimVar, Owes, Eff, Freeing
-----------------------------------------------------------------------------
(* A step of p: what is left to show *)

\* No other process is making or freeing i.
Unclaimed(p, i) == \A q \in Proc \ {p} : ~Claims(q, i)

\* A step of p only, and what p refers to then is allocated and no one else's; what it
\* claims then was nobody's, and what it has locked it keeps.
Moves(p) ==
  /\ InumsKept
  /\ \A q \in Proc \ {p} : th'[q] = th[q] /\ cwd'[q] = cwd[q]
  /\ \A v \in LocalVar : In(p, v)' # 0 => Unclaimed(p, In(p, v)') /\ dinode'[In(p, v)'].type # "none"
  /\ \A f \in File : ftable'[f].ref > 0 =>
       \/ ftable[f].ref > 0 /\ ftable'[f].ip = ftable[f].ip
       \/ Unclaimed(p, Ino(ftable[f].ip)') /\ \A i : ~Claims(p, i)'
  /\ \A i \in Inum : Claims(p, i)' =>
       Alone(p, i) /\ \A v \in LocalVar : In(p, v)' = i => v = ClaimVar(p)'
  /\ \A s \in Slot : /\ itable'[s].lock \in {itable[s].lock, None, p}
                     /\ itable'[s].lock = p => KeepsLocked(th'[p], s) \/ Frees(th'[p], s)

\* What the step may do to an inode: nothing; anything if no other process refers to it; else its
\* type and its dots stay, no other process has claimed it, and its entries stay if one has locked it.
Same(i) == /\ dinode'[i].type = dinode[i].type /\ dinode'[i].nlink = dinode[i].nlink
           /\ dinode'[i].addrs = dinode[i].addrs /\ dir'[i] = dir[i] /\ (i \in lost' <=> i \in lost)
NotTheirs(p, i) == Unclaimed(p, i) /\ \A q \in Proc \ {p}, v \in LocalVar : In(q, v) # i
NotLocked(p, i) == Unclaimed(p, i) /\ \A q \in Proc \ {p}, v \in LocalVar : In(q, v) = i => itable[Ref(q, v)].lock # q
Touches(p) == \A i \in Inum :
  \/ Same(i)
  \/ NotTheirs(p, i)
  \/ NotLocked(p, i) /\ dinode'[i].type = dinode[i].type /\ \A n \in Dots : dir'[i][n] = dir[i][n]
  \/ Unclaimed(p, i) /\ dinode'[i].type = dinode[i].type /\ dir'[i] = dir[i]

\* The claims of each path stay its own, and what is referred to allocated.
LEMMA ClaimsStep ==
  ASSUME IInv, TInv, NEW p \in Proc, Moves(p), Touches(p)
  PROVE  Exclusive' /\ Allocated'
  <1>1. ASSUME NEW q \in Proc \ {p}
        PROVE  /\ \A v \in LocalVar : In(q, v)' = In(q, v)
               /\ \A i : Claims(q, i)' <=> Claims(q, i)
               /\ ClaimVar(q)' = ClaimVar(q)
    BY <1>1, InOthers DEF Moves
  <1>2. Exclusive /\ Allocated
    BY DEF TInv
  <1>3. ASSUME NEW f \in File, ftable'[f].ref > 0, ftable[f].ref > 0, ftable'[f].ip = ftable[f].ip
        PROVE  Ino(ftable[f].ip)' = Ino(ftable[f].ip)
    <2>1. ftable[f].ip \in Slot /\ itable[ftable[f].ip].ref > 0
      <3>1. ftable[f].ip # 0 /\ ftable[f].ip \in 0 .. NINODE
        BY <1>3 DEF IInv, FileInv, TypeOK, OpenFileEntry
      <3>2. ftable[f].ip \in Slot
        BY <3>1, Sizes DEF Slot
      <3>3. f \in OpenOn(ftable[f].ip)
        BY <1>3 DEF OpenOn
      <3> QED
        BY <3>2, <3>3, VarsAreCounted DEF IInv
    <2> QED
      BY <2>1, <1>3 DEF Ino, Moves, InumsKept
  <1>4. ASSUME NEW q \in Proc \ {p}, NEW i \in Inum, Claims(q, i)'
        PROVE  Alone(q, i)' /\ \A v \in LocalVar : In(q, v)' = i => v = ClaimVar(q)'
    <2>1. Claims(q, i) /\ Alone(q, i) /\ \A v \in LocalVar : In(q, v) = i => v = ClaimVar(q)
      BY <1>1, <1>2, <1>4 DEF Exclusive
    <2>2. ~Claims(p, i)'
      BY <2>1 DEF Moves, Alone
    <2>3. \A v \in LocalVar : In(p, v)' # i
      <3>1. i # 0
        BY Sizes DEF Inum
      <3> QED
        BY <2>1, <3>1 DEF Moves, Unclaimed
    <2>4. \A f \in File : ftable'[f].ref > 0 => Ino(ftable[f].ip)' # i
      <3> SUFFICES ASSUME NEW f \in File, ftable'[f].ref > 0
                   PROVE  Ino(ftable[f].ip)' # i
        OBVIOUS
      <3>1. CASE ftable[f].ref > 0 /\ ftable'[f].ip = ftable[f].ip
        BY <3>1, <1>3, <2>1 DEF Alone
      <3>2. CASE Unclaimed(p, Ino(ftable[f].ip)')
        BY <3>2, <2>1 DEF Unclaimed
      <3> QED
        BY <3>1, <3>2 DEF Moves
    <2>5. \A r \in Proc \ {q} : ~Claims(r, i)' /\ \A v \in LocalVar : In(r, v)' # i
      <3> SUFFICES ASSUME NEW r \in Proc \ {q}
                   PROVE  ~Claims(r, i)' /\ \A v \in LocalVar : In(r, v)' # i
        OBVIOUS
      <3>1. CASE r = p
        BY <3>1, <2>2, <2>3
      <3>2. CASE r # p
        BY <3>2, <1>1, <2>1 DEF Alone
      <3> QED
        BY <3>1, <3>2
    <2>6. Alone(q, i)'
      BY <2>4, <2>5 DEF Alone
    <2> QED
      BY <2>6, <2>1, <1>1
  <1>5. ASSUME NEW i \in Inum, Claims(p, i)'
        PROVE  Alone(p, i)' /\ \A v \in LocalVar : In(p, v)' = i => v = ClaimVar(p)'
    <2>1. Alone(p, i) /\ \A v \in LocalVar : In(p, v)' = i => v = ClaimVar(p)'
      BY <1>5 DEF Moves
    <2>2. \A q \in Proc \ {p} : ~Claims(q, i)' /\ \A v \in LocalVar : In(q, v)' # i
      BY <2>1, <1>1 DEF Alone
    <2>3. \A f \in File : ftable'[f].ref > 0 => Ino(ftable[f].ip)' # i
      <3> SUFFICES ASSUME NEW f \in File, ftable'[f].ref > 0
                   PROVE  Ino(ftable[f].ip)' # i
        OBVIOUS
      <3>1. ftable[f].ref > 0 /\ ftable'[f].ip = ftable[f].ip
        BY <1>5 DEF Moves
      <3> QED
        BY <3>1, <1>3, <2>1 DEF Alone
    <2>4. Alone(p, i)'
      BY <2>2, <2>3 DEF Alone
    <2> QED
      BY <2>4, <2>1
  <1>6. Exclusive'
    BY <1>4, <1>5 DEF Exclusive
  <1>7. ASSUME NEW q \in Proc, NEW v \in LocalVar, In(q, v)' # 0
        PROVE  dinode'[In(q, v)'].type # "none"
    <2>1. CASE q = p
      BY <2>1, <1>7 DEF Moves
    <2>2. CASE q # p
      <3> DEFINE i == In(q, v)
      <3>1. i = In(q, v)' /\ i \in Inum /\ dinode[i].type # "none"
        BY <2>2, <1>1, <1>2, <1>7, RefInUse DEF Allocated
      <3>2. ~NotTheirs(p, i)
        BY <2>2 DEF NotTheirs
      <3>3. dinode'[i].type = dinode[i].type
        BY <3>1, <3>2 DEF Touches, Same
      <3> QED
        BY <3>1, <3>3
    <2> QED
      BY <2>1, <2>2
  <1>8. Allocated'
    BY <1>7 DEF Allocated
  <1> QED
    BY <1>6, <1>8

\* Who has locked an entry keeps it.
LEMMA LockingStep ==
  ASSUME IInv, TInv, NEW p \in Proc, Moves(p)
  PROVE  Locking'
  <1> SUFFICES ASSUME NEW s \in Slot, NEW q \in Proc, itable'[s].lock = q
               PROVE  KeepsLocked(th'[q], s) \/ Frees(th'[q], s)
    BY DEF Locking
  <1>1. CASE q = p
    BY <1>1 DEF Moves
  <1>2. CASE q # p
    <2>1. q # None
      BY Sizes
    <2>2. itable[s].lock = q
      BY <1>2, <2>1 DEF Moves
    <2> QED
      BY <1>2, <2>2 DEF Moves, TInv, Locking
  <1> QED
    BY <1>1, <1>2

\* Where a path has an inode and a directory, and what it has locked.
LEMMA Stood ==
  ASSUME IInv, NEW p \in Proc
  PROVE  /\ Eff(th[p]) \in HasIp \ {"writei", "opentrunc"} =>
              /\ Ref(p, "ip") = th[p].ip /\ th[p].ip \in Slot /\ itable[th[p].ip].ref > 0
              /\ In(p, "ip") = Ino(th[p].ip) /\ In(p, "ip") \in Inum
         /\ Eff(th[p]) \in HasDp =>
              /\ Ref(p, "dp") = th[p].dp /\ th[p].dp \in Slot /\ itable[th[p].dp].ref > 0
              /\ In(p, "dp") = Ino(th[p].dp) /\ In(p, "dp") \in Inum
              /\ itable[th[p].dp].lock = p /\ itable[th[p].dp].valid
         /\ Eff(th[p]) \in Keeping \ {"opentrunc"} => itable[th[p].ip].lock = p /\ itable[th[p].ip].valid
         /\ Freeing(p) => /\ Ref(p, "put1") = th[p].puts[1] /\ th[p].puts[1] \in Slot /\ itable[th[p].puts[1]].ref > 0
                          /\ In(p, "put1") = Ino(th[p].puts[1]) /\ In(p, "put1") \in Inum
                          /\ itable[th[p].puts[1]].lock = p /\ itable[th[p].puts[1]].valid
         /\ \A v \in LocalVar : In(p, v) \in Inum \cup {0}
  <1>1. Variables(th[p]) /\ LockInv(p) /\ th[p] \in Local /\ 0 \notin Inum /\ 0 \notin Slot
    BY Sizes DEF IInv, PathInv, TypeOK, Inum, Slot
  <1>2. th[p].puts \in Seq(Slot)
    BY <1>1, OfLocal
  <1>3. ASSUME Eff(th[p]) \in HasIp \ {"writei", "opentrunc"}
        PROVE  /\ Ref(p, "ip") = th[p].ip /\ th[p].ip \in Slot /\ itable[th[p].ip].ref > 0
               /\ In(p, "ip") = Ino(th[p].ip) /\ In(p, "ip") \in Inum
    <2>1. th[p].at \notin {"writei", "opentrunc"} /\ th[p].ip # 0
      BY <1>1, <1>3 DEF Variables, Eff, Putting
    <2>2. Ref(p, "ip") = th[p].ip /\ Held1(p, "ip") = th[p].ip
      BY <2>1 DEF Ref, Held1
    <2> QED
      BY <2>1, <2>2, RefInUse DEF In, LocalVar
  <1>4. ASSUME Eff(th[p]) \in HasDp
        PROVE  /\ Ref(p, "dp") = th[p].dp /\ th[p].dp \in Slot /\ itable[th[p].dp].ref > 0
               /\ In(p, "dp") = Ino(th[p].dp) /\ In(p, "dp") \in Inum
               /\ itable[th[p].dp].lock = p /\ itable[th[p].dp].valid
    <2>1. th[p].dp # 0
      BY <1>1, <1>4 DEF Variables
    <2>2. Ref(p, "dp") = th[p].dp /\ Held1(p, "dp") = th[p].dp
      BY <2>1 DEF Ref, Held1
    <2>3. th[p].dp \in Slot
      BY <2>1, InUse
    <2>4. KeepsLocked(th[p], th[p].dp)
      BY <1>4 DEF KeepsLocked
    <2> QED
      BY <2>1, <2>2, <2>3, <2>4, <1>1, RefInUse DEF In, LocalVar, LockInv
  <1>5. ASSUME Eff(th[p]) \in Keeping \ {"opentrunc"}
        PROVE  itable[th[p].ip].lock = p /\ itable[th[p].ip].valid
    <2>1. th[p].ip \in Slot
      BY <1>3, <1>5 DEF Keeping, HasIp
    <2> QED
      BY <2>1, <1>5, <1>1 DEF KeepsLocked, LockInv
  <1>6. ASSUME Freeing(p)
        PROVE  /\ Ref(p, "put1") = th[p].puts[1] /\ th[p].puts[1] \in Slot /\ itable[th[p].puts[1]].ref > 0
               /\ In(p, "put1") = Ino(th[p].puts[1]) /\ In(p, "put1") \in Inum
               /\ itable[th[p].puts[1]].lock = p /\ itable[th[p].puts[1]].valid
    <2>1. th[p].puts # <<>> /\ ~At(p, "idrop")
      BY <1>1, <1>6 DEF Variables, Freeing, Putting, At
    <2>2. Len(th[p].puts) >= 1 /\ th[p].puts[1] \in Slot
      BY <2>1, <1>2
    <2>3. Ref(p, "put1") = th[p].puts[1] /\ Held1(p, "put1") = th[p].puts[1] /\ th[p].puts[1] # 0
      BY <2>1, <2>2, <1>1 DEF Ref, Held1
    <2>4. Frees(th[p], th[p].puts[1])
      BY <1>6 DEF Frees, Freeing
    <2>5. itable[th[p].puts[1]].lock = p /\ itable[th[p].puts[1]].valid
      BY <2>2, <2>4, <1>1 DEF LockInv
    <2> QED
      BY <2>2, <2>3, <2>5, RefInUse DEF In, LocalVar
  <1>7. \A v \in LocalVar : In(p, v) \in Inum \cup {0}
    BY RefInUse
  <1> QED
    BY <1>3, <1>4, <1>5, <1>6, <1>7

\* The other paths stand as they did.
LEMMA OthersStand ==
  ASSUME IInv, TInv, NEW p \in Proc, Moves(p), Touches(p), NEW q \in Proc \ {p}
  PROVE  Stands(q)'
  <1>1. /\ \A v \in LocalVar : In(q, v)' = In(q, v)
        /\ \A i : Claims(q, i)' <=> Claims(q, i)
        /\ New(q)' = New(q) /\ th'[q] = th[q]
    BY InOthers DEF Moves
  <1>2. ASSUME NEW v \in LocalVar, In(q, v) # 0
        PROVE  /\ IsDir(In(q, v))' <=> IsDir(In(q, v))
               /\ dinode'[In(q, v)].type = dinode[In(q, v)].type
               /\ \A n \in Dots : dir'[In(q, v)][n] = dir[In(q, v)][n]
               /\ itable[Ref(q, v)].lock = q => dir'[In(q, v)] = dir[In(q, v)]
    <2>1. In(q, v) \in Inum
      BY <1>2, Stood
    <2>2. ~NotTheirs(p, In(q, v))
      BY DEF NotTheirs
    <2>3. itable[Ref(q, v)].lock = q => ~NotLocked(p, In(q, v))
      BY DEF NotLocked
    <2>4. IsDir(In(q, v))' <=> dinode'[In(q, v)].type = "dir"
      BY <1>1 DEF IsDir
    <2> QED
      BY <2>1, <2>2, <2>3, <2>4 DEF Touches, Same, IsDir
  <1>3. ASSUME NEW i \in Inum, Claims(q, i)
        PROVE  Same(i)
    BY <1>3 DEF Touches, NotTheirs, NotLocked, Unclaimed
  <1>4. Homes(q) /\ Seeks(q) /\ Unlinks(q) /\ Makes(q) /\ Lets(q)
    BY DEF TInv, Stands
  <1>5. "cwd" \in LocalVar /\ "dp" \in LocalVar /\ "tgt" \in LocalVar /\ "ip" \in LocalVar /\ "." \in Dots /\ ".." \in Dots
    BY DEF LocalVar, Dots
  <1>6. Homes(q)'
    BY <1>1, <1>2, <1>4, <1>5 DEF Homes, Folder, Dotted, IsDir
  <1>7. 0 \notin Inum
    BY Sizes DEF Inum
  <1>8. Seeks(q)'
    <2>1. Eff(th[q]) \in Looking => In(q, "ip") # 0
      BY Stood, <1>7 DEF Looking, HasIp
    <2>2. Eff(th[q]) \in {"createdp", "unlinkdp", "linkdp"} => Eff(th[q]) \in Looking
      BY DEF Looking
    <2> QED
      BY <2>1, <2>2, <1>1, <1>2, <1>4, <1>5 DEF Seeks, Dotted, IsDir
  <1>9. Unlinks(q)'
    <2>1. Eff(th[q]) = "unlinkip" => In(q, "dp") # 0 /\ itable[Ref(q, "dp")].lock = q
      BY Stood, <1>7 DEF HasDp
    <2>2. Eff(th[q]) = "unlinkdec" => In(q, "ip") # 0 /\ itable[Ref(q, "ip")].lock = q
      BY Stood, <1>7 DEF HasIp, Keeping
    <2> QED
      BY <2>1, <2>2, <1>1, <1>2, <1>4, <1>5 DEF Unlinks, IsDir, IsDirEmpty
  <1>10. Makes(q)'
    <2>1. Eff(th[q]) \in {"ialloc", "iallocget", "createip", "createlink"} => In(q, "dp") # 0 /\ itable[Ref(q, "dp")].lock = q
      BY Stood, <1>7 DEF HasDp
    <2>2. Eff(th[q]) \in Making => New(q) \in Inum /\ Same(New(q))
      BY <1>3, <1>4 DEF Claims, Makes
    <2>3. Eff(th[q]) = "createlink" => Eff(th[q]) \in Making
      BY DEF Making
    <2>4. dir'[In(q, "dp")]= dir[In(q, "dp")] \/ ~(Eff(th[q]) \in {"ialloc", "iallocget", "createip", "createlink"})
      BY <2>1, <1>2, <1>5
    <2>5. Eff(th[q]) \in {"ialloc", "iallocget", "createip", "createlink"} =>
            LastOf(th'[q].path) \notin Dots /\ dir'[In(q, "dp")'][LastOf(th'[q].path)] = 0
      BY <2>4, <1>1, <1>4, <1>5 DEF Makes
    <2>6. Eff(th[q]) \in Making =>
            /\ th'[q].puts = <<>> /\ New(q)' \in Inum
            /\ dinode'[New(q)'].type = (IF IsMkdir(q)' THEN "dir" ELSE "file")
            /\ dinode'[New(q)'].nlink = (IF Eff(th'[q]) \in {"iallocget", "createip"} THEN 0 ELSE 1)
            /\ IsDirEmpty(New(q))' /\ New(q)' \notin lost'
            /\ (Eff(th'[q]) \in {"iallocget", "createip"} => dinode'[New(q)'].addrs = {})
      BY <2>2, <1>1, <1>4 DEF Makes, IsDirEmpty, IsMkdir, Same
    <2>7. Eff(th[q]) = "createlink" /\ IsMkdir(q)' => dir'[New(q)']["."] = New(q)' /\ dir'[New(q)'][".."] = In(q, "dp")'
      BY <2>2, <2>3, <1>1, <1>4, <1>5 DEF Makes, IsMkdir, Same
    <2> QED
      BY <2>5, <2>6, <2>7, <1>1 DEF Makes
  <1>11. Lets(q)'
    <2>1. Freeing(q) => In(q, "put1") \in Inum /\ Same(In(q, "put1"))
      BY <1>3, Stood DEF Claims
    <2>2. In(q, "put1")' = In(q, "put1") /\ (Freeing(q)' <=> Freeing(q)) /\ (At(q, "ifree")' <=> At(q, "ifree"))
      BY <1>1 DEF LocalVar, Freeing, At
    <2> QED
      BY <2>1, <2>2, <1>4 DEF Lets, Same
  <1> QED
    BY <1>6, <1>8, <1>9, <1>10, <1>11 DEF Stands

\* What is left to show of a step: the tree, and where the process stands.
LEMMA Combined ==
  ASSUME IInv, TInv, NEW p \in Proc, Moves(p), Touches(p), Tree', Stands(p)'
  PROVE  TInv'
  BY ClaimsStep, LockingStep, OthersStand DEF TInv
-----------------------------------------------------------------------------
(* Steps that leave the tree alone *)

\* The step writes no name, no link count and no type.
Kept(p) == /\ dir' = dir /\ lost' = lost /\ \A i \in Inum : dinode'[i].type = dinode[i].type /\ dinode'[i].nlink = dinode[i].nlink
           /\ \A i \in Inum : dinode'[i].addrs = dinode[i].addrs \/ Unclaimed(p, i)

\* Inode numbers in directories.
LEMMA DirTypes ==
  ASSUME IInv
  PROVE  /\ \A i \in Inum, n \in Name : dir[i][n] \in Inum \cup {0}
         /\ lost \subseteq Inum /\ 0 \notin Inum /\ ROOTINO \in Inum
         /\ \A i \in Inum : dinode[i].nlink \in Int
         /\ Dots \subseteq Name /\ "." \in Dots /\ ".." \in Dots
         /\ \A i \in Inum : Names(i) \subseteq Inum \X (Name \ Dots)
  <1>1. TypeOK
    BY DEF IInv
  <1>2. 0 .. NINODES = Inum \cup {0} /\ 0 \notin Inum /\ ROOTINO \in Inum
    BY Sizes DEF Inum
  <1>3. \A i \in Inum, n \in Name : dir[i][n] \in Inum \cup {0}
    BY <1>1, <1>2 DEF TypeOK
  <1>4. lost \subseteq Inum /\ \A i \in Inum : dinode[i].nlink \in Int
    BY <1>1 DEF TypeOK, Inode
  <1>5. Dots \subseteq Name /\ "." \in Dots /\ ".." \in Dots
    BY FileSystemAssumption DEF Dots
  <1>6. \A i \in Inum : Names(i) \subseteq Inum \X (Name \ Dots)
    BY DEF Names
  <1> QED
    BY <1>2, <1>3, <1>4, <1>5, <1>6

\* The tree is what it was.
LEMMA TreeKept ==
  ASSUME IInv, TInv, NEW p \in Proc, Kept(p), \A q \in Proc, i \in Inum : Owes(q, i)' <=> Owes(q, i)
  PROVE  Tree'
  <1>1. Tree
    BY DEF TInv
  <1>2. \A i \in Inum : IsDir(i)' <=> IsDir(i)
    BY DEF Kept, IsDir
  <1>3. \A i \in Inum : Names(i)' = Names(i) /\ SubEntries(i)' = SubEntries(i) /\ Owers(i)' = Owers(i)
    <2> TAKE i \in Inum
    <2>1. Names(i)' = Names(i)
      BY DEF Names, Kept
    <2>2. \A n \in Name \ Dots : dir[i][n] # 0 => (IsDir(dir[i][n])' <=> IsDir(dir[i][n]))
      BY <1>2, DirTypes DEF Kept
    <2>3. SubEntries(i)' = SubEntries(i)
      BY <2>2 DEF SubEntries, Kept
    <2>4. Owers(i)' = Owers(i)
      BY DEF Owers
    <2> QED BY <2>1, <2>3, <2>4
  <1>4. \A i \in Inum : Links(i)' = Links(i)
    BY <1>3 DEF Links
  <1>5. Counting'
    BY <1>1, <1>4 DEF Tree, Counting, Kept
  <1>6. Blank'
    BY <1>1, <1>2 DEF Tree, Blank, Kept
  <1>7. Rooted'
    BY <1>1, <1>2, DirTypes DEF Tree, Rooted, Kept
  <1>8. OneName'
    BY <1>1, <1>2, <1>3 DEF Tree, OneName, Kept
  <1>9. InFolders'
    BY <1>1, <1>2 DEF Tree, InFolders, Dotted, IsDirEmpty, Kept
  <1>10. Attached'
    BY <1>1, <1>2, <1>3 DEF Tree, Attached, Kept
  <1>11. Removed'
    BY <1>1, <1>2 DEF Tree, Removed, Kept
  <1>12. LostWithin'
    BY <1>1, <1>2, <1>3, DirTypes DEF Tree, LostWithin, Kept
  <1>13. Acyclic'
    BY <1>1 DEF Tree, Acyclic, Lists, Kept
  <1> QED
    BY <1>5, <1>6, <1>7, <1>8, <1>9, <1>10, <1>11, <1>12, <1>13 DEF Tree

\* No one else is making or freeing it, and it is allocated.
AtHand(p, i) == Unclaimed(p, i) /\ i \in Inum /\ dinode[i].type # "none"

\* What a path refers to is at hand.
LEMMA HadAtHand ==
  ASSUME IInv, TInv, NEW p \in Proc, NEW v \in LocalVar, In(p, v) # 0
  PROVE  AtHand(p, In(p, v))
  BY Stood DEF TInv, Exclusive, Allocated, AtHand, Unclaimed, Alone

\* What a step of p does to files and locks.
FilesKept == \A f \in File : ftable'[f].ref > 0 => ftable[f].ref > 0 /\ ftable'[f].ip = ftable[f].ip
LocksKept(p) == \A s \in Slot : /\ itable'[s].lock \in {itable[s].lock, None, p}
                                /\ itable'[s].lock = p => KeepsLocked(th'[p], s) \/ Frees(th'[p], s)
OthersWait(p) == \A q \in Proc \ {p} : th'[q] = th[q] /\ cwd'[q] = cwd[q]
OwesAsMuch(p) == \A i \in Inum : Owes(p, i)' <=> Owes(p, i)

\* A step that leaves the tree alone and claims nothing.
LEMMA EasyStep ==
  ASSUME IInv, TInv, NEW p \in Proc, Kept(p), InumsKept, OthersWait(p), LocksKept(p), OwesAsMuch(p),
         FilesKept \/ \A f \in File : ftable'[f].ref > 0 =>
           \/ ftable[f].ref > 0 /\ ftable'[f].ip = ftable[f].ip
           \/ AtHand(p, Ino(ftable[f].ip)'),
         \A v \in LocalVar : In(p, v)' = 0 \/ AtHand(p, In(p, v)'),
         th'[p].at \notin {"itrunc", "ifree"}, Eff(th'[p]) \notin Making,
         Homes(p)', Seeks(p)', Unlinks(p)', Makes(p)'
  PROVE  TInv'
  <1>1. ~Freeing(p)' /\ \A i : ~Claims(p, i)'
    BY DEF Freeing, Claims
  <1>2. Moves(p)
    BY <1>1 DEF Moves, OthersWait, LocksKept, FilesKept, AtHand, Kept
  <1>3. Touches(p)
    BY DEF Touches, Same, Kept
  <1>4. \A q \in Proc, i \in Inum : Owes(q, i)' <=> Owes(q, i)
    BY InOthers DEF OthersWait, OwesAsMuch
  <1>5. Tree'
    BY <1>4, TreeKept
  <1>6. Stands(p)'
    BY <1>1 DEF Stands, Lets
  <1> QED
    BY <1>2, <1>3, <1>5, <1>6, Combined

\* Directories and files are as before, where the variables refer to those.
LEMMA HomesKept ==
  ASSUME IInv, TInv, NEW p \in Proc, Kept(p),
         \A v \in LocalVar : In(p, v)' = 0 \/ AtHand(p, In(p, v)'),
         In(p, "cwd")' \in {0, In(p, "cwd")} \/ Folder(In(p, "cwd")'),
         In(p, "dp")' \in {0, In(p, "dp")} \/ Folder(In(p, "dp")'),
         In(p, "tgt")' = In(p, "tgt")
  PROVE  Homes(p)'
  <1>1. Homes(p)
    BY DEF TInv, Stands
  <1>2. ASSUME NEW i \in Inum
        PROVE  (Folder(i) => Folder(i)') /\ (dinode'[i].type = dinode[i].type)
    BY <1>2 DEF Kept, Folder, IsDir, Dotted
  <1>3. "cwd" \in LocalVar /\ "dp" \in LocalVar /\ "tgt" \in LocalVar
    BY DEF LocalVar
  <1>4. In(p, "cwd")' # 0 => In(p, "cwd")' \in Inum /\ Folder(In(p, "cwd")')
    BY <1>1, <1>3 DEF Homes, AtHand
  <1>5. In(p, "dp")' # 0 => In(p, "dp")' \in Inum /\ Folder(In(p, "dp")')
    BY <1>1, <1>3 DEF Homes, AtHand
  <1>6. In(p, "tgt")' # 0 => In(p, "tgt")' \in Inum /\ dinode[In(p, "tgt")'].type = "file"
    BY <1>1, <1>3 DEF Homes, AtHand
  <1>7. (In(p, "cwd")' # 0 => Folder(In(p, "cwd"))') /\ (In(p, "dp")' # 0 => Folder(In(p, "dp"))')
    BY <1>4, <1>5 DEF Kept, Folder, IsDir, Dotted
  <1> QED
    BY <1>6, <1>7, <1>2 DEF Homes

\* Places that ask nothing of what they refer to.
Elsewhere == Where \ (Looking \cup Making \cup {"ialloc", "unlinkdec"})

\* A step that leaves the tree alone and comes to such a place.
LEMMA RestStep ==
  ASSUME IInv, TInv, NEW p \in Proc, Kept(p), InumsKept, OthersWait(p), LocksKept(p), FilesKept,
         Eff(th[p]) \notin Owing, Eff(th'[p]) \notin Owing, Eff(th'[p]) \in Elsewhere,
         th'[p].at \notin {"itrunc", "ifree"},
         \A v \in LocalVar : In(p, v)' = 0 \/ AtHand(p, In(p, v)'),
         In(p, "cwd")' \in {0, In(p, "cwd")} \/ Folder(In(p, "cwd")'),
         In(p, "dp")' \in {0, In(p, "dp")} \/ Folder(In(p, "dp")'),
         In(p, "tgt")' = In(p, "tgt")
  PROVE  TInv'
  <1>1. OwesAsMuch(p)
    BY DEF OwesAsMuch, Owes
  <1>2. Homes(p)'
    BY HomesKept
  <1>3. Seeks(p)' /\ Unlinks(p)' /\ Makes(p)' /\ Eff(th'[p]) \notin Making
    BY DEF Seeks, Unlinks, Makes, Elsewhere, Looking, Making
  <1> QED
    BY <1>1, <1>2, <1>3, EasyStep
-----------------------------------------------------------------------------
(* What a path finds *)

\* Links are counted with numbers.
LEMMA LinkSets ==
  ASSUME IInv, NEW i \in Inum
  PROVE  /\ IsFiniteSet(Names(i)) /\ Cardinality(Names(i)) \in Nat /\ (Names(i) # {} <=> Cardinality(Names(i)) > 0)
         /\ IsFiniteSet(SubEntries(i)) /\ Cardinality(SubEntries(i)) \in Nat /\ (SubEntries(i) # {} <=> Cardinality(SubEntries(i)) > 0)
         /\ IsFiniteSet(Owers(i)) /\ Cardinality(Owers(i)) \in Nat /\ (Owers(i) # {} <=> Cardinality(Owers(i)) > 0)
         /\ Links(i) \in Nat /\ dinode[i].nlink \in Int
  <1>1. IsFiniteSet(Name \ Dots)
    BY FileSystemAssumption, FS_Subset
  <1>2. IsFiniteSet(Inum)
    BY Sizes, FS_Interval DEF Inum
  <1>3. IsFiniteSet(Inum \X (Name \ Dots))
    BY <1>1, <1>2, FS_Product
  <1>4. IsFiniteSet(Names(i)) /\ IsFiniteSet(SubEntries(i)) /\ IsFiniteSet(Owers(i))
    BY <1>1, <1>3, Sizes, FS_Subset DEF Names, SubEntries, Owers
  <1>5. \A S : IsFiniteSet(S) => Cardinality(S) \in Nat /\ (S # {} <=> Cardinality(S) > 0)
    BY FS_CardinalityType, FS_EmptySet
  <1>6. Cardinality(Names(i)) \in Nat /\ Cardinality(SubEntries(i)) \in Nat /\ Cardinality(Owers(i)) \in Nat
    BY <1>4, <1>5
  <1>7. Links(i) \in Nat
    BY <1>6 DEF Links
  <1> QED
    BY <1>4, <1>5, <1>7, DirTypes

\* The counts of an inode, in numbers.
LEMMA LinkCounts ==
  ASSUME IInv, TInv, NEW i \in Inum
  PROVE  /\ Links(i) >= Cardinality(Names(i)) /\ Links(i) >= Cardinality(SubEntries(i)) /\ Links(i) >= Cardinality(Owers(i))
         /\ Links(i) >= Cardinality(Names(i)) + Cardinality(Owers(i))
         /\ i = ROOTINO => Links(i) >= 1 + Cardinality(Owers(i))
         /\ dinode[i].nlink >= Links(i) /\ dinode[i].nlink \in Nat
         /\ dinode[i].nlink = 0 => Names(i) = {} /\ SubEntries(i) = {} /\ Owers(i) = {} /\ i # ROOTINO
  <1>1. /\ Cardinality(Names(i)) \in Nat /\ Cardinality(SubEntries(i)) \in Nat /\ Cardinality(Owers(i)) \in Nat
        /\ Links(i) \in Nat /\ dinode[i].nlink \in Int
    BY LinkSets
  <1>2. /\ Links(i) >= Cardinality(Names(i)) /\ Links(i) >= Cardinality(SubEntries(i)) /\ Links(i) >= Cardinality(Owers(i))
        /\ Links(i) >= Cardinality(Names(i)) + Cardinality(Owers(i))
        /\ i = ROOTINO => Links(i) >= 1 + Cardinality(Owers(i))
    BY <1>1 DEF Links
  <1>3. dinode[i].nlink >= Links(i)
    BY DEF TInv, Tree, Counting
  <1> QED
    BY <1>1, <1>2, <1>3, LinkSets

\* Nobody is making or freeing the root, what has a name or what has a subdirectory.
LEMMA LinkedIsUnclaimed ==
  ASSUME IInv, TInv, NEW i \in Inum, Names(i) # {} \/ SubEntries(i) # {} \/ i = ROOTINO
  PROVE  dinode[i].type # "none" /\ \A q \in Proc : ~Claims(q, i)
  <1>1. dinode[i].nlink # 0
    BY LinkCounts
  <1>2. dinode[i].type # "none"
    BY <1>1 DEF TInv, Tree, Blank
  <1>3. ASSUME NEW q \in Proc, Claims(q, i)
        PROVE  FALSE
    <2>1. Stands(q)
      BY DEF TInv
    <2>2. CASE Freeing(q) /\ i = In(q, "put1")
      BY <2>1, <2>2, <1>1 DEF Stands, Lets
    <2>3. CASE Eff(th[q]) \in Making /\ i = New(q)
      <3>1. IsDirEmpty(i) /\ dinode[i].nlink = IF Eff(th[q]) \in {"iallocget", "createip"} THEN 0 ELSE 1
        BY <2>1, <2>3 DEF Stands, Makes
      <3>2. SubEntries(i) = {}
        BY <3>1 DEF SubEntries, IsDirEmpty
      <3>3. Eff(th[q]) \in {"createlink", "createfail"} /\ dinode[i].nlink = 1
        BY <3>1, <2>3, <1>1 DEF Making
      <3>4. q \in Owers(i)
        BY <3>3, <2>3 DEF Owers, Owes, New, Owing
      <3>5. Cardinality(Owers(i)) >= 1
        BY <3>4, LinkSets
      <3>6. Cardinality(Names(i)) >= 1 \/ i = ROOTINO
        BY <3>2, LinkSets
      <3> QED
        BY <3>3, <3>5, <3>6, LinkCounts, LinkSets
    <2> QED
      BY <1>3, <2>2, <2>3 DEF Claims
  <1> QED
    BY <1>2, <1>3

\* Where a path may go on: nobody's inode, with dots if it is a directory.
Good(p, i) == AtHand(p, i) /\ (IsDir(i) => Dotted(i))

\* What has a name, or a subdirectory, and the root.
LEMMA LinkedIsGood ==
  ASSUME IInv, TInv, NEW p \in Proc, NEW i \in Inum, Names(i) # {} \/ SubEntries(i) # {} \/ i = ROOTINO
  PROVE  Good(p, i)
  <1>1. AtHand(p, i)
    BY LinkedIsUnclaimed DEF AtHand, Unclaimed
  <1>2. ASSUME IsDir(i)
        PROVE  Dotted(i)
    <2>1. CASE i = ROOTINO
      BY <2>1, DirTypes DEF TInv, Tree, Rooted, Dotted
    <2>2. CASE Names(i) # {}
      <3>1. PICK l : l \in Names(i)
        BY <2>2
      <3>2. dir[i][".."] = l[1] /\ dir[i]["."] = i
        BY <1>2, <3>1 DEF TInv, Tree, OneName
      <3>3. l[1] # 0
        BY <3>1, DirTypes
      <3> QED
        BY <3>2, <3>3 DEF Dotted
    <2>3. CASE SubEntries(i) # {}
      BY <2>3, <1>2 DEF SubEntries, IsDirEmpty, TInv, Tree, InFolders
    <2> QED
      BY <2>1, <2>2, <2>3
  <1> QED
    BY <1>1, <1>2 DEF Good

\* dirlookup() in a directory with dots: of a name, of itself, and of its parent where it has a
\* name or is the root.
LEMMA Reach ==
  ASSUME IInv, TInv, NEW p \in Proc, NEW d \in Inum, Folder(d), AtHand(p, d), NEW n \in Name, dir[d][n] # 0,
         n = ".." => d = ROOTINO \/ Names(d) # {}
  PROVE  Good(p, dir[d][n])
  <1>1. dir[d][n] \in Inum
    BY DirTypes
  <1>2. CASE n \notin Dots
    <2>1. <<d, n>> \in Names(dir[d][n])
      BY <1>2, <1>1 DEF Names, Folder, IsDir
    <2> QED
      BY <2>1, <1>1, LinkedIsGood
  <1>3. CASE n = "."
    BY <1>3 DEF Good, Folder, Dotted
  <1>4. CASE n = ".." /\ d = ROOTINO
    <2>1. dir[d][n] = ROOTINO
      BY <1>4 DEF TInv, Tree, Rooted, Dots
    <2> QED
      BY <2>1, <1>1, LinkedIsGood
  <1>5. CASE n = ".." /\ Names(d) # {}
    <2>1. PICK l : l \in Names(d)
      BY <1>5
    <2>2. dir[d][".."] = l[1] /\ l[1] \in Inum /\ l[2] \in Name \ Dots /\ dir[l[1]][l[2]] = d
      BY <2>1 DEF TInv, Tree, OneName, Names, Folder
    <2>3. l[2] \in SubEntries(l[1])
      BY <2>2, DirTypes DEF SubEntries, Folder
    <2> QED
      BY <2>2, <2>3, <1>5, LinkedIsGood
  <1> QED
    BY <1>2, <1>3, <1>4, <1>5 DEF Dots

\* A step that leaves the tree alone and comes to a place where something was found.
LEMMA LookStep ==
  ASSUME IInv, TInv, NEW p \in Proc, Kept(p), InumsKept, OthersWait(p), LocksKept(p), FilesKept,
         Eff(th[p]) \notin Owing, Eff(th'[p]) \in Looking, Good(p, In(p, "ip")'),
         Eff(th'[p]) \in {"createdp", "unlinkdp", "linkdp"} => IsDir(In(p, "ip")'),
         Eff(th'[p]) = "unlinkip" =>
           LastOf(th'[p].path) \notin Dots /\ dir[In(p, "dp")'][LastOf(th'[p].path)] = In(p, "ip")',
         th'[p].at \notin {"itrunc", "ifree"},
         \A v \in LocalVar : In(p, v)' = 0 \/ AtHand(p, In(p, v)'),
         In(p, "cwd")' \in {0, In(p, "cwd")} \/ Folder(In(p, "cwd")'),
         In(p, "dp")' \in {0, In(p, "dp")} \/ Folder(In(p, "dp")'),
         In(p, "tgt")' = In(p, "tgt")
  PROVE  TInv'
  <1>1. OwesAsMuch(p)
    BY DEF OwesAsMuch, Owes, Looking, Owing
  <1>2. Homes(p)'
    BY HomesKept
  <1>3. In(p, "ip")' \in Inum
    BY DEF Good, AtHand
  <1>4. Seeks(p)'
    BY <1>3 DEF Seeks, Good, IsDir, Dotted, Kept
  <1>5. Unlinks(p)' /\ Makes(p)' /\ Eff(th'[p]) \notin Making
    BY DEF Unlinks, Makes, Looking, Making, Kept
  <1> QED
    BY <1>1, <1>2, <1>4, <1>5, EasyStep
-----------------------------------------------------------------------------
(* Giving up, and the steps from place to place *)

\* What a variable refers to after a step, from the entry it has.
LEMMA InAfter ==
  ASSUME IInv, InumsKept, NEW p \in Proc
  PROVE  /\ \A v, u \in LocalVar : Ref(p, v)' = Ref(p, u) => In(p, v)' = In(p, u)
         /\ \A v \in LocalVar : Ref(p, v)' = 0 => In(p, v)' = 0
         /\ \A v \in LocalVar : Ref(p, v)' # 0 => In(p, v)' = itable'[Ref(p, v)'].inum
  <1>1. \A v, u \in LocalVar : Ref(p, v)' = Ref(p, u) => In(p, v)' = In(p, u)
    BY InMoved
  <1> QED
    BY <1>1 DEF In, Ino

\* Variables that refer to what some variable did.
LEMMA StillAtHand ==
  ASSUME IInv, TInv, NEW p \in Proc, \A v \in LocalVar : In(p, v)' = 0 \/ \E u \in LocalVar : In(p, v)' = In(p, u)
  PROVE  \A v \in LocalVar : In(p, v)' = 0 \/ AtHand(p, In(p, v)')
  BY HadAtHand

\* A path gives up on what it found.
LEMMA GiveUpTree ==
  ASSUME IInv, TInv, NEW p \in Proc, NEW s \in Slot, s = th[p].ip, CanLock(s), th[p].puts = <<>>,
         th[p].at \in Looking, NEW w \in {"endop", "dropdp", "linkbad"}, w = "dropdp" <=> th[p].at \in HasDp,
         GiveUp(p, s, w), UNCHANGED <<disk, files, ncalls, lost>>
  PROVE  TInv'
  <1>1. TypeOK
    BY DEF IInv
  <1>2. PICK r : r = [ip |-> 0] \oplus [at |-> "iput", puts |-> <<s>>, then |-> w]
    OBVIOUS
  <1>3. /\ th'[p] = r \oplus th[p] /\ \A q \in Proc \ {p} : th'[q] = th[q]
        /\ th[p] = [f \in Fields |-> th[p][f]]
    BY <1>1, <1>2, Goes DEF GiveUp, PutThen
  <1>4. /\ th'[p].at = "iput" /\ th'[p].puts = <<s>> /\ th'[p].then = w
        /\ th'[p].ip = 0 /\ th'[p].dp = th[p].dp /\ th'[p].tgt = th[p].tgt
    BY <1>2, <1>3 DEF \oplus, Fields
  <1>5. th[p].at \notin Putting /\ th[p].at \in HasIp /\ th[p].at \notin {"writei", "opentrunc"} /\ th[p].at \notin Owing
        /\ th[p].at \notin Keeping
    BY DEF Looking, Putting, HasIp, Owing, Keeping
  <1>6. itable[s].ref > 0 /\ Eff(th[p]) = th[p].at /\ Held1(p, "put1") = 0 /\ Held1(p, "put2") = 0 /\ 0 \notin Slot
    BY <1>5, Standing, InUse, Sizes DEF Slot
  <1>7. /\ \A x \in Slot : itable'[x].inum = itable[x].inum
        /\ \A x \in Slot \ {s} : itable'[x] = itable[x]
        /\ itable'[s].lock = None
    <2>1. itable' = Unlock(Ilock(p, s), s)
      BY DEF GiveUp
    <2> QED
      BY <1>6, <2>1, Peeked
  <1>8. InumsKept
    BY <1>7 DEF InumsKept
  <1>9. /\ Ref(p, "ip")' = 0 /\ Ref(p, "put1")' = Ref(p, "ip") /\ Ref(p, "put2")' = 0
        /\ Ref(p, "dp")' = Ref(p, "dp") /\ Ref(p, "tgt")' = Ref(p, "tgt") /\ Ref(p, "cwd")' = Ref(p, "cwd")
    BY <1>4, <1>5 DEF Ref, Held1, At, files
  <1>10. /\ In(p, "ip")' = 0 /\ In(p, "put1")' = In(p, "ip") /\ In(p, "put2")' = 0
         /\ In(p, "dp")' = In(p, "dp") /\ In(p, "tgt")' = In(p, "tgt") /\ In(p, "cwd")' = In(p, "cwd")
    BY <1>8, <1>9, InAfter DEF LocalVar
  <1>11. \A v \in LocalVar : In(p, v)' = 0 \/ AtHand(p, In(p, v)')
    BY <1>10, StillAtHand DEF LocalVar
  <1>12. Eff(th'[p]) = w /\ w \in Elsewhere /\ w \notin Owing
    BY <1>4 DEF Eff, Elsewhere, Where, Looking, Making, Owing, HasDp
  <1>13. LocksKept(p)
    <2> SUFFICES ASSUME NEW x \in Slot
                 PROVE  /\ itable'[x].lock \in {itable[x].lock, None, p}
                        /\ itable'[x].lock = p => KeepsLocked(th'[p], x)
      BY DEF LocksKept
    <2>1. CASE x = s
      BY <2>1, <1>7, Sizes
    <2>2. CASE x # s
      <3>1. itable'[x] = itable[x]
        BY <2>2, <1>7
      <3>2. itable[x].lock = p => KeepsLocked(th[p], x)
        BY <1>5 DEF TInv, Locking, Frees, Putting
      <3>3. KeepsLocked(th[p], x) => x = th[p].dp /\ th[p].at \in HasDp
        BY <2>2, <1>5, <1>6 DEF KeepsLocked
      <3> QED
        BY <3>1, <3>2, <3>3, <1>4, <1>12 DEF KeepsLocked, HasDp
    <2> QED
      BY <2>1, <2>2
  <1>14. Kept(p) /\ OthersWait(p) /\ FilesKept
    BY <1>3 DEF Kept, OthersWait, FilesKept, disk, files
  <1> QED
    BY <1>4, <1>5, <1>6, <1>8, <1>10, <1>11, <1>12, <1>13, <1>14, RestStep

\* A step of local variables that moves no reference.
LEMMA MoveOnTree ==
  ASSUME IInv, TInv, NEW p \in Proc, UNCHANGED <<disk, itable, cwd, lost>>, \A q \in Proc \ {p} : th'[q] = th[q], FilesKept,
         \A v \in LocalVar : Ref(p, v)' = Ref(p, v),
         Eff(th[p]) \notin Owing, Eff(th'[p]) \in Elsewhere \ Owing, th'[p].at \notin {"itrunc", "ifree"},
         \A x \in Slot : KeepsLocked(th[p], x) \/ Frees(th[p], x) => KeepsLocked(th'[p], x)
  PROVE  TInv'
  <1>1. InumsKept
    BY DEF InumsKept
  <1>2. \A v \in LocalVar : In(p, v)' = In(p, v)
    BY <1>1, InAfter
  <1>3. \A v \in LocalVar : In(p, v)' = 0 \/ AtHand(p, In(p, v)')
    BY <1>2, StillAtHand
  <1>4. LocksKept(p)
    BY DEF LocksKept, TInv, Locking
  <1>5. Kept(p) /\ OthersWait(p) /\ In(p, "cwd")' = In(p, "cwd") /\ In(p, "dp")' = In(p, "dp") /\ In(p, "tgt")' = In(p, "tgt")
    BY <1>2 DEF Kept, OthersWait, disk, LocalVar
  <1> QED
    BY <1>1, <1>3, <1>4, <1>5, RestStep

\* A system call begins.
LEMMA BeginTree ==
  ASSUME IInv, TInv, NEW p \in Proc, NEW c \in Calls, Begin(p, c)
  PROVE  TInv'
  <1>1. TypeOK /\ th[p].at = "idle" /\ th[p].at \notin Putting
    BY DEF IInv, Begin, Idle, At, Putting
  <1>2. PICK r : r = [at |-> "namex", call |-> c, path |-> c.path, parent |-> Parent(c), ok |-> After(c), fail |-> "endop"]
    OBVIOUS
  <1>3. th'[p] = r \oplus th[p] /\ (\A q \in Proc \ {p} : th'[q] = th[q]) /\ th[p] = [f \in Fields |-> th[p][f]]
    BY <1>1, <1>2, Goes DEF Begin
  <1>4. /\ th'[p].at = "namex" /\ th'[p].puts = th[p].puts /\ th'[p].ip = th[p].ip
        /\ th'[p].dp = th[p].dp /\ th'[p].tgt = th[p].tgt
    BY <1>2, <1>3 DEF \oplus, Fields
  <1>5. Eff(th[p]) = "idle" /\ Eff(th'[p]) = "namex"
    BY <1>1, <1>4, Standing DEF Eff
  <1>6. \A v \in LocalVar : Ref(p, v)' = Ref(p, v)
    BY <1>1, <1>4 DEF Ref, Held1, At, LocalVar, Begin, files
  <1>7. \A x \in Slot : ~KeepsLocked(th[p], x) /\ ~Frees(th[p], x)
    BY <1>1, <1>5 DEF KeepsLocked, Frees, Keeping, HasDp
  <1> QED
    BY <1>3, <1>4, <1>5, <1>6, <1>7, MoveOnTree DEF Begin, files, FilesKept, Owing, Elsewhere, Where, Looking, Making

\* filewrite() begins.
LEMMA WriteTree ==
  ASSUME IInv, TInv, NEW p \in Proc, NEW d \in Fd, Write(p, d)
  PROVE  TInv'
  <1>1. TypeOK /\ th[p].at = "idle" /\ th[p].at \notin Putting
    BY DEF IInv, Write, Idle, At, Putting
  <1>2. PICK r : r = [at |-> "writei", ip |-> ftable[ofile[p][d]].ip]
    OBVIOUS
  <1>3. th'[p] = r \oplus th[p] /\ (\A q \in Proc \ {p} : th'[q] = th[q]) /\ th[p] = [f \in Fields |-> th[p][f]]
    BY <1>1, <1>2, Goes DEF Write
  <1>4. th'[p].at = "writei" /\ th'[p].puts = th[p].puts /\ th'[p].dp = th[p].dp /\ th'[p].tgt = th[p].tgt
    BY <1>2, <1>3 DEF \oplus, Fields
  <1>5. Eff(th[p]) = "idle" /\ Eff(th'[p]) = "writei" /\ th[p].ip = 0
    BY <1>1, <1>4, Standing DEF Eff, HasIp
  <1>6. \A v \in LocalVar : Ref(p, v)' = Ref(p, v)
    BY <1>1, <1>4, <1>5 DEF Ref, Held1, At, LocalVar, Write, files
  <1>7. \A x \in Slot : ~KeepsLocked(th[p], x) /\ ~Frees(th[p], x)
    BY <1>1, <1>5 DEF KeepsLocked, Frees, Keeping, HasDp
  <1> QED
    BY <1>3, <1>4, <1>5, <1>6, <1>7, MoveOnTree DEF Write, files, FilesKept, Owing, Elsewhere, Where, HasIp, Looking, Making

\* ialloc() finds no inode, or open() no file.
LEMMA FullTree ==
  ASSUME IInv, TInv, NEW p \in Proc, NEW w \in {"dropip", "dropdp"}, At(p, IF w = "dropip" THEN "openfile" ELSE "ialloc"),
         Go(p, [at |-> w]), UNCHANGED <<disk, itable, files, ncalls, lost>>
  PROVE  TInv'
  <1>1. TypeOK /\ th[p].at \in {"openfile", "ialloc"} /\ (th[p].at = "openfile" <=> w = "dropip") /\ th[p].at \notin Putting
    BY DEF IInv, At, Putting
  <1>2. PICK r : r = [at |-> w]
    OBVIOUS
  <1>3. th'[p] = r \oplus th[p] /\ (\A q \in Proc \ {p} : th'[q] = th[q]) /\ th[p] = [f \in Fields |-> th[p][f]]
    BY <1>1, <1>2, Goes
  <1>4. th'[p].at = w /\ th'[p].puts = th[p].puts /\ th'[p].ip = th[p].ip /\ th'[p].dp = th[p].dp /\ th'[p].tgt = th[p].tgt
    BY <1>2, <1>3 DEF \oplus, Fields
  <1>5. Eff(th[p]) = th[p].at /\ Eff(th'[p]) = w /\ \A x \in Slot : ~Frees(th[p], x)
    BY <1>1, <1>4, Standing DEF Eff
  <1>6. \A v \in LocalVar : Ref(p, v)' = Ref(p, v)
    BY <1>1, <1>4 DEF Ref, Held1, At, LocalVar, files
  <1>7. \A x \in Slot : KeepsLocked(th[p], x) \/ Frees(th[p], x) => KeepsLocked(th'[p], x)
    BY <1>1, <1>4, <1>5 DEF KeepsLocked, Keeping, HasDp
  <1> QED
    BY <1>1, <1>3, <1>4, <1>5, <1>6, <1>7, MoveOnTree DEF files, FilesKept, Owing, Elsewhere, Where, HasIp, HasDp, Looking, Making
-----------------------------------------------------------------------------
(* Paths *)

\* What is known of a path that is about to lock its inode.
LEMMA Here ==
  ASSUME IInv, TInv, NEW p \in Proc, NEW w \in Looking \cup {"createip"}, Locks(p, w)
  PROVE  /\ th[p].at = w /\ th[p].puts = <<>> /\ Eff(th[p]) = w /\ CanLock(th[p].ip)
         /\ Variables(th[p]) /\ Continues(th[p]) /\ Asked(th[p])
         /\ th[p].ip \in Slot /\ itable[th[p].ip].ref > 0 /\ itable[th[p].ip].lock = None /\ 0 \notin Slot
         /\ Ref(p, "ip") = th[p].ip /\ In(p, "ip") = itable[th[p].ip].inum /\ In(p, "ip") \in Inum
         /\ AtHand(p, In(p, "ip")) \/ w = "createip"
         /\ Loaded(th[p].ip) = dinode[In(p, "ip")]
         /\ Held1(p, "put1") = 0 /\ Held1(p, "put2") = 0
         /\ \A s \in Slot : itable[s].lock = p => KeepsLocked(th[p], s)
         /\ \A s \in Slot : KeepsLocked(th[p], s) => w \in HasDp /\ s = th[p].dp /\ s # th[p].ip
         /\ Stands(p)
  <1>1. th[p].at = w /\ CanLock(th[p].ip) /\ th[p].at \notin Putting /\ w \in HasIp \ {"writei", "opentrunc"} /\ w \notin Keeping
    BY DEF Locks, At, Looking, Putting, HasIp, Keeping
  <1>2. /\ th[p].puts = <<>> /\ Eff(th[p]) = w /\ Variables(th[p]) /\ Continues(th[p]) /\ Asked(th[p])
        /\ Held1(p, "put1") = 0 /\ Held1(p, "put2") = 0 /\ \A s \in Slot : ~Frees(th[p], s)
    BY <1>1, Standing
  <1>3. /\ Ref(p, "ip") = th[p].ip /\ th[p].ip \in Slot /\ itable[th[p].ip].ref > 0
        /\ In(p, "ip") = itable[th[p].ip].inum /\ In(p, "ip") \in Inum
    BY <1>1, <1>2, Stood DEF Ino
  <1>4. itable[th[p].ip].lock = None /\ Loaded(th[p].ip) = dinode[In(p, "ip")]
    BY <1>1, <1>3, Peeked
  <1>5. \A s \in Slot : itable[s].lock = p => KeepsLocked(th[p], s)
    BY <1>2 DEF TInv, Locking
  <1>6. \A s \in Slot : KeepsLocked(th[p], s) => w \in HasDp /\ s = th[p].dp /\ s # th[p].ip
    BY <1>1, <1>2, <1>4, Sizes DEF KeepsLocked, IInv, LockInv
  <1>7. 0 \notin Slot /\ 0 \notin Inum
    BY Sizes DEF Slot, Inum
  <1>8. AtHand(p, In(p, "ip"))
    BY <1>3, <1>7, HadAtHand DEF LocalVar
  <1> QED
    BY <1>1, <1>2, <1>3, <1>4, <1>5, <1>6, <1>7, <1>8 DEF TInv

\* The table after ilock(), iunlock() and iget().
LEMMA PeekedAndGot ==
  ASSUME IInv, NEW p \in Proc, NEW s \in Slot, CanLock(s), itable[s].ref > 0, NEW t, t = Unlock(Ilock(p, s), s),
         NEW i \in Inum, HasEntry(t, i), NEW e, e = EntryFor(t, i), itable' = Iget(t, i)
  PROVE  /\ InumsKept /\ e \in Slot /\ itable'[e].inum = i /\ itable'[s].lock = None
         /\ \A x \in Slot \ {s} : itable'[x].lock = itable[x].lock
  <1>1. /\ t \in Table /\ KeptIn(t, p) /\ Coherent(t, dinode) /\ \A x \in Slot : t[x].ref = itable[x].ref
        /\ \A x \in Slot \ {s} : t[x] = itable[x]
        /\ t[s].lock = None
    BY Peeked
  <1>2. PICK u : u = itable'
    OBVIOUS
  <1>3. /\ e \in Slot /\ KeptIn(u, p) /\ u[e].inum = i /\ \A x \in Slot : u[x].lock = t[x].lock
    BY <1>1, <1>2, GotAfter
  <1> QED
    BY <1>1, <1>2, <1>3 DEF InumsKept, KeptIn

\* A path goes on with the inode that it found, and drops the directory.
LEMMA FoundTree ==
  ASSUME IInv, TInv, NEW p \in Proc, NEW a \in {"walk", "createdp"}, Locks(p, a), NEW s, s = th[p].ip, NEW i \in Inum, Good(p, i),
         NEW t, t = Unlock(Ilock(p, s), s), HasEntry(t, i), NEW e, e = EntryFor(t, i), itable' = Iget(t, i),
         NEW w \in {"walk", "openip", "linkinc", "chdirip", "createfound"},
         \A q \in Proc \ {p} : th'[q] = th[q], UNCHANGED <<disk, files, ncalls, lost>>,
         th'[p].at = "iput", th'[p].puts = <<s>>, th'[p].then = w, th'[p].ip = e,
         th'[p].dp = th[p].dp, th'[p].tgt = th[p].tgt
  PROVE  TInv'
  <1>1. /\ th[p].at = a /\ Eff(th[p]) = a /\ CanLock(s) /\ s \in Slot /\ itable[s].ref > 0 /\ Ref(p, "ip") = s /\ 0 \notin Slot
        /\ Held1(p, "put1") = 0 /\ Held1(p, "put2") = 0
        /\ \A x \in Slot : KeepsLocked(th[p], x) => a \in HasDp
        /\ \A x \in Slot : itable[x].lock = p => KeepsLocked(th[p], x)
    BY Here DEF Looking
  <1>2. /\ InumsKept /\ e \in Slot /\ itable'[e].inum = i /\ itable'[s].lock = None
        /\ \A x \in Slot \ {s} : itable'[x].lock = itable[x].lock
    BY <1>1, PeekedAndGot
  <1>3. /\ Ref(p, "ip")' = e /\ Ref(p, "put1")' = Ref(p, "ip") /\ Ref(p, "put2")' = 0
        /\ Ref(p, "dp")' = Ref(p, "dp") /\ Ref(p, "tgt")' = Ref(p, "tgt") /\ Ref(p, "cwd")' = Ref(p, "cwd")
    BY <1>1 DEF Ref, Held1, At, files
  <1>4. /\ In(p, "ip")' = i /\ In(p, "put1")' = In(p, "ip") /\ In(p, "put2")' = 0
        /\ In(p, "dp")' = In(p, "dp") /\ In(p, "tgt")' = In(p, "tgt") /\ In(p, "cwd")' = In(p, "cwd")
    <2>1. "ip" \in LocalVar /\ "put1" \in LocalVar /\ "put2" \in LocalVar /\ "dp" \in LocalVar /\ "tgt" \in LocalVar /\ "cwd" \in LocalVar
      BY DEF LocalVar
    <2> QED
      BY <1>1, <1>2, <1>3, <2>1, InAfter
  <1>5. \A v \in LocalVar : In(p, v)' = 0 \/ AtHand(p, In(p, v)')
    BY <1>4, HadAtHand DEF LocalVar, Good
  <1>6. Eff(th'[p]) = w /\ w \in Looking
    BY DEF Eff, Looking
  <1>7. LocksKept(p)
    BY <1>1, <1>2, Sizes DEF LocksKept, HasDp
  <1>8. Kept(p) /\ OthersWait(p) /\ FilesKept
    BY DEF Kept, OthersWait, FilesKept, disk, files
  <1> QED
    BY <1>1, <1>2, <1>4, <1>5, <1>6, <1>7, <1>8, LookStep DEF Owing

\* The name a path looks up is one.
LEMMA SoughtIsName ==
  ASSUME IInv, NEW p \in Proc, th[p].puts = <<>>, th[p].at \in Naming
  PROVE  Head(th[p].path) \in Name /\ LastOf(th[p].path) \in Name /\ th[p].path \in Seq(Name) \ {<<>>}
  <1>1. th[p].path \in Seq(Name) \ {<<>>}
    BY DEF IInv, PathInv, Asked, Eff
  <1>2. Len(th[p].path) \in 1 .. Len(th[p].path)
    BY <1>1, EmptySeq, LenProperties
  <1> QED
    BY <1>1, <1>2, ElementOfSeq, HeadTailProperties DEF LastOf

\* The parent of a path is found: it is not locked any more.
LEMMA WalkStopTree ==
  ASSUME IInv, TInv, NEW p \in Proc, Locks(p, "walk"), IsDir(In(p, "ip")), th[p].parent = TRUE,
         itable' = Unlock(Ilock(p, th[p].ip), th[p].ip),
         Go(p, [at |-> th[p].ok]), UNCHANGED <<disk, files, ncalls, lost>>
  PROVE  TInv'
  <1>1. PICK s, w : s = th[p].ip /\ w = th[p].ok
    OBVIOUS
  <1>2. /\ th[p].at = "walk" /\ th[p].puts = <<>> /\ Eff(th[p]) = "walk" /\ CanLock(s) /\ s \in Slot /\ itable[s].ref > 0
        /\ \A x \in Slot : KeepsLocked(th[p], x) => "walk" \in HasDp
        /\ \A x \in Slot : itable[x].lock = p => KeepsLocked(th[p], x)
        /\ In(p, "ip") \in Inum /\ AtHand(p, In(p, "ip")) /\ Stands(p) /\ Continues(th[p])
    BY <1>1, Here DEF Looking
  <1>3. PICK r : r = [at |-> w]
    OBVIOUS
  <1>4. th'[p] = r \oplus th[p] /\ (\A q \in Proc \ {p} : th'[q] = th[q]) /\ th[p] = [f \in Fields |-> th[p][f]]
    BY <1>1, <1>3, Goes DEF IInv
  <1>5. th'[p].at = w /\ th'[p].puts = <<>> /\ th'[p].ip = th[p].ip /\ th'[p].dp = th[p].dp /\ th'[p].tgt = th[p].tgt
    BY <1>2, <1>3, <1>4 DEF \oplus, Fields
  <1>6. w \in {"linkdp", "createdp", "unlinkdp"}
    BY <1>1, <1>2 DEF Continues
  <1>7. /\ \A x \in Slot : itable'[x].inum = itable[x].inum
        /\ \A x \in Slot \ {s} : itable'[x] = itable[x]
        /\ itable'[s].lock = None
    BY <1>1, <1>2, Peeked
  <1>8. InumsKept
    BY <1>7 DEF InumsKept
  <1>9. \A v \in LocalVar : In(p, v)' = In(p, v)
    <2>1. \A v \in LocalVar : Ref(p, v)' = Ref(p, v)
      BY <1>2, <1>5, <1>6 DEF Ref, Held1, At, LocalVar, files
    <2> QED
      BY <1>8, <2>1, InAfter
  <1>10. \A v \in LocalVar : In(p, v)' = 0 \/ AtHand(p, In(p, v)')
    BY <1>9, StillAtHand
  <1>11. In(p, "cwd")' = In(p, "cwd") /\ In(p, "ip")' = In(p, "ip") /\ In(p, "dp")' = In(p, "dp") /\ In(p, "tgt")' = In(p, "tgt")
    BY <1>9 DEF LocalVar
  <1>12. Good(p, In(p, "ip")')
    BY <1>2, <1>11 DEF Good, Stands, Seeks, Looking
  <1>13. Eff(th'[p]) = w /\ w \in Looking
    BY <1>5, <1>6 DEF Eff, Looking
  <1>14. LocksKept(p)
    BY <1>2, <1>7, Sizes DEF LocksKept, HasDp
  <1>15. Kept(p) /\ OthersWait(p) /\ FilesKept
    BY <1>4 DEF Kept, OthersWait, FilesKept, disk, files
  <1> QED
    BY <1>2, <1>5, <1>6, <1>8, <1>10, <1>11, <1>12, <1>13, <1>14, <1>15, LookStep DEF Owing

\* An element of a path.
LEMMA WalkTree ==
  ASSUME IInv, TInv, NEW p \in Proc, Walk(p), StaysInTree
  PROVE  TInv'
  <1>1. PICK s, t, i : s = th[p].ip /\ t = Unlock(Ilock(p, s), s) /\ i = dir[In(p, "ip")][Head(th[p].path)]
    OBVIOUS
  <1>2. UNCHANGED <<disk, files, ncalls, lost>> /\ Locks(p, "walk")
    BY DEF Walk
  <1>3. /\ th[p].at = "walk" /\ th[p].puts = <<>> /\ Eff(th[p]) = "walk" /\ CanLock(s) /\ s \in Slot /\ itable[s].ref > 0
        /\ In(p, "ip") \in Inum /\ AtHand(p, In(p, "ip")) /\ Stands(p) /\ Continues(th[p])
        /\ In(p, "ip") = itable[s].inum /\ Loaded(s) = dinode[In(p, "ip")]
    BY <1>1, <1>2, Here DEF Looking
  <1>4. ASSUME GiveUp(p, s, th[p].fail)
        PROVE  TInv'
    <2>1. PICK w : w \in {"endop", "linkbad"} /\ w = th[p].fail
      BY <1>3 DEF Continues, Failing
    <2> QED
      BY <1>1, <1>2, <1>3, <1>4, <2>1, GiveUpTree DEF Looking, HasDp
  <1>5. ASSUME IsDir(In(p, "ip")), th[p].parent, itable' = t, Go(p, [at |-> th[p].ok])
        PROVE  TInv'
    <2>1. th[p].parent = TRUE
      BY <1>5, OfLocal DEF IInv, TypeOK
    <2> QED
      BY <1>1, <1>2, <1>5, <2>1, WalkStopTree
  <1>6. ASSUME IsDir(In(p, "ip")), ~(th[p].parent /\ Len(th[p].path) = 1), i # 0, HasEntry(t, i), itable' = Iget(t, i),
               PutThen(p, <<s>>, IF Len(th[p].path) = 1 THEN th[p].ok ELSE "walk",
                       [ip |-> EntryFor(t, i), path |-> Tail(th[p].path)])
        PROVE  TInv'
    <2>1. PICK e, w, r : /\ e = EntryFor(t, i) /\ w = (IF Len(th[p].path) = 1 THEN th[p].ok ELSE "walk")
                         /\ r = [ip |-> e, path |-> Tail(th[p].path)] \oplus [at |-> "iput", puts |-> <<s>>, then |-> w]
      OBVIOUS
    <2>2. th'[p] = r \oplus th[p] /\ (\A q \in Proc \ {p} : th'[q] = th[q]) /\ th[p] = [f \in Fields |-> th[p][f]]
      BY <1>6, <2>1, Goes DEF IInv, PutThen
    <2>3. /\ th'[p].at = "iput" /\ th'[p].puts = <<s>> /\ th'[p].then = w /\ th'[p].ip = e
          /\ th'[p].dp = th[p].dp /\ th'[p].tgt = th[p].tgt
      BY <2>1, <2>2 DEF \oplus, Fields
    <2>4. w \in {"walk", "openip", "linkinc", "chdirip", "createfound"}
      BY <1>3, <1>6, <2>1 DEF Continues
    <2>5. Folder(In(p, "ip"))
      BY <1>3, <1>6 DEF Folder, Stands, Seeks, Looking
    <2>6. Head(th[p].path) \in Name
      BY <1>3, SoughtIsName DEF Naming
    <2>7. Head(th[p].path) = ".." => In(p, "ip") = ROOTINO \/ Names(In(p, "ip")) # {}
      <3>1. th'[p] # th[p]
        BY <1>3, <2>3
      <3> QED
        BY <1>3, <3>1 DEF StaysInTree, Sought, At
    <2>8. Good(p, i) /\ i \in Inum
      BY <1>1, <1>3, <1>6, <2>5, <2>6, <2>7, Reach, DirTypes
    <2>9. PICK a \in {"walk", "createdp"} : Locks(p, a)
      BY <1>2
    <2>10. HasEntry(t, i) /\ itable' = Iget(t, i) /\ e = EntryFor(t, i) /\ \A q \in Proc \ {p} : th'[q] = th[q]
      BY <1>6, <2>1, <2>2
    <2> QED
      BY <1>1, <1>2, <2>3, <2>4, <2>8, <2>9, <2>10, FoundTree, Zenon
  <1>7. PICK d, stop : d = IsDir(In(p, "ip")) /\ stop = (th[p].parent /\ Len(th[p].path) = 1)
    OBVIOUS
  <1>8. \/ GiveUp(p, s, th[p].fail)
        \/ d /\ stop /\ itable' = t /\ Go(p, [at |-> th[p].ok])
        \/ d /\ ~stop /\ i # 0 /\ HasEntry(t, i) /\ itable' = Iget(t, i)
           /\ PutThen(p, <<s>>, IF Len(th[p].path) = 1 THEN th[p].ok ELSE "walk", [ip |-> EntryFor(t, i), path |-> Tail(th[p].path)])
    <2>1. d = (Loaded(s).type = "dir") /\ i = dir[itable[s].inum][Head(th[p].path)]
      BY <1>1, <1>3, <1>7 DEF IsDir
    <2> QED
      BY <1>1, <1>7, <2>1, Zenon DEF Walk
  <1> QED
    BY <1>4, <1>5, <1>6, <1>7, <1>8

\* A path begins, at the root or in the current directory.
LEMMA NamexTree ==
  ASSUME IInv, TInv, NEW p \in Proc, Namex(p)
  PROVE  TInv'
  <1>1. th[p].at = "namex" /\ th[p].at \notin Putting /\ UNCHANGED <<disk, files, ncalls, lost>>
    BY DEF Namex, At, Putting
  <1>2. /\ th[p].puts = <<>> /\ Eff(th[p]) = "namex" /\ th[p].ip = 0 /\ th[p].dp = 0 /\ cwd[p] # 0 /\ cwd[p] \in Slot
        /\ itable[cwd[p]].ref > 0 /\ itable \in Table /\ Coherent(itable, dinode) /\ 0 \notin Slot
        /\ \A s \in Slot : ~Frees(th[p], s)
    BY <1>1, Standing, InUse, Sizes DEF HasIp, HasDp, Slot
  <1>3. PICK i, e, path : /\ i = (IF Head(th[p].path) = "/" THEN ROOTINO ELSE In(p, "cwd"))
                          /\ e = (IF Head(th[p].path) = "/" THEN EntryFor(itable, ROOTINO) ELSE cwd[p])
                          /\ path = (IF Head(th[p].path) = "/" THEN Tail(th[p].path) ELSE th[p].path)
    OBVIOUS
  <1>4. /\ th'[p].at = "walk" /\ th'[p].puts = <<>> /\ th'[p].ip = e /\ th'[p].dp = th[p].dp /\ th'[p].tgt = th[p].tgt
        /\ \A q \in Proc \ {p} : th'[q] = th[q]
    <2>1. CASE Head(th[p].path) = "/"
      <3>1. PICK r : r = [at |-> "walk", ip |-> e, path |-> path]
        OBVIOUS
      <3>2. th'[p] = r \oplus th[p] /\ (\A q \in Proc \ {p} : th'[q] = th[q]) /\ th[p] = [f \in Fields |-> th[p][f]]
        BY <2>1, <1>3, <3>1, Goes DEF IInv, Namex
      <3> QED
        BY <1>2, <3>1, <3>2 DEF \oplus, Fields
    <2>2. CASE Head(th[p].path) # "/"
      <3>1. PICK r : r = [at |-> "walk", ip |-> e]
        OBVIOUS
      <3>2. th'[p] = r \oplus th[p] /\ (\A q \in Proc \ {p} : th'[q] = th[q]) /\ th[p] = [f \in Fields |-> th[p][f]]
        BY <2>2, <1>3, <3>1, Goes DEF IInv, Namex
      <3> QED
        BY <1>2, <3>1, <3>2 DEF \oplus, Fields
    <2> QED
      BY <2>1, <2>2
  <1>5. InumsKept /\ e \in Slot /\ itable'[e].inum = i /\ \A x \in Slot : itable'[x].lock = itable[x].lock
    <2>1. CASE Head(th[p].path) = "/"
      <3>1. HasEntry(itable, ROOTINO) /\ itable' = Iget(itable, ROOTINO) /\ e = EntryFor(itable, ROOTINO) /\ i = ROOTINO
        BY <2>1, <1>3 DEF Namex
      <3>2. KeptIn(itable, p) /\ ROOTINO \in Inum
        BY Sizes DEF KeptIn
      <3> QED
        BY <1>2, <3>1, <3>2, GotAfter DEF InumsKept, KeptIn
    <2>2. CASE Head(th[p].path) # "/"
      <3>1. RefTo(itable, itable', cwd[p], itable[cwd[p]].ref + 1) /\ itable[cwd[p]].ref + 1 \in Int
        BY <2>2, InUse, <1>2 DEF RefTo, Namex
      <3>2. \A x \in Slot : itable'[x].inum = itable[x].inum /\ itable'[x].lock = itable[x].lock
        BY <1>2, <3>1, RefChanged
      <3>3. i = itable[cwd[p]].inum /\ e = cwd[p]
        BY <2>2, <1>1, <1>2, <1>3 DEF In, Ref, Held1, Ino
      <3> QED
        BY <1>2, <3>2, <3>3 DEF InumsKept
    <2> QED
      BY <2>1, <2>2
  <1>6. Good(p, i)
    <2>1. In(p, "cwd") # 0 /\ In(p, "cwd") \in Inum
      BY <1>2, RefInUse DEF Ref, Held1, LocalVar
    <2>2. AtHand(p, In(p, "cwd")) /\ Folder(In(p, "cwd"))
      BY <2>1, HadAtHand DEF TInv, Stands, Homes, LocalVar
    <2> QED
      BY <1>3, <2>2, LinkedIsGood, Sizes DEF Good, Folder
  <1>7. /\ Ref(p, "ip")' = e /\ Ref(p, "put1")' = 0 /\ Ref(p, "put2")' = 0
        /\ Ref(p, "dp")' = Ref(p, "dp") /\ Ref(p, "tgt")' = Ref(p, "tgt") /\ Ref(p, "cwd")' = Ref(p, "cwd")
    BY <1>1, <1>4 DEF Ref, Held1, At, files
  <1>8. /\ In(p, "ip")' = i /\ In(p, "put1")' = 0 /\ In(p, "put2")' = 0
        /\ In(p, "dp")' = In(p, "dp") /\ In(p, "tgt")' = In(p, "tgt") /\ In(p, "cwd")' = In(p, "cwd")
    BY <1>2, <1>5, <1>7, InAfter DEF LocalVar
  <1>9. \A v \in LocalVar : In(p, v)' = 0 \/ AtHand(p, In(p, v)')
    BY <1>6, <1>8, HadAtHand DEF LocalVar, Good
  <1>10. Eff(th'[p]) = "walk"
    BY <1>4 DEF Eff
  <1>11. LocksKept(p)
    <2>1. \A x \in Slot : itable[x].lock # p
      BY <1>2 DEF TInv, Locking, KeepsLocked, Keeping, HasDp
    <2> QED
      BY <1>5, <2>1 DEF LocksKept
  <1>12. Kept(p) /\ OthersWait(p) /\ FilesKept
    BY <1>1, <1>4 DEF Kept, OthersWait, FilesKept, disk, files
  <1> QED
    BY <1>2, <1>4, <1>5, <1>6, <1>8, <1>9, <1>10, <1>11, <1>12, LookStep DEF Owing, Looking
-----------------------------------------------------------------------------
(* Looking up the last name *)

\* Entries are found alike before and after iunlock().
LEMMA EntrySame ==
  ASSUME IInv, NEW p \in Proc, NEW s \in Slot, CanLock(s), itable[s].ref > 0, NEW i, HasEntry(Ilock(p, s), i)
  PROVE  HasEntry(Unlock(Ilock(p, s), s), i) /\ EntryFor(Unlock(Ilock(p, s), s), i) = EntryFor(Ilock(p, s), i)
  <1>1. PICK t, u : t = Ilock(p, s) /\ u = Unlock(Ilock(p, s), s)
    OBVIOUS
  <1>2. \A x \in Slot : u[x].ref = t[x].ref /\ u[x].inum = t[x].inum
    <2>1. \A x \in Slot : u[x].ref = itable[x].ref /\ u[x].inum = itable[x].inum
      BY <1>1, Peeked
    <2>2. \A x \in Slot : t[x].ref = itable[x].ref /\ t[x].inum = itable[x].inum
      BY <1>1, Entered DEF Like
    <2> QED
      BY <2>1, <2>2
  <1>3. Cached(u, i) = Cached(t, i) /\ Unused(u) = Unused(t)
    BY <1>2 DEF Cached, Unused
  <1> QED
    BY <1>1, <1>3, Zenon DEF HasEntry, EntryFor

\* The last name of a path is found in a directory with dots, and is good.
LEMMA FoundIsGood ==
  ASSUME IInv, TInv, NEW p \in Proc, NEW w \in {"createdp", "unlinkdp", "linkdp"}, Locks(p, w), Found(p) # 0,
         LastOf(th[p].path) = ".." => In(p, "ip") = ROOTINO \/ Names(In(p, "ip")) # {}
  PROVE  Found(p) \in Inum /\ Good(p, Found(p))
  <1>1. /\ th[p].at = w /\ th[p].puts = <<>> /\ Eff(th[p]) = w /\ AtHand(p, In(p, "ip")) /\ Stands(p)
        /\ In(p, "ip") = itable[th[p].ip].inum
    BY Here DEF Looking
  <1>2. LastOf(th[p].path) \in Name
    BY <1>1, SoughtIsName DEF Naming
  <1>3. Folder(In(p, "ip")) /\ In(p, "ip") \in Inum
    BY <1>1 DEF Folder, Stands, Seeks, Looking, AtHand
  <1>4. Found(p) = dir[In(p, "ip")][LastOf(th[p].path)]
    BY <1>1 DEF Found
  <1> QED
    BY <1>1, <1>2, <1>3, <1>4, Reach, DirTypes

\* create() does not find the name: the directory stays locked.
LEMMA CreateNewTree ==
  ASSUME IInv, TInv, NEW p \in Proc, Locks(p, "createdp"), Found(p) = 0, itable' = Ilock(p, th[p].ip),
         Go(p, [at |-> "ialloc", dp |-> th[p].ip, ip |-> 0]), UNCHANGED <<disk, files, ncalls, lost>>
  PROVE  TInv'
  <1>1. PICK s : s = th[p].ip
    OBVIOUS
  <1>2. /\ th[p].at = "createdp" /\ th[p].puts = <<>> /\ Eff(th[p]) = "createdp" /\ CanLock(s) /\ s \in Slot /\ itable[s].ref > 0
        /\ \A x \in Slot : KeepsLocked(th[p], x) => "createdp" \in HasDp
        /\ \A x \in Slot : itable[x].lock = p => KeepsLocked(th[p], x)
        /\ In(p, "ip") \in Inum /\ AtHand(p, In(p, "ip")) /\ Stands(p) /\ 0 \notin Slot /\ Ref(p, "ip") = s
        /\ In(p, "ip") = itable[s].inum
    BY <1>1, Here DEF Looking
  <1>3. PICK r : r = [at |-> "ialloc", dp |-> s, ip |-> 0]
    OBVIOUS
  <1>4. th'[p] = r \oplus th[p] /\ (\A q \in Proc \ {p} : th'[q] = th[q]) /\ th[p] = [f \in Fields |-> th[p][f]]
    BY <1>1, <1>3, Goes DEF IInv
  <1>5. th'[p].at = "ialloc" /\ th'[p].puts = <<>> /\ th'[p].ip = 0 /\ th'[p].dp = s /\ th'[p].tgt = th[p].tgt /\ th'[p].path = th[p].path
    BY <1>2, <1>3, <1>4 DEF \oplus, Fields
  <1>6. Like(itable', s) /\ itable'[s].lock = p
    BY <1>1, <1>2, Entered
  <1>7. InumsKept
    BY <1>6 DEF InumsKept, Like
  <1>8. /\ Ref(p, "ip")' = 0 /\ Ref(p, "put1")' = 0 /\ Ref(p, "put2")' = 0
        /\ Ref(p, "dp")' = Ref(p, "ip") /\ Ref(p, "tgt")' = Ref(p, "tgt") /\ Ref(p, "cwd")' = Ref(p, "cwd")
    BY <1>2, <1>5 DEF Ref, Held1, At, files
  <1>9. /\ In(p, "ip")' = 0 /\ In(p, "put1")' = 0 /\ In(p, "put2")' = 0
        /\ In(p, "dp")' = In(p, "ip") /\ In(p, "tgt")' = In(p, "tgt") /\ In(p, "cwd")' = In(p, "cwd")
    BY <1>7, <1>8, InAfter DEF LocalVar
  <1>10. \A v \in LocalVar : In(p, v)' = 0 \/ AtHand(p, In(p, v)')
    BY <1>9, StillAtHand DEF LocalVar
  <1>11. Folder(In(p, "ip"))
    BY <1>2 DEF Folder, Stands, Seeks, Looking
  <1>12. Kept(p) /\ OthersWait(p) /\ FilesKept
    BY <1>4 DEF Kept, OthersWait, FilesKept, disk, files
  <1>13. Homes(p)'
    BY <1>9, <1>10, <1>11, <1>12, HomesKept
  <1>14. Eff(th'[p]) = "ialloc"
    BY <1>5 DEF Eff
  <1>15. Makes(p)'
    <2>1. dir[In(p, "ip")][LastOf(th[p].path)] = 0
      BY <1>1, <1>2 DEF Found
    <2>2. LastOf(th[p].path) \notin Dots
      BY <1>2, <1>11, <2>1, DirTypes DEF Folder, Dotted, Dots
    <2> QED
      BY <1>5, <1>9, <1>12, <1>14, <2>1, <2>2 DEF Makes, Making, Kept
  <1>16. Seeks(p)' /\ Unlinks(p)' /\ OwesAsMuch(p)
    BY <1>2, <1>9, <1>14 DEF Seeks, Unlinks, Looking, OwesAsMuch, Owes, Owing
  <1>17. LocksKept(p)
    <2>1. KeepsLocked(th'[p], s)
      BY <1>5, <1>14 DEF KeepsLocked, HasDp
    <2> QED
      BY <1>2, <1>6, <2>1 DEF LocksKept, HasDp, Like
  <1> QED
    BY <1>5, <1>7, <1>10, <1>12, <1>13, <1>14, <1>15, <1>16, <1>17, EasyStep DEF Making

\* The directory of create().
LEMMA CreateDpTree ==
  ASSUME IInv, TInv, NEW p \in Proc, CreateDp(p), StaysInTree
  PROVE  TInv'
  <1>1. PICK s, t, i : s = th[p].ip /\ t = Unlock(Ilock(p, s), s) /\ i = Found(p)
    OBVIOUS
  <1>2. UNCHANGED <<disk, files, ncalls, lost>> /\ Locks(p, "createdp")
    BY DEF CreateDp
  <1>3. th[p].at = "createdp" /\ CanLock(s) /\ s \in Slot /\ itable[s].ref > 0
    BY <1>1, <1>2, Here DEF Looking
  <1>4. ASSUME i # 0, HasEntry(Ilock(p, s), i), itable' = Iget(t, i),
               PutThen(p, <<s>>, "createfound", [ip |-> EntryFor(Ilock(p, s), i)])
        PROVE  TInv'
    <2>1. PICK e, r : /\ e = EntryFor(Ilock(p, s), i)
                      /\ r = [ip |-> e] \oplus [at |-> "iput", puts |-> <<s>>, then |-> "createfound"]
      OBVIOUS
    <2>2. th'[p] = r \oplus th[p] /\ (\A q \in Proc \ {p} : th'[q] = th[q]) /\ th[p] = [f \in Fields |-> th[p][f]]
      BY <1>4, <2>1, Goes DEF IInv, PutThen
    <2>3. /\ th'[p].at = "iput" /\ th'[p].puts = <<s>> /\ th'[p].then = "createfound" /\ th'[p].ip = e
          /\ th'[p].dp = th[p].dp /\ th'[p].tgt = th[p].tgt
      BY <2>1, <2>2 DEF \oplus, Fields
    <2>4. HasEntry(t, i) /\ e = EntryFor(t, i)
      BY <1>1, <1>3, <1>4, <2>1, EntrySame
    <2>5. LastOf(th[p].path) = ".." => In(p, "ip") = ROOTINO \/ Names(In(p, "ip")) # {}
      <3>1. th'[p] # th[p]
        BY <1>3, <2>3
      <3> QED
        BY <1>3, <3>1 DEF StaysInTree, Sought, At
    <2>6. Good(p, i) /\ i \in Inum
      BY <1>1, <1>2, <1>4, <2>5, FoundIsGood
    <2>7. PICK a \in {"walk", "createdp"}, w \in {"walk", "openip", "linkinc", "chdirip", "createfound"} :
            Locks(p, a) /\ th'[p].then = w
      BY <1>2, <2>3
    <2> QED
      BY <1>1, <1>2, <1>4, <2>2, <2>3, <2>4, <2>6, <2>7, FoundTree
  <1>5. ASSUME i = 0, itable' = Ilock(p, s), Go(p, [at |-> "ialloc", dp |-> s, ip |-> 0])
        PROVE  TInv'
    BY <1>1, <1>2, <1>5, CreateNewTree
  <1> QED
    BY <1>1, <1>4, <1>5 DEF CreateDp
-----------------------------------------------------------------------------
(* open() *)

\* open() locks the inode it found or created.
LEMMA TakenTree ==
  ASSUME IInv, TInv, NEW p \in Proc, NEW a \in {"createfound", "openip"}, Locks(p, a), itable' = Ilock(p, th[p].ip),
         Go(p, [at |-> "openfile"]), UNCHANGED <<disk, files, ncalls, lost>>
  PROVE  TInv'
  <1>1. PICK s : s = th[p].ip
    OBVIOUS
  <1>2. /\ th[p].at = a /\ th[p].puts = <<>> /\ Eff(th[p]) = a /\ CanLock(s) /\ s \in Slot /\ itable[s].ref > 0
        /\ \A x \in Slot : KeepsLocked(th[p], x) => a \in HasDp
        /\ \A x \in Slot : itable[x].lock = p => KeepsLocked(th[p], x)
    BY <1>1, Here DEF Looking
  <1>3. PICK r : r = [at |-> "openfile"]
    OBVIOUS
  <1>4. th'[p] = r \oplus th[p] /\ (\A q \in Proc \ {p} : th'[q] = th[q]) /\ th[p] = [f \in Fields |-> th[p][f]]
    BY <1>1, <1>3, Goes DEF IInv
  <1>5. th'[p].at = "openfile" /\ th'[p].puts = <<>> /\ th'[p].ip = th[p].ip /\ th'[p].dp = th[p].dp /\ th'[p].tgt = th[p].tgt
    BY <1>2, <1>3, <1>4 DEF \oplus, Fields
  <1>6. Like(itable', s) /\ itable'[s].lock = p
    BY <1>1, <1>2, Entered
  <1>7. InumsKept
    BY <1>6 DEF InumsKept, Like
  <1>8. \A v \in LocalVar : In(p, v)' = In(p, v)
    <2>1. \A v \in LocalVar : Ref(p, v)' = Ref(p, v)
      BY <1>2, <1>5 DEF Ref, Held1, At, LocalVar, files
    <2> QED
      BY <1>7, <2>1, InAfter
  <1>9. \A v \in LocalVar : In(p, v)' = 0 \/ AtHand(p, In(p, v)')
    BY <1>8, StillAtHand
  <1>10. In(p, "cwd")' = In(p, "cwd") /\ In(p, "dp")' = In(p, "dp") /\ In(p, "tgt")' = In(p, "tgt")
    BY <1>8 DEF LocalVar
  <1>11. Eff(th'[p]) = "openfile" /\ "openfile" \in Elsewhere \ Owing
    BY <1>5 DEF Eff, Elsewhere, Where, HasIp, Looking, Making, Owing
  <1>12. LocksKept(p)
    <2>1. KeepsLocked(th'[p], s)
      BY <1>1, <1>5, <1>11 DEF KeepsLocked, Keeping
    <2> QED
      BY <1>2, <1>6, <2>1 DEF LocksKept, HasDp, Like
  <1>13. Kept(p) /\ OthersWait(p) /\ FilesKept
    BY <1>4 DEF Kept, OthersWait, FilesKept, disk, files
  <1> QED
    BY <1>2, <1>5, <1>7, <1>9, <1>10, <1>11, <1>12, <1>13, RestStep DEF Owing

\* create() of a name that exists.
LEMMA CreateFoundTree ==
  ASSUME IInv, TInv, NEW p \in Proc, CreateFound(p)
  PROVE  TInv'
  <1>1. PICK s : s = th[p].ip
    OBVIOUS
  <1>2. UNCHANGED <<disk, files, ncalls, lost>> /\ Locks(p, "createfound")
    BY DEF CreateFound
  <1>3. th[p].at = "createfound" /\ th[p].puts = <<>> /\ CanLock(s) /\ s \in Slot
    BY <1>1, <1>2, Here DEF Looking
  <1>4. ASSUME GiveUp(p, s, "endop")
        PROVE  TInv'
    BY <1>1, <1>2, <1>3, <1>4, GiveUpTree DEF Looking, HasDp
  <1>5. ASSUME itable' = Ilock(p, s), Go(p, [at |-> "openfile"])
        PROVE  TInv'
    <2>1. PICK a \in {"createfound", "openip"} : Locks(p, a)
      BY <1>2
    <2> QED
      BY <1>1, <1>2, <1>5, <2>1, TakenTree
  <1> QED
    BY <1>1, <1>4, <1>5 DEF CreateFound

\* open() of the inode of a path.
LEMMA OpenIpTree ==
  ASSUME IInv, TInv, NEW p \in Proc, OpenIp(p)
  PROVE  TInv'
  <1>1. PICK s : s = th[p].ip
    OBVIOUS
  <1>2. UNCHANGED <<disk, files, ncalls, lost>> /\ Locks(p, "openip")
    BY DEF OpenIp
  <1>3. th[p].at = "openip" /\ th[p].puts = <<>> /\ CanLock(s) /\ s \in Slot
    BY <1>1, <1>2, Here DEF Looking
  <1>4. ASSUME GiveUp(p, s, "endop")
        PROVE  TInv'
    BY <1>1, <1>2, <1>3, <1>4, GiveUpTree DEF Looking, HasDp
  <1>5. ASSUME itable' = Ilock(p, s), Go(p, [at |-> "openfile"])
        PROVE  TInv'
    <2>1. PICK a \in {"createfound", "openip"} : Locks(p, a)
      BY <1>2
    <2> QED
      BY <1>1, <1>2, <1>5, <2>1, TakenTree
  <1> QED
    BY <1>1, <1>4, <1>5 DEF OpenIp
-----------------------------------------------------------------------------
(* sys_unlink() and sys_link() in their directories *)

\* unlink() finds the name: the directory stays locked.
LEMMA UnlinkFoundTree ==
  ASSUME IInv, TInv, NEW p \in Proc, Locks(p, "unlinkdp"), LastOf(th[p].path) \notin Dots, NEW i \in Inum, i = Found(p), Good(p, i),
         HasEntry(Ilock(p, th[p].ip), i), NEW e, e = EntryFor(Ilock(p, th[p].ip), i), itable' = Iget(Ilock(p, th[p].ip), i),
         Go(p, [at |-> "unlinkip", dp |-> th[p].ip, ip |-> e]), UNCHANGED <<disk, files, ncalls, lost>>
  PROVE  TInv'
  <1>1. PICK s : s = th[p].ip
    OBVIOUS
  <1>2. /\ th[p].at = "unlinkdp" /\ th[p].puts = <<>> /\ Eff(th[p]) = "unlinkdp" /\ CanLock(s) /\ s \in Slot /\ itable[s].ref > 0
        /\ \A x \in Slot : KeepsLocked(th[p], x) => "unlinkdp" \in HasDp
        /\ \A x \in Slot : itable[x].lock = p => KeepsLocked(th[p], x)
        /\ In(p, "ip") \in Inum /\ AtHand(p, In(p, "ip")) /\ Stands(p) /\ 0 \notin Slot /\ Ref(p, "ip") = s
        /\ In(p, "ip") = itable[s].inum
    BY <1>1, Here DEF Looking
  <1>3. PICK r : r = [at |-> "unlinkip", dp |-> s, ip |-> e]
    OBVIOUS
  <1>4. th'[p] = r \oplus th[p] /\ (\A q \in Proc \ {p} : th'[q] = th[q]) /\ th[p] = [f \in Fields |-> th[p][f]]
    BY <1>1, <1>3, Goes DEF IInv
  <1>5. th'[p].at = "unlinkip" /\ th'[p].puts = <<>> /\ th'[p].ip = e /\ th'[p].dp = s /\ th'[p].tgt = th[p].tgt /\ th'[p].path = th[p].path
    BY <1>2, <1>3, <1>4 DEF \oplus, Fields
  <1>6. PICK t : t = Ilock(p, s)
    OBVIOUS
  <1>7. Like(t, s) /\ t[s].lock = p /\ Coherent(t, dinode) /\ KeptIn(t, p)
    BY <1>1, <1>2, <1>6, Entered
  <1>8. /\ e \in Slot /\ KeptIn(itable', p) /\ itable'[e].inum = i
        /\ \A x \in Slot : itable'[x].lock = t[x].lock
    <2>1. PICK u : u = itable'
      OBVIOUS
    <2>2. e \in Slot /\ KeptIn(u, p) /\ u[e].inum = i /\ \A x \in Slot : u[x].lock = t[x].lock
      BY <1>1, <1>6, <1>7, <2>1, GotAfter DEF Like
    <2> QED
      BY <2>1, <2>2
  <1>9. InumsKept
    BY <1>8 DEF InumsKept, KeptIn
  <1>10. /\ Ref(p, "ip")' = e /\ Ref(p, "put1")' = 0 /\ Ref(p, "put2")' = 0
         /\ Ref(p, "dp")' = Ref(p, "ip") /\ Ref(p, "tgt")' = Ref(p, "tgt") /\ Ref(p, "cwd")' = Ref(p, "cwd")
    BY <1>2, <1>5 DEF Ref, Held1, At, files
  <1>11. /\ In(p, "ip")' = i /\ In(p, "put1")' = 0 /\ In(p, "put2")' = 0
         /\ In(p, "dp")' = In(p, "ip") /\ In(p, "tgt")' = In(p, "tgt") /\ In(p, "cwd")' = In(p, "cwd")
    <2>1. "ip" \in LocalVar /\ "put1" \in LocalVar /\ "put2" \in LocalVar /\ "dp" \in LocalVar /\ "tgt" \in LocalVar /\ "cwd" \in LocalVar
      BY DEF LocalVar
    <2> QED
      BY <1>2, <1>8, <1>9, <1>10, <2>1, InAfter
  <1>12. \A v \in LocalVar : In(p, v)' = 0 \/ AtHand(p, In(p, v)')
    BY <1>2, <1>11, HadAtHand DEF LocalVar, Good
  <1>13. Folder(In(p, "ip")) /\ dir[In(p, "ip")][LastOf(th[p].path)] = i
    BY <1>1, <1>2, Zenon DEF Folder, Stands, Seeks, Looking, Found
  <1>14. Eff(th'[p]) = "unlinkip"
    BY <1>5 DEF Eff
  <1>15. LocksKept(p)
    <2>1. KeepsLocked(th'[p], s)
      BY <1>5, <1>14 DEF KeepsLocked, HasDp
    <2> QED
      BY <1>2, <1>7, <1>8, <2>1 DEF LocksKept, HasDp, Like
  <1>16. Kept(p) /\ OthersWait(p) /\ FilesKept
    BY <1>4 DEF Kept, OthersWait, FilesKept, disk, files
  <1> QED
    BY <1>2, <1>5, <1>9, <1>11, <1>12, <1>13, <1>14, <1>15, <1>16, LookStep DEF Owing, Looking

\* The directory of unlink().
LEMMA UnlinkDpTree ==
  ASSUME IInv, TInv, NEW p \in Proc, UnlinkDp(p)
  PROVE  TInv'
  <1>1. PICK s, t, i, refused : s = th[p].ip /\ t = Ilock(p, s) /\ i = Found(p)
                                /\ refused = (LastOf(th[p].path) \in Dots \/ Found(p) = 0)
    OBVIOUS
  <1>2. UNCHANGED <<disk, files, ncalls, lost>> /\ Locks(p, "unlinkdp")
    BY DEF UnlinkDp
  <1>3. th[p].at = "unlinkdp" /\ th[p].puts = <<>> /\ CanLock(s) /\ s \in Slot
    BY <1>1, <1>2, Here DEF Looking
  <1>4. ASSUME GiveUp(p, s, "endop")
        PROVE  TInv'
    BY <1>1, <1>2, <1>3, <1>4, GiveUpTree DEF Looking, HasDp
  <1>5. ASSUME ~refused, HasEntry(t, i), itable' = Iget(t, i), Go(p, [at |-> "unlinkip", dp |-> s, ip |-> EntryFor(t, i)])
        PROVE  TInv'
    <2>1. Found(p) # 0 /\ LastOf(th[p].path) \notin Dots
      BY <1>1, <1>5
    <2>2. i \in Inum /\ Good(p, i)
      BY <1>1, <1>2, <2>1, FoundIsGood DEF Dots
    <2>3. PICK e : e = EntryFor(t, i)
      OBVIOUS
    <2> QED
      BY <1>1, <1>2, <1>5, <2>1, <2>2, <2>3, UnlinkFoundTree
  <1> QED
    BY <1>1, <1>4, <1>5 DEF UnlinkDp

\* The new name of link() exists: what was found is dropped with the directory locked.
LEMMA LinkFoundTree ==
  ASSUME IInv, TInv, NEW p \in Proc, Locks(p, "linkdp"), NEW i \in Inum, Good(p, i), HasEntry(Ilock(p, th[p].ip), i),
         NEW e, e = EntryFor(Ilock(p, th[p].ip), i), itable' = Iget(Ilock(p, th[p].ip), i),
         PutThen(p, <<e>>, "dropdp", [dp |-> th[p].ip, ip |-> 0]), UNCHANGED <<disk, files, ncalls, lost>>
  PROVE  TInv'
  <1>1. PICK s : s = th[p].ip
    OBVIOUS
  <1>2. /\ th[p].at = "linkdp" /\ th[p].puts = <<>> /\ Eff(th[p]) = "linkdp" /\ CanLock(s) /\ s \in Slot /\ itable[s].ref > 0
        /\ \A x \in Slot : KeepsLocked(th[p], x) => "linkdp" \in HasDp
        /\ \A x \in Slot : itable[x].lock = p => KeepsLocked(th[p], x)
        /\ In(p, "ip") \in Inum /\ AtHand(p, In(p, "ip")) /\ Stands(p) /\ 0 \notin Slot /\ Ref(p, "ip") = s
    BY <1>1, Here DEF Looking
  <1>3. PICK r : r = [dp |-> s, ip |-> 0] \oplus [at |-> "iput", puts |-> <<e>>, then |-> "dropdp"]
    OBVIOUS
  <1>4. th'[p] = r \oplus th[p] /\ (\A q \in Proc \ {p} : th'[q] = th[q]) /\ th[p] = [f \in Fields |-> th[p][f]]
    BY <1>1, <1>3, Goes DEF IInv, PutThen
  <1>5. th'[p].at = "iput" /\ th'[p].puts = <<e>> /\ th'[p].then = "dropdp" /\ th'[p].ip = 0 /\ th'[p].dp = s /\ th'[p].tgt = th[p].tgt
    BY <1>2, <1>3, <1>4 DEF \oplus, Fields
  <1>6. PICK t : t = Ilock(p, s)
    OBVIOUS
  <1>7. Like(t, s) /\ t[s].lock = p /\ Coherent(t, dinode) /\ KeptIn(t, p)
    BY <1>1, <1>2, <1>6, Entered
  <1>8. /\ e \in Slot /\ KeptIn(itable', p) /\ itable'[e].inum = i
        /\ \A x \in Slot : itable'[x].lock = t[x].lock
    <2>1. PICK u : u = itable'
      OBVIOUS
    <2>2. e \in Slot /\ KeptIn(u, p) /\ u[e].inum = i /\ \A x \in Slot : u[x].lock = t[x].lock
      BY <1>1, <1>6, <1>7, <2>1, GotAfter DEF Like
    <2> QED
      BY <2>1, <2>2
  <1>9. InumsKept
    BY <1>8 DEF InumsKept, KeptIn
  <1>10. /\ Ref(p, "ip")' = 0 /\ Ref(p, "put1")' = e /\ Ref(p, "put2")' = 0
         /\ Ref(p, "dp")' = Ref(p, "ip") /\ Ref(p, "tgt")' = Ref(p, "tgt") /\ Ref(p, "cwd")' = Ref(p, "cwd")
    BY <1>2, <1>5 DEF Ref, Held1, At, files
  <1>11. /\ In(p, "ip")' = 0 /\ In(p, "put1")' = i /\ In(p, "put2")' = 0
         /\ In(p, "dp")' = In(p, "ip") /\ In(p, "tgt")' = In(p, "tgt") /\ In(p, "cwd")' = In(p, "cwd")
    <2>1. "ip" \in LocalVar /\ "put1" \in LocalVar /\ "put2" \in LocalVar /\ "dp" \in LocalVar /\ "tgt" \in LocalVar /\ "cwd" \in LocalVar
      BY DEF LocalVar
    <2> QED
      BY <1>2, <1>8, <1>9, <1>10, <2>1, InAfter
  <1>12. \A v \in LocalVar : In(p, v)' = 0 \/ AtHand(p, In(p, v)')
    BY <1>2, <1>11, HadAtHand DEF LocalVar, Good
  <1>13. Folder(In(p, "ip"))
    BY <1>1, <1>2 DEF Folder, Stands, Seeks, Looking
  <1>14. Eff(th'[p]) = "dropdp" /\ "dropdp" \in Elsewhere \ Owing
    BY <1>5 DEF Eff, Elsewhere, Where, HasDp, Looking, Making, Owing
  <1>15. LocksKept(p)
    <2>1. KeepsLocked(th'[p], s)
      BY <1>5, <1>14 DEF KeepsLocked, HasDp
    <2> QED
      BY <1>2, <1>7, <1>8, <2>1 DEF LocksKept, HasDp, Like
  <1>16. Kept(p) /\ OthersWait(p) /\ FilesKept
    BY <1>4 DEF Kept, OthersWait, FilesKept, disk, files
  <1> QED
    BY <1>2, <1>5, <1>9, <1>11, <1>12, <1>13, <1>14, <1>15, <1>16, RestStep DEF Owing
-----------------------------------------------------------------------------
(* iunlockput() *)

\* A path unlocks what it had locked, and drops it next.
LEMMA DropTree ==
  ASSUME IInv, TInv, NEW p \in Proc, NEW a \in {"dropip", "dropdp"}, At(p, a),
         NEW s, s = (IF a = "dropip" THEN th[p].ip ELSE th[p].dp), itable' = Unlock(itable, s),
         NEW w \in {"endop", "linkbad"},
         PutThen(p, <<s>>, w, IF a = "dropip" THEN [ip |-> 0] ELSE [dp |-> 0]), UNCHANGED <<disk, files, ncalls, lost>>
  PROVE  TInv'
  <1>1. th[p].at = a /\ th[p].at \notin Putting
    BY DEF At, Putting
  <1>2. /\ th[p].puts = <<>> /\ Eff(th[p]) = a /\ 0 \notin Slot /\ (th[p].ip # 0 <=> a = "dropip") /\ (th[p].dp # 0 <=> a = "dropdp")
        /\ \A x \in Slot : ~Frees(th[p], x)
    BY <1>1, Standing, Sizes DEF HasIp, HasDp, Slot
  <1>3. s \in Slot /\ itable[s].ref > 0 /\ itable[s].lock = p
    BY <1>2, InUse, Stood DEF Keeping, HasIp, HasDp
  <1>4. PICK r : r = (IF a = "dropip" THEN [ip |-> 0] ELSE [dp |-> 0]) \oplus [at |-> "iput", puts |-> <<s>>, then |-> w]
    OBVIOUS
  <1>5. th'[p] = r \oplus th[p] /\ (\A q \in Proc \ {p} : th'[q] = th[q]) /\ th[p] = [f \in Fields |-> th[p][f]]
    BY <1>4, Goes DEF IInv, PutThen
  <1>6. th'[p].at = "iput" /\ th'[p].puts = <<s>> /\ th'[p].then = w /\ th'[p].ip = 0 /\ th'[p].dp = 0 /\ th'[p].tgt = th[p].tgt
    <2>1. CASE a = "dropip"
      BY <1>2, <1>4, <1>5, <2>1 DEF \oplus, Fields
    <2>2. CASE a = "dropdp"
      BY <1>2, <1>4, <1>5, <2>2 DEF \oplus, Fields
    <2> QED
      BY <2>1, <2>2
  <1>7. Like(itable', s) /\ itable'[s].lock = None
    BY <1>3, LetGo
  <1>8. InumsKept
    BY <1>7 DEF InumsKept, Like
  <1>9. PICK v \in {"ip", "dp"} : v = IF a = "dropip" THEN "ip" ELSE "dp"
    OBVIOUS
  <1>10. /\ Ref(p, "ip")' = 0 /\ Ref(p, "dp")' = 0 /\ Ref(p, "put2")' = 0
         /\ Ref(p, "put1")' = Ref(p, v) /\ Ref(p, "tgt")' = Ref(p, "tgt") /\ Ref(p, "cwd")' = Ref(p, "cwd")
    BY <1>1, <1>2, <1>3, <1>6, <1>9 DEF Ref, Held1, At, files
  <1>11. /\ In(p, "ip")' = 0 /\ In(p, "dp")' = 0 /\ In(p, "put2")' = 0
         /\ In(p, "put1")' = In(p, v) /\ In(p, "tgt")' = In(p, "tgt") /\ In(p, "cwd")' = In(p, "cwd")
    BY <1>8, <1>10, InAfter DEF LocalVar
  <1>12. \A u \in LocalVar : In(p, u)' = 0 \/ AtHand(p, In(p, u)')
    BY <1>11, StillAtHand DEF LocalVar
  <1>13. Eff(th'[p]) = w /\ w \in Elsewhere \ Owing
    BY <1>6 DEF Eff, Elsewhere, Where, Looking, Making, Owing
  <1>14. LocksKept(p)
    <2>1. \A x \in Slot : itable[x].lock = p => x = s
      BY <1>1, <1>2 DEF TInv, Locking, KeepsLocked, Keeping, HasDp
    <2> QED
      BY <1>7, <2>1, Sizes DEF LocksKept, Like
  <1>15. Kept(p) /\ OthersWait(p) /\ FilesKept
    BY <1>5 DEF Kept, OthersWait, FilesKept, disk, files
  <1> QED
    BY <1>2, <1>6, <1>8, <1>11, <1>12, <1>13, <1>14, <1>15, RestStep DEF Owing

\* iunlockput() of the inode in ip.
LEMMA DropIpTree ==
  ASSUME IInv, TInv, NEW p \in Proc, DropIp(p)
  PROVE  TInv'
  <1>1. PICK a \in {"dropip", "dropdp"}, w \in {"endop", "linkbad"} : a = "dropip" /\ w = "endop"
    OBVIOUS
  <1>2. PICK s : s = th[p].ip
    OBVIOUS
  <1> QED
    BY <1>1, <1>2, DropTree DEF DropIp

\* iunlockput() of the inode in dp.
LEMMA DropDpTree ==
  ASSUME IInv, TInv, NEW p \in Proc, DropDp(p)
  PROVE  TInv'
  <1>1. th[p].fail \in {"endop", "linkbad"}
    <2>1. th[p].at = "dropdp" /\ th[p].at \notin Putting
      BY DEF DropDp, At, Putting
    <2> QED
      BY <2>1, Standing DEF Continues, Failing
  <1>2. PICK a \in {"dropip", "dropdp"}, w \in {"endop", "linkbad"} : a = "dropdp" /\ w = th[p].fail
    BY <1>1
  <1>3. PICK s : s = th[p].dp
    OBVIOUS
  <1> QED
    BY <1>2, <1>3, DropTree DEF DropDp
-----------------------------------------------------------------------------
(* sys_chdir(), and back to user space *)

\* The current directory changes.
LEMMA ChdirDirTree ==
  ASSUME IInv, TInv, NEW p \in Proc, Locks(p, "chdirip"), IsDir(In(p, "ip")), itable' = Unlock(Ilock(p, th[p].ip), th[p].ip),
         cwd' = [cwd EXCEPT ![p] = th[p].ip], PutThen(p, <<cwd[p]>>, "endop", [ip |-> 0]),
         UNCHANGED <<disk, ftable, ofile, ncalls, lost>>
  PROVE  TInv'
  <1>1. PICK s, c : s = th[p].ip /\ c = cwd[p]
    OBVIOUS
  <1>2. /\ th[p].at = "chdirip" /\ th[p].puts = <<>> /\ Eff(th[p]) = "chdirip" /\ CanLock(s) /\ s \in Slot /\ itable[s].ref > 0
        /\ \A x \in Slot : KeepsLocked(th[p], x) => "chdirip" \in HasDp
        /\ \A x \in Slot : itable[x].lock = p => KeepsLocked(th[p], x)
        /\ In(p, "ip") \in Inum /\ AtHand(p, In(p, "ip")) /\ Stands(p) /\ 0 \notin Slot /\ Ref(p, "ip") = s
    BY <1>1, Here DEF Looking
  <1>3. PICK r : r = [ip |-> 0] \oplus [at |-> "iput", puts |-> <<c>>, then |-> "endop"]
    OBVIOUS
  <1>4. th'[p] = r \oplus th[p] /\ (\A q \in Proc \ {p} : th'[q] = th[q]) /\ th[p] = [f \in Fields |-> th[p][f]]
    BY <1>1, <1>3, Goes DEF IInv, PutThen
  <1>5. th'[p].at = "iput" /\ th'[p].puts = <<c>> /\ th'[p].then = "endop" /\ th'[p].ip = 0 /\ th'[p].dp = th[p].dp /\ th'[p].tgt = th[p].tgt
    BY <1>2, <1>3, <1>4 DEF \oplus, Fields
  <1>6. cwd'[p] = s /\ \A q \in Proc \ {p} : cwd'[q] = cwd[q]
    BY <1>1 DEF IInv, TypeOK
  <1>7. /\ \A x \in Slot : itable'[x].inum = itable[x].inum
        /\ \A x \in Slot \ {s} : itable'[x] = itable[x]
        /\ itable'[s].lock = None
    BY <1>1, <1>2, Peeked
  <1>8. InumsKept
    BY <1>7 DEF InumsKept
  <1>9. /\ Ref(p, "ip")' = 0 /\ Ref(p, "put1")' = Ref(p, "cwd") /\ Ref(p, "put2")' = 0
        /\ Ref(p, "dp")' = Ref(p, "dp") /\ Ref(p, "tgt")' = Ref(p, "tgt") /\ Ref(p, "cwd")' = Ref(p, "ip")
    BY <1>1, <1>2, <1>5, <1>6 DEF Ref, Held1, At
  <1>10. /\ In(p, "ip")' = 0 /\ In(p, "put1")' = In(p, "cwd") /\ In(p, "put2")' = 0
         /\ In(p, "dp")' = In(p, "dp") /\ In(p, "tgt")' = In(p, "tgt") /\ In(p, "cwd")' = In(p, "ip")
    BY <1>8, <1>9, InAfter DEF LocalVar
  <1>11. \A v \in LocalVar : In(p, v)' = 0 \/ AtHand(p, In(p, v)')
    BY <1>10, StillAtHand DEF LocalVar
  <1>12. Folder(In(p, "ip"))
    BY <1>2 DEF Folder, Stands, Seeks, Looking
  <1>13. Eff(th'[p]) = "endop" /\ "endop" \in Elsewhere \ Owing
    BY <1>5 DEF Eff, Elsewhere, Where, Looking, Making, Owing
  <1>14. LocksKept(p)
    BY <1>2, <1>7, Sizes DEF LocksKept, HasDp
  <1>15. Kept(p) /\ OthersWait(p) /\ FilesKept
    BY <1>4, <1>6 DEF Kept, OthersWait, FilesKept, disk
  <1> QED
    BY <1>2, <1>5, <1>8, <1>10, <1>11, <1>12, <1>13, <1>14, <1>15, RestStep DEF Owing

\* sys_chdir().
LEMMA ChdirIpTree ==
  ASSUME IInv, TInv, NEW p \in Proc, ChdirIp(p)
  PROVE  TInv'
  <1>1. PICK s, d : s = th[p].ip /\ d = IsDir(In(p, "ip"))
    OBVIOUS
  <1>2. UNCHANGED <<disk, ftable, ofile, ncalls, lost>> /\ Locks(p, "chdirip")
    BY DEF ChdirIp
  <1>3. th[p].at = "chdirip" /\ th[p].puts = <<>> /\ CanLock(s) /\ s \in Slot /\ Loaded(s) = dinode[In(p, "ip")]
    BY <1>1, <1>2, Here DEF Looking
  <1>4. /\ itable' = Unlock(Ilock(p, s), s) /\ cwd' = (IF d THEN [cwd EXCEPT ![p] = s] ELSE cwd)
        /\ PutThen(p, <<IF d THEN cwd[p] ELSE s>>, "endop", [ip |-> 0])
    <2>1. d = (Loaded(s).type = "dir")
      BY <1>1, <1>3 DEF IsDir
    <2> QED
      BY <1>1, <2>1 DEF ChdirIp
  <1>5. CASE d
    BY <1>1, <1>2, <1>4, <1>5, ChdirDirTree
  <1>6. CASE ~d
    <2>1. GiveUp(p, s, "endop") /\ UNCHANGED <<disk, files, ncalls, lost>>
      BY <1>2, <1>4, <1>6 DEF GiveUp, files
    <2> QED
      BY <1>1, <1>3, <2>1, GiveUpTree DEF Looking, HasDp
  <1> QED
    BY <1>5, <1>6

\* Back in user space, or in exit().
LEMMA DoneTree ==
  ASSUME IInv, TInv, NEW p \in Proc, Go(p, EndOp(p)), cwd' = cwd, Kept(p), InumsKept, In(p, "tgt") = 0, Eff(th[p]) \notin Owing,
         FilesKept \/ \A f \in File : ftable'[f].ref > 0 =>
           \/ ftable[f].ref > 0 /\ ftable'[f].ip = ftable[f].ip
           \/ AtHand(p, Ino(ftable[f].ip)'),
         \A s \in Slot : itable'[s].lock \in {itable[s].lock, None} \ {p}
  PROVE  TInv'
  <1>1. /\ \A q \in Proc \ {p} : th'[q] = th[q]
        /\ th'[p].at \in {"idle", "exit"} /\ Eff(th'[p]) = th'[p].at
        /\ \A u \in LocalVar \ {"cwd"} : Held1(p, u)' = 0
    BY EndOpFacts
  <1>2. /\ Ref(p, "cwd")' = Ref(p, "cwd") /\ Ref(p, "ip")' = 0 /\ Ref(p, "dp")' = 0 /\ Ref(p, "tgt")' = 0
        /\ Ref(p, "put1")' = 0 /\ Ref(p, "put2")' = 0
    <2>1. Ref(p, "cwd")' = Ref(p, "cwd")
      BY DEF Ref, Held1
    <2> QED
      BY <1>1, <2>1 DEF Ref, LocalVar
  <1>3. /\ In(p, "cwd")' = In(p, "cwd") /\ In(p, "ip")' = 0 /\ In(p, "dp")' = 0 /\ In(p, "tgt")' = 0
        /\ In(p, "put1")' = 0 /\ In(p, "put2")' = 0
    BY <1>2, InAfter DEF LocalVar
  <1>4. \A v \in LocalVar : In(p, v)' = 0 \/ AtHand(p, In(p, v)')
    BY <1>3, StillAtHand DEF LocalVar
  <1>5. OthersWait(p) /\ LocksKept(p)
    BY <1>1 DEF OthersWait, LocksKept
  <1>6. Homes(p)'
    BY <1>3, <1>4, HomesKept
  <1>7. OwesAsMuch(p)
    <2>1. In(p, "tgt")' = In(p, "tgt") /\ Eff(th'[p]) \notin Owing
      BY <1>1, <1>3 DEF Owing
    <2> QED
      BY <2>1 DEF OwesAsMuch, Owes
  <1>8. Seeks(p)' /\ Unlinks(p)' /\ Makes(p)' /\ Eff(th'[p]) \notin Making
    BY <1>1 DEF Seeks, Unlinks, Makes, Looking, Making
  <1> QED
    BY <1>1, <1>4, <1>5, <1>6, <1>7, <1>8, EasyStep

\* The inode of an open file is at hand.
LEMMA FileAtHand ==
  ASSUME IInv, TInv, NEW p \in Proc, NEW f \in File, ftable[f].ref > 0
  PROVE  ftable[f].ip \in Slot /\ Ino(ftable[f].ip) \in Inum /\ AtHand(p, Ino(ftable[f].ip))
  <1>1. ftable[f].ip \in Slot
    <2>1. ftable[f].ip # 0 /\ ftable[f].ip \in 0 .. NINODE
      BY DEF IInv, FileInv, TypeOK, OpenFileEntry
    <2> QED
      BY <2>1, Sizes DEF Slot
  <1>2. f \in OpenOn(ftable[f].ip) /\ Ino(ftable[f].ip) \in Inum
    BY <1>1, InUse DEF OpenOn, Ino
  <1>3. dinode[Ino(ftable[f].ip)].type # "none"
    BY <1>1, <1>2 DEF IInv, InUseIsAllocated, Ino
  <1>4. Unclaimed(p, Ino(ftable[f].ip))
    BY <1>2 DEF TInv, Exclusive, Alone, Unclaimed
  <1> QED
    BY <1>1, <1>2, <1>3, <1>4 DEF AtHand

\* The inode that write() or open() has locked is that of an open file.
LEMMA UserFile ==
  ASSUME IInv, TInv, NEW p \in Proc, th[p].at \in {"writei", "opentrunc"}
  PROVE  AtHand(p, Ino(th[p].ip))
  <1>1. PICK fd \in Fd : ofile[p][fd] # 0 /\ ftable[ofile[p][fd]].ip = th[p].ip
    BY DEF IInv, UserInv
  <1>2. PICK f \in File : f = ofile[p][fd]
    BY <1>1, Sizes DEF IInv, TypeOK, File
  <1>3. ftable[f].ref > 0
    BY <1>1, <1>2, OpenFd DEF IInv
  <1> QED
    BY <1>1, <1>2, <1>3, FileAtHand

\* iupdate() of an inode with other blocks and nothing else.
LEMMA OtherBlocks ==
  ASSUME IInv, NEW p \in Proc, NEW t \in Table, NEW s \in Slot, \A x \in Slot : t[x].inum = itable[x].inum, NEW d,
         Unclaimed(p, itable[s].inum), Iupdate(t, s, d), d.type = dinode[itable[s].inum].type, d.nlink = dinode[itable[s].inum].nlink, UNCHANGED <<dir, lost>>
  PROVE  Kept(p) /\ InumsKept /\ \A x \in Slot : itable'[x].lock = t[x].lock
  <1>1. TypeOK /\ itable[s].inum \in Inum
    BY InUse, FileSystemAssumption DEF IInv
  <1>2. \A x \in Slot : itable'[x].inum = t[x].inum /\ itable'[x].lock = t[x].lock
    BY DEF Iupdate, Table, Entry
  <1>3. dinode' = [dinode EXCEPT ![itable[s].inum] = d] /\ DOMAIN dinode = Inum
    BY <1>1 DEF Iupdate, TypeOK
  <1> QED
    BY <1>2, <1>3 DEF Kept, InumsKept

\* A block of a file is written.
LEMMA WriteITree ==
  ASSUME IInv, TInv, NEW p \in Proc, WriteI(p)
  PROVE  TInv'
  <1>1. PICK s, t : s = th[p].ip /\ t = Unlock(Ilock(p, s), s)
    OBVIOUS
  <1>2. PICK d : /\ Iupdate(t, s, d) /\ d.type = Loaded(s).type /\ d.nlink = Loaded(s).nlink
    <2>1. PICK new : Iupdate(t, s, WithBlocks(Loaded(s), new))
      BY <1>1 DEF WriteI
    <2>2. PICK d : d = WithBlocks(Loaded(s), new)
      OBVIOUS
    <2>3. Loaded(s) \in Inode
      <3>1. th[p].at = "writei" /\ th[p].at \notin Putting
        BY DEF WriteI, Locks, At, Putting
      <3>2. s \in Slot /\ itable[s].ref > 0
        BY <1>1, <3>1, Standing, InUse DEF HasIp
      <3> QED
        BY <1>1, <3>2, Entered DEF WriteI, Locks
    <2>4. d.type = Loaded(s).type /\ d.nlink = Loaded(s).nlink
      BY <2>2, <2>3 DEF WithBlocks, Inode
    <2> QED
      BY <2>1, <2>2, <2>4
  <1>3. th[p].at = "writei" /\ th[p].at \notin Putting /\ CanLock(s) /\ Go(p, EndOp(p)) /\ UNCHANGED <<dir, files, ncalls, lost>>
    BY <1>1 DEF WriteI, Locks, At, Putting
  <1>4. /\ s \in Slot /\ itable[s].ref > 0 /\ 0 \notin Slot /\ th[p].fail # "linkbad" /\ th[p].tgt = 0 /\ Eff(th[p]) = "writei"
        /\ \A x \in Slot : ~KeepsLocked(th[p], x) /\ ~Frees(th[p], x)
    BY <1>1, <1>3, Standing, InUse, Sizes DEF HasIp, HasDp, Slot, Continues, Linking, KeepsLocked, Keeping
  <1>5. /\ t \in Table /\ \A x \in Slot : t[x].inum = itable[x].inum
        /\ \A x \in Slot \ {s} : t[x] = itable[x]
        /\ t[s].lock = None /\ Loaded(s) = dinode[itable[s].inum]
    BY <1>1, <1>3, <1>4, Peeked
  <1>6. Kept(p) /\ InumsKept /\ \A x \in Slot : itable'[x].lock = t[x].lock
    <2>1. Unclaimed(p, itable[s].inum)
      BY <1>1, <1>3, UserFile DEF AtHand, Ino
    <2> QED
      BY <1>2, <1>3, <1>4, <1>5, <2>1, OtherBlocks
  <1>7. \A x \in Slot : itable[x].lock # p
    BY <1>4 DEF TInv, Locking
  <1>8. In(p, "tgt") = 0 /\ FilesKept /\ cwd' = cwd
    BY <1>3, <1>4 DEF In, Ref, Held1, FilesKept, files
  <1> QED
    BY <1>3, <1>4, <1>5, <1>6, <1>7, <1>8, Sizes, DoneTree DEF Owing

\* What open() keeps locked.
LEMMA Opening1 ==
  ASSUME IInv, TInv, NEW p \in Proc, NEW a \in {"openfile", "opentrunc"}, At(p, a)
  PROVE  /\ th[p].at = a /\ th[p].puts = <<>> /\ Eff(th[p]) = a /\ th[p].fail # "linkbad" /\ th[p].tgt = 0 /\ th[p].dp = 0
         /\ th[p].ip \in Slot /\ itable[th[p].ip].ref > 0 /\ itable[th[p].ip].lock = p /\ itable[th[p].ip].valid
         /\ itable[th[p].ip].d = dinode[itable[th[p].ip].inum] /\ 0 \notin Slot
         /\ \A x \in Slot : itable[x].lock = p => x = th[p].ip
  <1>1. th[p].at = a /\ th[p].at \notin Putting
    BY DEF At, Putting
  <1>2. /\ th[p].puts = <<>> /\ Eff(th[p]) = a /\ th[p].fail # "linkbad" /\ th[p].tgt = 0 /\ th[p].dp = 0
        /\ th[p].ip \in Slot /\ itable[th[p].ip].ref > 0 /\ \A x \in Slot : ~Frees(th[p], x)
    BY <1>1, Standing, InUse DEF HasIp, HasDp, Continues, Linking
  <1>3. KeepsLocked(th[p], th[p].ip) /\ \A x \in Slot : KeepsLocked(th[p], x) => x = th[p].ip
    BY <1>2 DEF KeepsLocked, Keeping, HasDp
  <1>4. itable[th[p].ip].lock = p /\ itable[th[p].ip].valid
    BY <1>2, <1>3 DEF IInv, LockInv
  <1>5. \A x \in Slot : itable[x].lock = p => x = th[p].ip
    BY <1>2, <1>3 DEF TInv, Locking
  <1> QED
    BY <1>1, <1>2, <1>4, <1>5, Sizes DEF IInv, CacheInv, Slot

\* open() gives the blocks of the file back.
LEMMA OpenTruncTree ==
  ASSUME IInv, TInv, NEW p \in Proc, OpenTrunc(p)
  PROVE  TInv'
  <1>1. PICK s, t, d : s = th[p].ip /\ t = Unlock(itable, s) /\ d = [t[s].d EXCEPT !.addrs = {}]
    OBVIOUS
  <1>2. PICK a \in {"openfile", "opentrunc"} : At(p, a) /\ a = "opentrunc"
    BY DEF OpenTrunc
  <1>3. /\ th[p].at = a /\ Eff(th[p]) = a /\ th[p].tgt = 0 /\ s \in Slot /\ itable[s].ref > 0 /\ itable[s].lock = p
        /\ itable[s].d = dinode[itable[s].inum] /\ \A x \in Slot : itable[x].lock = p => x = s
    BY <1>1, <1>2, Opening1
  <1>4. Iupdate(t, s, d) /\ Go(p, EndOp(p)) /\ UNCHANGED <<dir, files, ncalls, lost>>
    BY <1>1 DEF OpenTrunc, Trunc
  <1>5. Like(t, s) /\ t[s].lock = None /\ t[s].d = itable[s].d
    BY <1>1, <1>3, LetGo
  <1>6. d.type = dinode[itable[s].inum].type /\ d.nlink = dinode[itable[s].inum].nlink
    <2>1. t[s].d \in Inode
      BY <1>3, <1>5 DEF IInv, TypeOK, Entry
    <2> QED
      BY <1>1, <1>3, <1>5, <2>1 DEF Inode
  <1>7. Kept(p) /\ InumsKept /\ \A x \in Slot : itable'[x].lock = t[x].lock
    <2>1. Unclaimed(p, itable[s].inum)
      BY <1>1, <1>2, <1>3, UserFile DEF AtHand, Ino
    <2> QED
      BY <1>3, <1>4, <1>5, <1>6, <2>1, OtherBlocks DEF Like
  <1>8. In(p, "tgt") = 0 /\ FilesKept /\ cwd' = cwd
    BY <1>3, <1>4 DEF In, Ref, Held1, FilesKept, files
  <1> QED
    BY <1>2, <1>3, <1>4, <1>5, <1>7, <1>8, Sizes, DoneTree DEF Owing, Like

\* The least of a set of numbers is one of them.
LEMMA FreeFile ==
  ASSUME FreeFiles # {}
  PROVE  Least(FreeFiles) \in File /\ ftable[Least(FreeFiles)].ref = 0
  <1>1. FreeFiles \in SUBSET Nat
    BY Sizes DEF FreeFiles, File
  <1>2. Least(FreeFiles) \in FreeFiles
    BY <1>1, LeastNatural
  <1> QED
    BY <1>2 DEF FreeFiles

\* open() takes a file and a descriptor.
LEMMA OpenFileTree ==
  ASSUME IInv, TInv, NEW p \in Proc, OpenFile(p)
  PROVE  TInv'
  <1>1. PICK s, f, trunc, full : /\ s = th[p].ip /\ f = Least(FreeFiles) /\ full = (FreeFiles = {} \/ FreeFds(p) = {})
                                 /\ trunc = (th[p].call.trunc /\ itable[s].d.type = "file")
    OBVIOUS
  <1>2. PICK a \in {"openfile", "opentrunc"} : At(p, a) /\ a = "openfile"
    BY DEF OpenFile
  <1>3. /\ th[p].at = a /\ th[p].puts = <<>> /\ Eff(th[p]) = a /\ th[p].tgt = 0 /\ th[p].dp = 0 /\ s \in Slot /\ itable[s].ref > 0
        /\ itable[s].lock = p /\ 0 \notin Slot /\ \A x \in Slot : itable[x].lock = p => x = s
    BY <1>1, <1>2, Opening1
  <1>4. ASSUME full, Go(p, [at |-> "dropip"]), UNCHANGED <<itable, files>>
        PROVE  TInv'
    <2>1. PICK w \in {"dropip", "dropdp"} : w = "dropip"
      OBVIOUS
    <2> QED
      BY <1>2, <1>4, <2>1, FullTree DEF OpenFile
  <1>5. ASSUME ~full, NEW b, ftable' = [ftable EXCEPT ![f] = [ref |-> 1, ip |-> s, writable |-> b]],
               itable' = (IF trunc THEN itable ELSE Unlock(itable, s)),
               Go(p, IF trunc THEN [at |-> "opentrunc"] ELSE EndOp(p)), UNCHANGED cwd
        PROVE  TInv'
    <2>1. f \in File /\ ftable[f].ref = 0
      BY <1>1, <1>5, FreeFile
    <2>2. /\ InumsKept /\ itable'[s].inum = itable[s].inum
          /\ ~trunc => \A x \in Slot : itable'[x].lock \in {itable[x].lock, None} \ {p}
      <3>1. CASE trunc
        BY <1>5, <3>1 DEF InumsKept
      <3>2. CASE ~trunc
        <4>1. Like(itable', s) /\ itable'[s].lock = None
          BY <1>3, <1>5, <3>2, LetGo
        <4> QED
          BY <1>3, <4>1, Sizes DEF InumsKept, Like
      <3> QED
        BY <3>1, <3>2
    <2>3. In(p, "ip") = itable[s].inum /\ AtHand(p, itable[s].inum)
      <3>1. In(p, "ip") = itable[s].inum /\ In(p, "ip") # 0
        BY <1>1, <1>2, <1>3, Stood, Sizes DEF HasIp, Ino, Inum
      <3> QED
        BY <3>1, HadAtHand DEF LocalVar
    <2>4. \A g \in File : ftable'[g].ref > 0 =>
            \/ ftable[g].ref > 0 /\ ftable'[g].ip = ftable[g].ip
            \/ AtHand(p, Ino(ftable[g].ip)')
      <3> TAKE g \in File
      <3>1. CASE g = f
        <4>1. ftable'[g].ip = s
          BY <1>5, <2>1, <3>1 DEF IInv, TypeOK
        <4> QED
          BY <2>2, <2>3, <4>1 DEF Ino
      <3>2. CASE g # f
        BY <1>5, <3>2 DEF IInv, TypeOK
      <3> QED
        BY <3>1, <3>2
    <2>5. Kept(p) /\ In(p, "tgt") = 0
      BY <1>3 DEF OpenFile, Kept, disk, In, Ref, Held1
    <2>6. CASE ~trunc
      BY <1>2, <1>3, <1>5, <2>2, <2>4, <2>5, <2>6, DoneTree DEF Owing
    <2>7. CASE trunc
      <3>1. PICK r : r = [at |-> "opentrunc"]
        OBVIOUS
      <3>2. th'[p] = r \oplus th[p] /\ (\A q \in Proc \ {p} : th'[q] = th[q]) /\ th[p] = [g \in Fields |-> th[p][g]]
        BY <1>5, <2>7, <3>1, Goes DEF IInv
      <3>3. th'[p].at = "opentrunc" /\ th'[p].puts = <<>> /\ th'[p].ip = s /\ th'[p].dp = 0 /\ th'[p].tgt = 0
        BY <1>1, <1>3, <3>1, <3>2 DEF \oplus, Fields
      <3>4. /\ Ref(p, "cwd")' = Ref(p, "cwd") /\ Ref(p, "ip")' = 0 /\ Ref(p, "dp")' = 0 /\ Ref(p, "tgt")' = 0
            /\ Ref(p, "put1")' = 0 /\ Ref(p, "put2")' = 0
        BY <1>5, <3>3 DEF Ref, Held1, At
      <3>5. /\ In(p, "cwd")' = In(p, "cwd") /\ In(p, "ip")' = 0 /\ In(p, "dp")' = 0 /\ In(p, "tgt")' = 0
            /\ In(p, "put1")' = 0 /\ In(p, "put2")' = 0
        BY <2>2, <3>4, InAfter DEF LocalVar
      <3>6. \A v \in LocalVar : In(p, v)' = 0 \/ AtHand(p, In(p, v)')
        BY <3>5, StillAtHand DEF LocalVar
      <3>7. Eff(th'[p]) = "opentrunc"
        BY <3>3 DEF Eff
      <3>8. OthersWait(p) /\ LocksKept(p)
        <4>1. KeepsLocked(th'[p], s)
          BY <3>3, <3>7 DEF KeepsLocked, Keeping
        <4> QED
          BY <1>3, <1>5, <2>7, <3>2, <4>1 DEF OthersWait, LocksKept
      <3>9. Homes(p)'
        BY <2>5, <3>5, <3>6, HomesKept
      <3>10. OwesAsMuch(p)
        BY <1>2, <1>3, <2>5, <3>5, <3>7 DEF OwesAsMuch, Owes, Owing
      <3>11. Seeks(p)' /\ Unlinks(p)' /\ Makes(p)' /\ Eff(th'[p]) \notin Making
        BY <3>7 DEF Seeks, Unlinks, Makes, Looking, Making
      <3> QED
        BY <2>2, <2>4, <2>5, <3>3, <3>6, <3>8, <3>9, <3>10, <3>11, EasyStep
    <2> QED
      BY <2>6, <2>7
  <1>6. \/ full /\ Go(p, [at |-> "dropip"]) /\ UNCHANGED <<itable, files>>
        \/ /\ ~full
           /\ \E b : ftable' = [ftable EXCEPT ![f] = [ref |-> 1, ip |-> s, writable |-> b]]
           /\ itable' = (IF trunc THEN itable ELSE Unlock(itable, s))
           /\ Go(p, IF trunc THEN [at |-> "opentrunc"] ELSE EndOp(p)) /\ UNCHANGED cwd
    BY <1>1 DEF OpenFile
  <1> QED
    BY <1>4, <1>5, <1>6
-----------------------------------------------------------------------------
(* close(), dup(), fork() and exit() *)

\* A process in user space, or in exit(), has its directory and nothing locked.
LEMMA InUser ==
  ASSUME IInv, TInv, NEW p \in Proc, NEW a \in {"idle", "exit"}, At(p, a)
  PROVE  /\ th[p].at = a /\ th[p].puts = <<>> /\ Eff(th[p]) = a /\ th[p].ip = 0 /\ th[p].dp = 0 /\ th[p].tgt = 0 /\ 0 \notin Slot
         /\ \A x \in Slot : itable[x].lock # p
         /\ \A i : ~Claims(p, i)
  <1>1. th[p].at = a /\ th[p].at \notin Putting
    BY DEF At, Putting
  <1>2. /\ th[p].puts = <<>> /\ Eff(th[p]) = a /\ th[p].ip = 0 /\ th[p].dp = 0 /\ th[p].tgt = 0
        /\ \A x \in Slot : ~Frees(th[p], x) /\ ~KeepsLocked(th[p], x)
    BY <1>1, Standing DEF HasIp, HasDp, Continues, Linking, KeepsLocked, Keeping
  <1>3. \A x \in Slot : itable[x].lock # p
    BY <1>2 DEF TInv, Locking
  <1>4. \A i : ~Claims(p, i)
    BY <1>1, <1>2 DEF Claims, Making, Freeing
  <1> QED
    BY <1>1, <1>2, <1>3, <1>4, Sizes DEF Slot

\* fileclose(), from close() and from exit().
LEMMA FilecloseTree ==
  ASSUME IInv, TInv, NEW p \in Proc, NEW a \in {"idle", "exit"}, At(p, a), NEW d \in Fd, NEW op \in {"close", "exit"}, Fileclose(p, d, op)
  PROVE  TInv'
  <1>1. PICK f, last, s : f = ofile[p][d] /\ last = (ftable[f].ref = 1) /\ s = ftable[f].ip
    OBVIOUS
  <1>2. f \in File /\ ftable[f].ref > 0
    BY <1>1, OpenFd DEF Fileclose, IInv
  <1>3. /\ th[p].at = a /\ th[p].puts = <<>> /\ Eff(th[p]) = a /\ th[p].ip = 0 /\ th[p].dp = 0 /\ th[p].tgt = 0 /\ 0 \notin Slot
        /\ \A x \in Slot : itable[x].lock # p
    BY InUser
  <1>4. UNCHANGED <<disk, itable, cwd, ncalls, lost>>
    BY DEF Fileclose
  <1>5. /\ ftable' = [ftable EXCEPT ![f] = IF last THEN NoFile ELSE [@ EXCEPT !.ref = ftable[f].ref - 1]]
        /\ IF last THEN PutThen(p, <<s>>, "endop", [call |-> [op |-> op]])
           ELSE Go(p, [at |-> IF op = "exit" THEN "exit" ELSE "idle"])
    BY <1>1 DEF Fileclose
  <1>6. FilesKept
    <2> SUFFICES ASSUME NEW g \in File, ftable'[g].ref > 0
                 PROVE  ftable[g].ref > 0 /\ ftable'[g].ip = ftable[g].ip
      BY DEF FilesKept
    <2>1. ftable \in [File -> OpenFileEntry]
      BY DEF IInv, TypeOK
    <2>2. CASE g # f
      BY <1>5, <2>1, <2>2
    <2>3. CASE g = f
      <3>1. ~last
        BY <1>2, <1>5, <2>1, <2>3 DEF NoFile
      <3> QED
        BY <1>2, <1>5, <2>1, <2>3, <3>1 DEF OpenFileEntry
    <2> QED
      BY <2>2, <2>3
  <1>7. CASE last
    <2>1. PICK r : r = [call |-> [op |-> op]] \oplus [at |-> "iput", puts |-> <<s>>, then |-> "endop"]
      OBVIOUS
    <2>2. th'[p] = r \oplus th[p] /\ (\A q \in Proc \ {p} : th'[q] = th[q]) /\ th[p] = [g \in Fields |-> th[p][g]]
      BY <1>5, <1>7, <2>1, Goes DEF IInv, PutThen
    <2>3. th'[p].at = "iput" /\ th'[p].puts = <<s>> /\ th'[p].then = "endop" /\ th'[p].ip = 0 /\ th'[p].dp = 0 /\ th'[p].tgt = 0
      BY <1>3, <2>1, <2>2 DEF \oplus, Fields
    <2>4. InumsKept
      BY <1>4 DEF InumsKept
    <2>5. s \in Slot /\ Ino(s) \in Inum /\ AtHand(p, Ino(s))
      BY <1>1, <1>2, FileAtHand
    <2>6. /\ Ref(p, "cwd")' = Ref(p, "cwd") /\ Ref(p, "ip")' = 0 /\ Ref(p, "dp")' = 0 /\ Ref(p, "tgt")' = 0
          /\ Ref(p, "put1")' = s /\ Ref(p, "put2")' = 0
      BY <1>4, <2>3 DEF Ref, Held1, At
    <2>7. /\ In(p, "cwd")' = In(p, "cwd") /\ In(p, "ip")' = 0 /\ In(p, "dp")' = 0 /\ In(p, "tgt")' = 0
          /\ In(p, "put1")' = Ino(s) /\ In(p, "put2")' = 0
      <3>1. "ip" \in LocalVar /\ "put1" \in LocalVar /\ "put2" \in LocalVar /\ "dp" \in LocalVar /\ "tgt" \in LocalVar /\ "cwd" \in LocalVar
        BY DEF LocalVar
      <3>2. itable'[s].inum = Ino(s) /\ s # 0
        BY <1>3, <1>4, <2>5 DEF Ino
      <3> QED
        BY <2>4, <2>6, <3>1, <3>2, InAfter
    <2>8. \A v \in LocalVar : In(p, v)' = 0 \/ AtHand(p, In(p, v)')
      BY <2>5, <2>7, HadAtHand DEF LocalVar
    <2>9. Eff(th'[p]) = "endop" /\ "endop" \in Elsewhere \ Owing
      BY <2>3 DEF Eff, Elsewhere, Where, Looking, Making, Owing
    <2>10. Kept(p) /\ OthersWait(p) /\ LocksKept(p)
      BY <1>3, <1>4, <2>2 DEF Kept, OthersWait, LocksKept, disk
    <2>11. In(p, "dp")' \in {0, In(p, "dp")} /\ In(p, "tgt")' = In(p, "tgt")
      BY <1>3, <2>7 DEF In, Ref, Held1
    <2> QED
      BY <1>3, <1>6, <2>3, <2>4, <2>7, <2>8, <2>9, <2>10, <2>11, RestStep DEF Owing
  <1>8. CASE ~last
    <2>1. PICK w \in {"idle", "exit"} : w = IF op = "exit" THEN "exit" ELSE "idle"
      OBVIOUS
    <2>2. PICK r : r = [at |-> w]
      OBVIOUS
    <2>3. th'[p] = r \oplus th[p] /\ (\A q \in Proc \ {p} : th'[q] = th[q]) /\ th[p] = [g \in Fields |-> th[p][g]]
      BY <1>5, <1>8, <2>1, <2>2, Goes DEF IInv
    <2>4. th'[p].at = w /\ th'[p].puts = <<>> /\ th'[p].ip = 0 /\ th'[p].dp = 0 /\ th'[p].tgt = 0
      BY <1>3, <2>2, <2>3 DEF \oplus, Fields
    <2>5. \A v \in LocalVar : Ref(p, v)' = Ref(p, v)
      BY <1>3, <1>4, <2>4 DEF Ref, Held1, At, LocalVar
    <2>6. Eff(th'[p]) = w /\ Eff(th'[p]) \in Elsewhere \ Owing
      BY <2>4 DEF Eff, Elsewhere, Where, Looking, Making, Owing
    <2>7. \A x \in Slot : ~KeepsLocked(th[p], x) /\ ~Frees(th[p], x)
      BY <1>3 DEF KeepsLocked, Frees, Keeping, HasDp
    <2> QED
      BY <1>3, <1>4, <1>6, <2>3, <2>4, <2>5, <2>6, <2>7, MoveOnTree DEF Owing
  <1> QED
    BY <1>7, <1>8

\* close().
LEMMA CloseTree ==
  ASSUME IInv, TInv, NEW p \in Proc, NEW d \in Fd, Close(p, d)
  PROVE  TInv'
  <1>1. PICK a \in {"idle", "exit"}, op \in {"close", "exit"} : a = "idle" /\ op = "close"
    OBVIOUS
  <1> QED
    BY <1>1, FilecloseTree DEF Close, Idle

\* exit() closes a descriptor.
LEMMA ExitCloseTree ==
  ASSUME IInv, TInv, NEW p \in Proc, NEW d \in Fd, ExitClose(p, d)
  PROVE  TInv'
  <1>1. PICK a \in {"idle", "exit"}, op \in {"close", "exit"} : At(p, a) /\ op = "exit"
    BY DEF ExitClose, Exiting, Idle
  <1> QED
    BY <1>1, FilecloseTree DEF ExitClose

\* exit() drops the current directory.
LEMMA ExitCwdTree ==
  ASSUME IInv, TInv, NEW p \in Proc, ExitCwd(p)
  PROVE  TInv'
  <1>1. PICK a \in {"idle", "exit"} : At(p, a)
    BY DEF ExitCwd, Exiting, Idle
  <1>2. PICK c : c = cwd[p]
    OBVIOUS
  <1>3. /\ th[p].at = a /\ th[p].puts = <<>> /\ Eff(th[p]) = a /\ th[p].ip = 0 /\ th[p].dp = 0 /\ th[p].tgt = 0 /\ 0 \notin Slot
        /\ \A x \in Slot : itable[x].lock # p
    BY <1>1, InUser
  <1>4. UNCHANGED <<disk, itable, ftable, ofile, ncalls, lost>> /\ cwd' = [cwd EXCEPT ![p] = 0]
    BY DEF ExitCwd
  <1>5. PICK r : r = [call |-> NoCall] \oplus [at |-> "iput", puts |-> <<c>>, then |-> "endop"]
    OBVIOUS
  <1>6. th'[p] = r \oplus th[p] /\ (\A q \in Proc \ {p} : th'[q] = th[q]) /\ th[p] = [g \in Fields |-> th[p][g]]
    BY <1>2, <1>5, Goes DEF IInv, PutThen, ExitCwd
  <1>7. th'[p].at = "iput" /\ th'[p].puts = <<c>> /\ th'[p].then = "endop" /\ th'[p].ip = 0 /\ th'[p].dp = 0 /\ th'[p].tgt = 0
    BY <1>3, <1>5, <1>6 DEF \oplus, Fields
  <1>8. InumsKept
    BY <1>4 DEF InumsKept
  <1>9. cwd'[p] = 0 /\ \A q \in Proc \ {p} : cwd'[q] = cwd[q]
    BY <1>4 DEF IInv, TypeOK
  <1>10. /\ Ref(p, "cwd")' = 0 /\ Ref(p, "ip")' = 0 /\ Ref(p, "dp")' = 0 /\ Ref(p, "tgt")' = 0
         /\ Ref(p, "put1")' = Ref(p, "cwd") /\ Ref(p, "put2")' = 0
    BY <1>2, <1>7, <1>9 DEF Ref, Held1, At
  <1>11. /\ In(p, "cwd")' = 0 /\ In(p, "ip")' = 0 /\ In(p, "dp")' = 0 /\ In(p, "tgt")' = 0
         /\ In(p, "put1")' = In(p, "cwd") /\ In(p, "put2")' = 0
    BY <1>8, <1>10, InAfter DEF LocalVar
  <1>12. \A v \in LocalVar : In(p, v)' = 0 \/ AtHand(p, In(p, v)')
    BY <1>11, StillAtHand DEF LocalVar
  <1>13. Eff(th'[p]) = "endop" /\ "endop" \in Elsewhere \ Owing
    BY <1>7 DEF Eff, Elsewhere, Where, Looking, Making, Owing
  <1>14. Kept(p) /\ OthersWait(p) /\ LocksKept(p) /\ FilesKept
    BY <1>3, <1>4, <1>6, <1>9 DEF Kept, OthersWait, LocksKept, FilesKept, disk
  <1>15. In(p, "tgt")' = In(p, "tgt")
    BY <1>3, <1>11 DEF In, Ref, Held1
  <1> QED
    BY <1>3, <1>7, <1>8, <1>11, <1>12, <1>13, <1>14, <1>15, RestStep DEF Owing

\* dup().
LEMMA DupTree ==
  ASSUME IInv, TInv, NEW p \in Proc, NEW d \in Fd, Dup(p, d)
  PROVE  TInv'
  <1>0. PICK f : f = ofile[p][d]
    OBVIOUS
  <1>1. PICK a \in {"idle", "exit"} : f = ofile[p][d] /\ a = "idle" /\ At(p, a)
    BY <1>0 DEF Dup, Idle
  <1>2. f \in File /\ ftable[f].ref > 0
    BY <1>1, OpenFd DEF Dup, IInv
  <1>3. th[p].at = a /\ th[p].puts = <<>> /\ Eff(th[p]) = a
    BY <1>1, InUser
  <1>4. ftable' = [ftable EXCEPT ![f].ref = @ + 1] /\ UNCHANGED <<disk, itable, cwd, th, lost>>
    BY <1>1 DEF Dup
  <1>5. FilesKept
    BY <1>2, <1>4 DEF FilesKept, IInv, TypeOK, OpenFileEntry
  <1>6. \A v \in LocalVar : Ref(p, v)' = Ref(p, v)
    BY <1>4 DEF Ref, Held1, At, LocalVar
  <1>7. Eff(th[p]) \in Elsewhere \ Owing
    BY <1>1, <1>3 DEF Elsewhere, Where, Looking, Making, Owing
  <1>8. \A x \in Slot : ~KeepsLocked(th[p], x) /\ ~Frees(th[p], x)
    BY <1>3 DEF KeepsLocked, Frees, Keeping, HasDp
  <1> QED
    BY <1>3, <1>4, <1>5, <1>6, <1>7, <1>8, MoveOnTree

\* fork().
LEMMA ForkTree ==
  ASSUME IInv, TInv, NEW p \in Proc, NEW np \in Proc, Fork(p, np)
  PROVE  TInv'
  <1>0. PICK s : s = cwd[p]
    OBVIOUS
  <1>1. PICK a \in {"idle", "exit"} : s = cwd[p] /\ a = "idle" /\ At(p, a) /\ At(np, a)
    BY <1>0 DEF Fork, Idle
  <1>2. Idle(p) /\ cwd[p] # 0 /\ cwd[np] = 0 /\ UNCHANGED <<disk, th, lost>> /\ itable' = [itable EXCEPT ![s].ref = @ + 1]
        /\ cwd' = [cwd EXCEPT ![np] = s]
    BY <1>1 DEF Fork, Idle
  <1>3. /\ th[np].at = a /\ th[np].puts = <<>> /\ Eff(th[np]) = a /\ th[np].ip = 0 /\ th[np].dp = 0 /\ th[np].tgt = 0 /\ 0 \notin Slot
        /\ (\A x \in Slot : itable[x].lock # np) /\ \A i : ~Claims(p, i)
    BY <1>1, InUser
  <1>4. s \in Slot /\ itable[s].ref > 0
    BY <1>1, <1>2, InUse
  <1>5. Forked(p, np, s)
    BY <1>1 DEF Fork, Forked, Shared, Copies
  <1>6. /\ cwd'[np] = s /\ (\A q \in Proc \ {np} : cwd'[q] = cwd[q])
        /\ \A f \in File : ftable'[f].ip = ftable[f].ip /\ (ftable'[f].ref > 0 <=> ftable[f].ref > 0)
    <2>1. At(np, "idle") /\ s \in Slot /\ s = cwd[p]
      BY <1>1, <1>4
    <2> QED
      BY <1>2, <1>5, <2>1, ForkedFacts
  <1>7. InumsKept /\ \A x \in Slot : itable'[x].lock = itable[x].lock
    <2>1. RefTo(itable, itable', s, itable[s].ref + 1) /\ itable[s].ref + 1 \in Int
      BY <1>2, <1>4, InUse DEF RefTo
    <2>2. \A x \in Slot : itable'[x].inum = itable[x].inum /\ itable'[x].lock = itable[x].lock
      BY <1>4, <2>1, RefChanged
    <2> QED
      BY <2>2 DEF InumsKept
  <1>8. In(p, "cwd") = Ino(s) /\ In(p, "cwd") # 0 /\ Folder(In(p, "cwd"))
    <2>1. In(p, "cwd") = Ino(s) /\ Ino(s) \in Inum
      BY <1>1, <1>2, <1>4, InUse DEF In, Ref, Held1, Ino
    <2>2. In(p, "cwd") # 0
      BY <2>1, Sizes DEF Inum
    <2> QED
      BY <2>1, <2>2 DEF TInv, Stands, Homes
  <1>9. AtHand(np, In(p, "cwd"))
    <2>1. AtHand(p, In(p, "cwd"))
      BY <1>8, HadAtHand DEF LocalVar
    <2> QED
      BY <1>3, <2>1 DEF AtHand, Unclaimed
  <1>10. /\ Ref(np, "cwd")' = s /\ Ref(np, "ip")' = 0 /\ Ref(np, "dp")' = 0 /\ Ref(np, "tgt")' = 0
         /\ Ref(np, "put1")' = 0 /\ Ref(np, "put2")' = 0
    BY <1>2, <1>3, <1>6 DEF Ref, Held1, At
  <1>11. /\ In(np, "cwd")' = In(p, "cwd") /\ In(np, "ip")' = 0 /\ In(np, "dp")' = 0 /\ In(np, "tgt")' = 0
         /\ In(np, "put1")' = 0 /\ In(np, "put2")' = 0
    <2>1. "ip" \in LocalVar /\ "put1" \in LocalVar /\ "put2" \in LocalVar /\ "dp" \in LocalVar /\ "tgt" \in LocalVar /\ "cwd" \in LocalVar
      BY DEF LocalVar
    <2>2. itable'[s].inum = Ino(s) /\ s # 0
      BY <1>3, <1>4, <1>7 DEF InumsKept, Ino
    <2> QED
      BY <1>7, <1>8, <1>10, <2>1, <2>2, InAfter
  <1>12. \A v \in LocalVar : In(np, v)' = 0 \/ AtHand(np, In(np, v)')
    BY <1>9, <1>11 DEF LocalVar
  <1>13. Eff(th'[np]) \in Elsewhere \ Owing
    BY <1>1, <1>2, <1>3 DEF Elsewhere, Where, Looking, Making, Owing
  <1>14. Kept(np) /\ OthersWait(np) /\ LocksKept(np) /\ FilesKept
    BY <1>2, <1>3, <1>6, <1>7 DEF Kept, OthersWait, LocksKept, FilesKept, disk
  <1>15. In(np, "tgt")' = In(np, "tgt")
    BY <1>3, <1>11 DEF In, Ref, Held1
  <1> QED
    BY <1>2, <1>3, <1>7, <1>8, <1>11, <1>12, <1>13, <1>14, <1>15, RestStep DEF Owing
-----------------------------------------------------------------------------
(* iput() *)

\* A reference is dropped, and the path stays where it is.
LEMMA PutOnTree ==
  ASSUME IInv, TInv, NEW p \in Proc, Kept(p), InumsKept, OthersWait(p), cwd' = cwd, FilesKept,
         \A s \in Slot : itable'[s].lock = itable[s].lock, th[p].at \in {"iput", "idrop"},
         Eff(th[p]) \notin Making \cup {"writei", "opentrunc"}, Eff(th'[p]) = Eff(th[p]), th'[p].at \notin {"itrunc", "ifree"},
         th'[p].path = th[p].path, th'[p].call = th[p].call,
         th'[p].ip = th[p].ip, th'[p].dp = th[p].dp, th'[p].tgt = th[p].tgt,
         th'[p].at \notin {"writei", "opentrunc"}, Ref(p, "put1")' \in {0, Ref(p, "put2")}, Ref(p, "put2")' = 0
  PROVE  TInv'
  <1>1. Ref(p, "ip")' = Ref(p, "ip") /\ Ref(p, "dp")' = Ref(p, "dp") /\ Ref(p, "tgt")' = Ref(p, "tgt") /\ Ref(p, "cwd")' = Ref(p, "cwd")
    BY DEF Ref, Held1
  <1>2. /\ In(p, "ip")' = In(p, "ip") /\ In(p, "dp")' = In(p, "dp") /\ In(p, "tgt")' = In(p, "tgt") /\ In(p, "cwd")' = In(p, "cwd")
        /\ In(p, "put1")' \in {0, In(p, "put2")} /\ In(p, "put2")' = 0
    BY <1>1, InAfter DEF LocalVar
  <1>3. \A v \in LocalVar : In(p, v)' = 0 \/ AtHand(p, In(p, v)')
    BY <1>2, StillAtHand DEF LocalVar
  <1>4. Homes(p)'
    BY <1>2, <1>3, HomesKept
  <1>5. Homes(p) /\ Seeks(p) /\ Unlinks(p) /\ Makes(p)
    BY DEF TInv, Stands
  <1>6. 0 \notin Inum /\ (Eff(th[p]) \in Looking \cup {"unlinkdec"} => In(p, "ip") \in Inum)
        /\ (Eff(th[p]) \in {"unlinkip", "ialloc"} => In(p, "dp") \in Inum)
    BY Sizes, Stood DEF Inum, Looking, HasIp, HasDp
  <1>7. Seeks(p)'
    <2>1. Eff(th[p]) \in {"createdp", "unlinkdp", "linkdp"} => Eff(th[p]) \in Looking
      BY DEF Looking
    <2> QED
      BY <1>2, <1>5, <1>6, <2>1 DEF Seeks, IsDir, Dotted, Kept
  <1>8. Unlinks(p)'
    BY <1>2, <1>5, <1>6 DEF Unlinks, IsDir, IsDirEmpty, Kept, Looking
  <1>9. Makes(p)'
    BY <1>2, <1>5, <1>6 DEF Makes, Making, Kept
  <1>10. OwesAsMuch(p)
    BY <1>2 DEF OwesAsMuch, Owes
  <1>11. LocksKept(p)
    <2> SUFFICES ASSUME NEW s \in Slot, itable[s].lock = p
                 PROVE  KeepsLocked(th'[p], s)
      BY DEF LocksKept
    <2>1. KeepsLocked(th[p], s)
      BY DEF TInv, Locking, Frees
    <2> QED
      BY <2>1 DEF KeepsLocked
  <1> QED
    BY <1>3, <1>4, <1>7, <1>8, <1>9, <1>10, <1>11, EasyStep

\* What is left of a list of two.
LEMMA TailOfTwo ==
  ASSUME NEW q \in Seq(Slot), q # <<>>, Len(q) = 2
  PROVE  Len(Tail(q)) = 1 /\ Tail(q)[1] = q[2] /\ Tail(q) # <<>>
  <1>1. PICK l : l = Tail(q)
    OBVIOUS
  <1>2. l \in Seq(Slot) /\ Len(l) = Len(q) - 1 /\ \A i \in 1 .. Len(l) : l[i] = q[i + 1]
    BY <1>1, HeadTailProperties
  <1>3. PICK n : n = Len(l)
    OBVIOUS
  <1>4. n = 1
    BY <1>2, <1>3
  <1>5. \A i \in 1 .. n : l[i] = q[i + 1]
    BY <1>2, <1>3
  <1>6. l[1] = q[2]
    BY <1>4, <1>5
  <1>7. l # <<>>
    BY <1>2, <1>3, <1>4, EmptySeq
  <1> QED
    BY <1>1, <1>3, <1>4, <1>6, <1>7

\* A reference of the list is dropped.
LEMMA DropPutTree ==
  ASSUME IInv, TInv, NEW p \in Proc, th[p].at \in {"iput", "idrop"},
         itable' = [itable EXCEPT ![Head(th[p].puts)].ref = @ - 1], Go(p, Dropped(p)), UNCHANGED <<disk, files, ncalls, lost>>
  PROVE  TInv'
  <1>1. PICK s \in Slot : PuttingAt(p, s)
    BY PuttingFacts DEF Putting
  <1>2. /\ th[p].puts # <<>> /\ th[p].puts \in Seq(Slot) /\ Len(th[p].puts) \in {1, 2} /\ Head(th[p].puts) = s
        /\ itable[s].ref > 0 /\ Eff(th[p]) = th[p].then /\ th[p].then \in Where /\ th[p].then \notin {"writei", "opentrunc"}
    BY <1>1 DEF PuttingAt
  <1>3. /\ InumsKept /\ \A x \in Slot : itable'[x].lock = itable[x].lock
    <2>1. itable' = [itable EXCEPT ![s].ref = itable[s].ref - 1]
      <3>1. Head(th[p].puts) = s
        BY <1>2
      <3> QED
        BY <3>1
    <2>2. RefTo(itable, itable', s, itable[s].ref - 1)
      BY <2>1 DEF RefTo
    <2>3. itable[s].ref - 1 \in Int
      <3>1. itable[s].ref \in Nat
        BY InUse
      <3> QED
        BY <3>1
    <2>4. \A x \in Slot : itable'[x].inum = itable[x].inum /\ itable'[x].lock = itable[x].lock
      BY <1>2, <2>2, <2>3, RefChanged
    <2> QED
      BY <2>4 DEF InumsKept
  <1>4. Kept(p) /\ FilesKept /\ cwd' = cwd
    BY DEF Kept, FilesKept, disk, files
  <1>5. Eff(th[p]) \notin Making
    BY <1>2 DEF TInv, Stands, Makes
  <1>6. CASE Len(th[p].puts) > 1
    <2>1. PICK r : r = [at |-> "iput", puts |-> Tail(th[p].puts)]
      OBVIOUS
    <2>2. th'[p] = r \oplus th[p] /\ (\A q \in Proc \ {p} : th'[q] = th[q]) /\ th[p] = [g \in Fields |-> th[p][g]]
      BY <1>6, <2>1, Goes DEF IInv, Dropped
    <2>3. /\ th'[p].at = "iput" /\ th'[p].puts = Tail(th[p].puts) /\ th'[p].then = th[p].then /\ th'[p].ip = th[p].ip
          /\ th'[p].dp = th[p].dp /\ th'[p].tgt = th[p].tgt /\ th'[p].path = th[p].path /\ th'[p].call = th[p].call
      BY <2>1, <2>2 DEF \oplus, Fields
    <2>4. Len(th'[p].puts) = 1 /\ th'[p].puts[1] = th[p].puts[2] /\ th'[p].puts # <<>> /\ Len(th[p].puts) = 2
      <3>1. PICK q : q = th[p].puts
        OBVIOUS
      <3>2. q \in Seq(Slot) /\ q # <<>> /\ Len(q) = 2
        <4>1. PICK n : n = Len(th[p].puts)
          OBVIOUS
        <4>2. n \in {1, 2} /\ n > 1
          BY <1>2, <1>6, <4>1
        <4>3. n = 2
          BY <4>2
        <4> QED
          BY <1>2, <3>1, <4>1, <4>3
      <3>3. Len(Tail(q)) = 1 /\ Tail(q)[1] = q[2] /\ Tail(q) # <<>>
        BY <3>2, TailOfTwo
      <3> QED
        BY <2>3, <3>1, <3>2, <3>3
    <2>5. Ref(p, "put1")' = Ref(p, "put2") /\ Ref(p, "put2")' = 0
      <3>1. PICK l, x : l = th'[p].puts /\ x = th[p].puts[2]
        OBVIOUS
      <3>2. Len(l) = 1 /\ l[1] = x
        BY <2>4, <3>1
      <3>3. Held1(p, "put1")' = x /\ Held1(p, "put2")' = 0
        BY <3>1, <3>2 DEF Held1
      <3>4. Held1(p, "put2") = x
        BY <2>4, <3>1 DEF Held1
      <3> QED
        BY <2>3, <3>3, <3>4 DEF Ref, At
    <2>6. Eff(th'[p]) = Eff(th[p])
      BY <1>2, <2>3, <2>4 DEF Eff
    <2> QED
      BY <1>2, <1>3, <1>4, <1>5, <2>2, <2>3, <2>5, <2>6, PutOnTree DEF OthersWait
  <1>7. CASE Len(th[p].puts) = 1 /\ th[p].then # "endop"
    <2>1. PICK r, w : r = [puts |-> <<>>, at |-> w] /\ w = th[p].then
      OBVIOUS
    <2>2. th'[p] = r \oplus th[p] /\ (\A q \in Proc \ {p} : th'[q] = th[q]) /\ th[p] = [g \in Fields |-> th[p][g]]
      BY <1>7, <2>1, Goes DEF IInv, Dropped
    <2>3. /\ th'[p].at = w /\ th'[p].puts = <<>> /\ th'[p].ip = th[p].ip
          /\ th'[p].dp = th[p].dp /\ th'[p].tgt = th[p].tgt /\ th'[p].path = th[p].path /\ th'[p].call = th[p].call
      BY <2>1, <2>2 DEF \oplus, Fields
    <2>4. Eff(th'[p]) = Eff(th[p]) /\ w \notin {"writei", "opentrunc"}
      BY <1>2, <2>1, <2>3 DEF Eff
    <2>5. w \notin {"itrunc", "ifree"} /\ Ref(p, "put1")' = 0 /\ Ref(p, "put2")' = 0
      BY <1>2, <2>1, <2>3 DEF Ref, Held1, At, Where, HasIp, HasDp
    <2> QED
      BY <1>2, <1>3, <1>4, <1>5, <2>2, <2>3, <2>4, <2>5, PutOnTree DEF OthersWait
  <1>8. CASE Len(th[p].puts) = 1 /\ th[p].then = "endop"
    <2>1. Go(p, EndOp(p))
      BY <1>8 DEF Dropped
    <2>2. th[p].tgt = 0
      BY <1>2, <1>8 DEF IInv, PathInv, Variables
    <2>3. \A x \in Slot : itable[x].lock # p
      BY <1>2, <1>8 DEF TInv, Locking, KeepsLocked, Frees, Keeping, HasDp
    <2>4. In(p, "tgt") = 0
      BY <2>2 DEF In, Ref, Held1
    <2> QED
      BY <1>2, <1>3, <1>4, <1>8, <2>1, <2>3, <2>4, DoneTree DEF Owing
  <1> QED
    BY <1>2, <1>6, <1>7, <1>8

\* The last reference to an inode without links: the path will free it, and no one else refers to it.
LEMMA PutLastTree ==
  ASSUME IInv, TInv, NEW p \in Proc, th[p].at = "iput", NEW s \in Slot, s = Head(th[p].puts), LastUnlinked(s), itable[s].lock = None,
         LockedBy(itable, itable', s, p), Go(p, [at |-> "itrunc"]), UNCHANGED <<disk, files, ncalls, lost>>
  PROVE  TInv'
  <1>1. /\ th[p].puts # <<>> /\ th[p].puts[1] = s /\ itable[s].ref = 1 /\ itable[s].valid /\ itable[s].d.nlink = 0
        /\ Eff(th[p]) = th[p].then /\ Held1(p, "put1") = s /\ 0 \notin Slot /\ Len(th[p].puts) \in {1, 2}
        /\ th[p].then \in Where
    <2>1. PICK x \in Slot : PuttingAt(p, x)
      BY PuttingFacts DEF Putting
    <2> QED
      BY <2>1, Sizes DEF PuttingAt, LastUnlinked, Slot
  <1>2. PICK r : r = [at |-> "itrunc"]
    OBVIOUS
  <1>3. th'[p] = r \oplus th[p] /\ (\A q \in Proc \ {p} : th'[q] = th[q]) /\ th[p] = [g \in Fields |-> th[p][g]]
    BY <1>2, Goes DEF IInv
  <1>4. /\ th'[p].at = "itrunc" /\ th'[p].puts = th[p].puts /\ th'[p].then = th[p].then /\ th'[p].ip = th[p].ip
        /\ th'[p].dp = th[p].dp /\ th'[p].tgt = th[p].tgt /\ th'[p].path = th[p].path /\ th'[p].call = th[p].call
    BY <1>2, <1>3 DEF \oplus, Fields
  <1>5. Eff(th'[p]) = Eff(th[p]) /\ Eff(th[p]) \notin Making /\ Freeing(p)'
    BY <1>1, <1>4 DEF Eff, Freeing, TInv, Stands, Makes
  <1>6. /\ \A x \in Slot : itable'[x].inum = itable[x].inum
        /\ \A x \in Slot \ {s} : itable'[x] = itable[x]
        /\ itable'[s].lock = p
    BY DEF LockedBy, IInv, TypeOK, Entry
  <1>7. InumsKept
    BY <1>6 DEF InumsKept
  <1>8. \A v \in LocalVar : Ref(p, v)' = Ref(p, v)
    BY <1>4 DEF Ref, Held1, At, LocalVar, files
  <1>9. \A v \in LocalVar : In(p, v)' = In(p, v)
    BY <1>7, <1>8, InAfter
  <1>10. /\ In(p, "ip")' = In(p, "ip") /\ In(p, "dp")' = In(p, "dp") /\ In(p, "tgt")' = In(p, "tgt") /\ In(p, "cwd")' = In(p, "cwd")
         /\ In(p, "put1")' = In(p, "put1")
    BY <1>9 DEF LocalVar
  <1>11. PICK i : i = itable[s].inum
    OBVIOUS
  <1>12. In(p, "put1") = i /\ i \in Inum /\ dinode[i].nlink = 0
    <2>1. Ref(p, "put1") = s
      BY <1>1 DEF Ref, At
    <2> QED
      BY <1>1, <1>11, <2>1, InUse DEF In, Ino, IInv, CacheInv
  <1>13. ASSUME NEW q \in Proc, NEW v \in LocalVar, In(q, v) = i
         PROVE  q = p /\ v = "put1"
    <2>1. Ref(q, v) # 0 /\ Ref(q, v) = Held1(q, v)
      BY <1>12, <1>13, Sizes DEF In, Ref, Inum
    <2>2. Held1(q, v) \in Slot /\ itable[Held1(q, v)].ref > 0 /\ itable[Held1(q, v)].inum = i
      BY <1>13, <2>1, RefInUse DEF In, Ino
    <2>3. Held1(q, v) = s
      BY <1>1, <1>11, <2>2 DEF IInv, CacheInv
    <2>4. "put1" \in LocalVar
      BY DEF LocalVar
    <2> QED
      BY <1>1, <2>3, <2>4, VarsAreCounted DEF IInv
  <1>14. ASSUME NEW f \in File, ftable[f].ref > 0
         PROVE  Ino(ftable[f].ip) # i
    <2>1. ftable[f].ip \in Slot
      BY <1>14, FileAtHand
    <2>2. OpenOn(ftable[f].ip) # {}
      BY <1>14 DEF OpenOn
    <2>3. itable[ftable[f].ip].ref > 0
      BY <2>1, <2>2, VarsAreCounted DEF IInv
    <2>4. ASSUME Ino(ftable[f].ip) = i
          PROVE  FALSE
      <3>1. ftable[f].ip = s
        BY <1>1, <1>11, <2>1, <2>3, <2>4 DEF IInv, CacheInv, Ino
      <3>2. "put1" \in LocalVar \ {"cwd"}
        BY DEF LocalVar
      <3> QED
        BY <1>1, <2>2, <3>1, <3>2, VarsAreCounted DEF IInv
    <2> QED
      BY <2>4
  <1>15. Unclaimed(p, i)
    BY <1>12, HadAtHand, Sizes DEF AtHand, LocalVar, Inum
  <1>16. Alone(p, i)
    BY <1>13, <1>14, <1>15 DEF Alone, Unclaimed
  <1>17. \A j \in Inum : Claims(p, j)' => j = i
    BY <1>5, <1>10, <1>12 DEF Claims
  <1>18. Moves(p)
    <2>1. \A v \in LocalVar : In(p, v)' # 0 => Unclaimed(p, In(p, v)') /\ dinode'[In(p, v)'].type # "none"
      BY <1>9, HadAtHand DEF AtHand, disk
    <2>2. \A f \in File : ftable'[f].ref > 0 => ftable[f].ref > 0 /\ ftable'[f].ip = ftable[f].ip
      BY DEF files
    <2>3. \A j \in Inum : Claims(p, j)' => Alone(p, j) /\ \A v \in LocalVar : In(p, v)' = j => v = ClaimVar(p)'
      BY <1>5, <1>9, <1>13, <1>16, <1>17 DEF ClaimVar
    <2>4. \A x \in Slot : /\ itable'[x].lock \in {itable[x].lock, None, p}
                          /\ itable'[x].lock = p => KeepsLocked(th'[p], x) \/ Frees(th'[p], x)
      <3> TAKE x \in Slot
      <3>1. CASE x = s
        BY <1>1, <1>4, <1>6, <3>1 DEF Frees
      <3>2. CASE x # s
        <4>1. itable[x].lock = p => KeepsLocked(th[p], x)
          BY DEF TInv, Locking, Frees
        <4> QED
          BY <1>4, <1>5, <1>6, <3>2, <4>1 DEF KeepsLocked
      <3> QED
        BY <3>1, <3>2
    <2>5. cwd' = cwd
      BY DEF files
    <2> QED
      BY <1>3, <1>7, <2>1, <2>2, <2>3, <2>4, <2>5 DEF Moves
  <1>19. Kept(p) /\ Touches(p)
    BY DEF Kept, Touches, Same, disk
  <1>20. Tree'
    <2>1. \A q \in Proc \ {p}, j \in Inum : Owes(q, j)' <=> Owes(q, j)
      BY <1>3, <1>7, InOthers DEF files
    <2>2. \A j \in Inum : Owes(p, j)' <=> Owes(p, j)
      BY <1>5, <1>10 DEF Owes
    <2> QED
      BY <1>19, <2>1, <2>2, TreeKept
  <1>21. Stands(p)'
    <2>1. Stands(p)
      BY DEF TInv
    <2>2. Homes(p)'
      BY <1>10, <2>1 DEF Stands, Homes, Folder, IsDir, Dotted, disk
    <2>3. Seeks(p)'
      BY <1>4, <1>5, <1>10, <2>1 DEF Stands, Seeks, IsDir, Dotted, disk
    <2>4. Unlinks(p)'
      BY <1>4, <1>5, <1>10, <2>1 DEF Stands, Unlinks, IsDir, IsDirEmpty, disk
    <2>5. Makes(p)'
      BY <1>4, <1>5, <1>10, <2>1 DEF Stands, Makes, Making, disk
    <2>6. Lets(p)'
      BY <1>4, <1>10, <1>12 DEF Lets, At, disk
    <2> QED
      BY <2>2, <2>3, <2>4, <2>5, <2>6 DEF Stands
  <1> QED
    BY <1>18, <1>19, <1>20, <1>21, Combined

\* iput().
LEMMA IPutTree ==
  ASSUME IInv, TInv, NEW p \in Proc, IPut(p)
  PROVE  TInv'
  <1>1. PICK s : s = Head(th[p].puts)
    OBVIOUS
  <1>2. th[p].at = "iput" /\ UNCHANGED <<disk, files, ncalls, lost>>
    BY DEF IPut, At
  <1>3. s \in Slot
    BY <1>1, <1>2, PuttingFacts DEF Putting, PuttingAt
  <1>4. CASE LastUnlinked(s) /\ itable[s].lock = None /\ itable' = [itable EXCEPT ![s].lock = p] /\ Go(p, [at |-> "itrunc"])
    BY <1>1, <1>2, <1>3, <1>4, PutLastTree DEF LockedBy
  <1>5. CASE itable' = [itable EXCEPT ![s].ref = @ - 1] /\ Go(p, Dropped(p))
    BY <1>1, <1>2, <1>5, DropPutTree
  <1> QED
    BY <1>1, <1>4, <1>5 DEF IPut

\* The reference to the inode that was freed is dropped.
LEMMA IPutDropTree ==
  ASSUME IInv, TInv, NEW p \in Proc, IPutDrop(p)
  PROVE  TInv'
  BY DropPutTree DEF IPutDrop, At
-----------------------------------------------------------------------------
(* create(): steps that leave the tree alone *)

\* iget() of the inode that ialloc() took.
LEMMA IallocGetTree ==
  ASSUME IInv, TInv, NEW p \in Proc, IallocGet(p)
  PROVE  TInv'
  <1>1. PICK i, e : i = th[p].inum /\ e = EntryFor(itable, i)
    OBVIOUS
  <1>2. th[p].at = "iallocget" /\ th[p].at \notin Putting /\ HasEntry(itable, i) /\ itable' = Iget(itable, i)
        /\ UNCHANGED <<disk, files, ncalls, lost>>
    BY <1>1 DEF IallocGet, At, Putting
  <1>3. /\ th[p].puts = <<>> /\ Eff(th[p]) = "iallocget" /\ th[p].ip = 0 /\ 0 \notin Slot /\ 0 \notin Inum
        /\ \A x \in Slot : ~Frees(th[p], x)
    BY <1>2, Standing, Sizes DEF HasIp, Slot, Inum
  <1>4. Stands(p) /\ New(p) = i /\ i \in Inum
    BY <1>1, <1>3 DEF TInv, Stands, Makes, Making, New
  <1>5. PICK r : r = [at |-> "createip", ip |-> e, inum |-> 0]
    OBVIOUS
  <1>6. th'[p] = r \oplus th[p] /\ (\A q \in Proc \ {p} : th'[q] = th[q]) /\ th[p] = [g \in Fields |-> th[p][g]]
    BY <1>1, <1>5, Goes DEF IInv, IallocGet
  <1>7. /\ th'[p].at = "createip" /\ th'[p].puts = <<>> /\ th'[p].ip = e /\ th'[p].dp = th[p].dp /\ th'[p].tgt = th[p].tgt
        /\ th'[p].path = th[p].path /\ th'[p].call = th[p].call
    BY <1>3, <1>5, <1>6 DEF \oplus, Fields
  <1>8. Eff(th'[p]) = "createip" /\ ~Freeing(p)'
    BY <1>7 DEF Eff, Freeing
  <1>9. InumsKept /\ e \in Slot /\ itable'[e].inum = i /\ \A x \in Slot : itable'[x].lock = itable[x].lock
    <2>1. KeptIn(itable, p) /\ itable \in Table /\ Coherent(itable, dinode)
      BY InUse DEF KeptIn
    <2>2. PICK u : u = itable'
      OBVIOUS
    <2>3. e \in Slot /\ KeptIn(u, p) /\ u[e].inum = i /\ \A x \in Slot : u[x].lock = itable[x].lock
      BY <1>1, <1>2, <1>4, <2>1, <2>2, GotAfter
    <2> QED
      BY <2>2, <2>3 DEF InumsKept, KeptIn
  <1>10. /\ Ref(p, "ip")' = e /\ Ref(p, "put1")' = 0 /\ Ref(p, "put2")' = 0
         /\ Ref(p, "dp")' = Ref(p, "dp") /\ Ref(p, "tgt")' = Ref(p, "tgt") /\ Ref(p, "cwd")' = Ref(p, "cwd")
    BY <1>2, <1>7 DEF Ref, Held1, At, files
  <1>11. /\ In(p, "ip")' = i /\ In(p, "put1")' = 0 /\ In(p, "put2")' = 0
         /\ In(p, "dp")' = In(p, "dp") /\ In(p, "tgt")' = In(p, "tgt") /\ In(p, "cwd")' = In(p, "cwd")
    <2>1. "ip" \in LocalVar /\ "put1" \in LocalVar /\ "put2" \in LocalVar /\ "dp" \in LocalVar /\ "tgt" \in LocalVar /\ "cwd" \in LocalVar
      BY DEF LocalVar
    <2> QED
      BY <1>3, <1>9, <1>10, <2>1, InAfter
  <1>12. New(p)' = i /\ ClaimVar(p)' = "ip" /\ \A j : Claims(p, j)' => j = i
    BY <1>8, <1>11 DEF New, ClaimVar, Claims
  <1>13. Alone(p, i) /\ \A v \in LocalVar : In(p, v) = i => v = "ip"
    <2>1. Claims(p, i) /\ ClaimVar(p) = "ip"
      BY <1>2, <1>3, <1>4 DEF Claims, Making, ClaimVar, Freeing
    <2> QED
      BY <1>4, <2>1 DEF TInv, Exclusive
  <1>14. \A v \in LocalVar : In(p, v)' = i => v = "ip"
    BY <1>3, <1>4, <1>11, <1>13 DEF LocalVar
  <1>15. \A v \in LocalVar : In(p, v)' = 0 \/ AtHand(p, In(p, v)')
    <2>1. AtHand(p, i)
      BY <1>3, <1>4, <1>13 DEF AtHand, Alone, Unclaimed, Stands, Makes, Making
    <2> QED
      BY <1>11, <2>1, HadAtHand DEF LocalVar
  <1>16. Moves(p)
    <2>1. \A v \in LocalVar : In(p, v)' # 0 => Unclaimed(p, In(p, v)') /\ dinode'[In(p, v)'].type # "none"
      BY <1>2, <1>15 DEF AtHand, disk
    <2>2. \A f \in File : ftable'[f].ref > 0 => ftable[f].ref > 0 /\ ftable'[f].ip = ftable[f].ip
      BY <1>2 DEF files
    <2>3. \A x \in Slot : /\ itable'[x].lock \in {itable[x].lock, None, p}
                          /\ itable'[x].lock = p => KeepsLocked(th'[p], x) \/ Frees(th'[p], x)
      <3>1. \A x \in Slot : itable[x].lock = p => KeepsLocked(th[p], x)
        BY <1>3 DEF TInv, Locking
      <3> QED
        BY <1>3, <1>7, <1>8, <1>9, <3>1 DEF KeepsLocked, Keeping, HasDp
    <2>4. cwd' = cwd
      BY <1>2 DEF files
    <2> QED
      BY <1>6, <1>9, <1>12, <1>13, <1>14, <2>1, <2>2, <2>3, <2>4 DEF Moves
  <1>17. Kept(p) /\ Touches(p)
    BY <1>2 DEF Kept, Touches, Same, disk
  <1>18. Tree'
    <2>1. \A q \in Proc \ {p}, j \in Inum : Owes(q, j)' <=> Owes(q, j)
      BY <1>2, <1>6, <1>9, InOthers DEF files
    <2>2. \A j \in Inum : Owes(p, j)' <=> Owes(p, j)
      BY <1>3, <1>8, <1>11 DEF Owes, Owing
    <2> QED
      BY <1>17, <2>1, <2>2, TreeKept
  <1>19. Stands(p)'
    <2>1. Homes(p)'
      BY <1>2, <1>4, <1>11 DEF Stands, Homes, Folder, IsDir, Dotted, disk
    <2>2. Seeks(p)' /\ Unlinks(p)' /\ Lets(p)'
      BY <1>8 DEF Seeks, Unlinks, Lets, Looking
    <2>3. Makes(p)'
      BY <1>2, <1>3, <1>4, <1>7, <1>8, <1>11, <1>12 DEF Stands, Makes, Making, IsMkdir, IsDirEmpty, disk
    <2> QED
      BY <2>1, <2>2, <2>3 DEF Stands
  <1> QED
    BY <1>16, <1>17, <1>18, <1>19, Combined

\* create() finds no block for the name.
LEMMA CreateLinkFullTree ==
  ASSUME IInv, TInv, NEW p \in Proc, At(p, "createlink"), Go(p, [at |-> "createfail"]), UNCHANGED <<disk, itable, files, ncalls, lost>>
  PROVE  TInv'
  <1>1. th[p].at = "createlink" /\ th[p].at \notin Putting
    BY DEF At, Putting
  <1>2. th[p].puts = <<>> /\ Eff(th[p]) = "createlink" /\ \A x \in Slot : ~Frees(th[p], x)
    BY <1>1, Standing
  <1>3. PICK r : r = [at |-> "createfail"]
    OBVIOUS
  <1>4. th'[p] = r \oplus th[p] /\ (\A q \in Proc \ {p} : th'[q] = th[q]) /\ th[p] = [g \in Fields |-> th[p][g]]
    BY <1>3, Goes DEF IInv
  <1>5. /\ th'[p].at = "createfail" /\ th'[p].puts = <<>> /\ th'[p].ip = th[p].ip /\ th'[p].dp = th[p].dp /\ th'[p].tgt = th[p].tgt
        /\ th'[p].path = th[p].path /\ th'[p].call = th[p].call
    BY <1>2, <1>3, <1>4 DEF \oplus, Fields
  <1>6. Eff(th'[p]) = "createfail" /\ ~Freeing(p)' /\ ~Freeing(p)
    BY <1>1, <1>5 DEF Eff, Freeing
  <1>7. InumsKept
    BY DEF InumsKept
  <1>8. \A v \in LocalVar : In(p, v)' = In(p, v)
    <2>1. \A v \in LocalVar : Ref(p, v)' = Ref(p, v)
      BY <1>1, <1>2, <1>5 DEF Ref, Held1, At, LocalVar, files
    <2> QED
      BY <1>7, <2>1, InAfter
  <1>9. In(p, "ip")' = In(p, "ip") /\ In(p, "dp")' = In(p, "dp") /\ In(p, "tgt")' = In(p, "tgt") /\ In(p, "cwd")' = In(p, "cwd")
    BY <1>8 DEF LocalVar
  <1>10. New(p)' = New(p) /\ ClaimVar(p)' = ClaimVar(p) /\ \A j : Claims(p, j)' <=> Claims(p, j)
    BY <1>2, <1>6, <1>9 DEF New, ClaimVar, Claims, Making
  <1>11. Moves(p)
    <2>1. \A v \in LocalVar : In(p, v)' # 0 => Unclaimed(p, In(p, v)') /\ dinode'[In(p, v)'].type # "none"
      BY <1>8, HadAtHand DEF AtHand, disk
    <2>2. \A f \in File : ftable'[f].ref > 0 => ftable[f].ref > 0 /\ ftable'[f].ip = ftable[f].ip
      BY DEF files
    <2>3. \A x \in Slot : /\ itable'[x].lock \in {itable[x].lock, None, p}
                          /\ itable'[x].lock = p => KeepsLocked(th'[p], x) \/ Frees(th'[p], x)
      <3>1. \A x \in Slot : itable[x].lock = p => KeepsLocked(th[p], x)
        BY <1>2 DEF TInv, Locking
      <3> QED
        BY <1>2, <1>5, <1>6, <3>1 DEF KeepsLocked, Keeping, HasDp
    <2>4. \A j \in Inum : Claims(p, j)' => Alone(p, j) /\ \A v \in LocalVar : In(p, v)' = j => v = ClaimVar(p)'
      BY <1>8, <1>10 DEF TInv, Exclusive
    <2>5. cwd' = cwd
      BY DEF files
    <2> QED
      BY <1>4, <1>7, <2>1, <2>2, <2>3, <2>4, <2>5 DEF Moves
  <1>12. Kept(p) /\ Touches(p)
    BY DEF Kept, Touches, Same, disk
  <1>13. Tree'
    <2>1. \A q \in Proc \ {p}, j \in Inum : Owes(q, j)' <=> Owes(q, j)
      BY <1>4, <1>7, InOthers DEF files
    <2>2. \A j \in Inum : Owes(p, j)' <=> Owes(p, j)
      BY <1>2, <1>6, <1>9 DEF Owes, Owing
    <2> QED
      BY <1>12, <2>1, <2>2, TreeKept
  <1>14. Stands(p)'
    <2>1. Stands(p)
      BY DEF TInv
    <2>2. Homes(p)'
      BY <1>9, <2>1 DEF Stands, Homes, Folder, IsDir, Dotted, disk
    <2>3. Seeks(p)' /\ Unlinks(p)' /\ Lets(p)'
      BY <1>6 DEF Seeks, Unlinks, Lets, Looking
    <2>4. Makes(p)'
      BY <1>2, <1>5, <1>6, <1>9, <1>10, <2>1 DEF Stands, Makes, Making, IsMkdir, IsDirEmpty, disk
    <2> QED
      BY <2>2, <2>3, <2>4 DEF Stands
  <1> QED
    BY <1>11, <1>12, <1>13, <1>14, Combined
-----------------------------------------------------------------------------
(* Links that are owed *)

\* A path owes a link more, or less.
LEMMA OwesMore ==
  ASSUME IInv, NEW p \in Proc, NEW i \in Inum, \A q \in Proc \ {p}, j \in Inum : Owes(q, j)' <=> Owes(q, j),
         \A j \in Inum : ~Owes(p, j), \A j \in Inum : Owes(p, j)' <=> j = i
  PROVE  Cardinality(Owers(i)') = Cardinality(Owers(i)) + 1 /\ \A j \in Inum \ {i} : Owers(j)' = Owers(j)
  <1>1. Owers(i)' = Owers(i) \cup {p} /\ p \notin Owers(i)
    BY DEF Owers
  <1>2. \A j \in Inum \ {i} : Owers(j)' = Owers(j)
    BY DEF Owers
  <1>3. IsFiniteSet(Owers(i))
    BY LinkSets
  <1> QED
    BY <1>1, <1>2, <1>3, FS_AddElement

\* A path owes a link less.
LEMMA OwesLess ==
  ASSUME IInv, NEW p \in Proc, NEW i \in Inum, \A q \in Proc \ {p}, j \in Inum : Owes(q, j)' <=> Owes(q, j),
         \A j \in Inum : ~Owes(p, j)', \A j \in Inum : Owes(p, j) <=> j = i
  PROVE  Cardinality(Owers(i)') = Cardinality(Owers(i)) - 1 /\ \A j \in Inum \ {i} : Owers(j)' = Owers(j)
  <1>1. Owers(i)' = Owers(i) \ {p} /\ p \in Owers(i)
    BY DEF Owers
  <1>2. \A j \in Inum \ {i} : Owers(j)' = Owers(j)
    BY DEF Owers
  <1>3. IsFiniteSet(Owers(i))
    BY LinkSets
  <1> QED
    BY <1>1, <1>2, <1>3, FS_RemoveElement

\* A link is counted, or taken back, that is no name; a new directory may get its dots.
LEMMA NlinkTree ==
  ASSUME IInv, TInv, NEW i \in Inum, NEW k \in {-1, 1}, lost' = lost, dinode[i].type # "none",
         \A j \in Inum : dinode'[j].type = dinode[j].type, dinode'[i].nlink = dinode[i].nlink + k,
         \A j \in Inum \ {i} : dinode'[j].nlink = dinode[j].nlink /\ dir'[j] = dir[j],
         \A n \in Name \ Dots : dir'[i][n] = dir[i][n],
         dir'[i] = dir[i] \/ (IsDir(i) /\ Names(i) = {} /\ i # ROOTINO),
         IsDir(i) => IsDirEmpty(i),
         Cardinality(Owers(i)') = Cardinality(Owers(i)) + k, \A j \in Inum \ {i} : Owers(j)' = Owers(j)
  PROVE  Tree'
  <1>1. Tree
    BY DEF TInv
  <1>2. \A j \in Inum : IsDir(j)' <=> IsDir(j)
    BY DEF IsDir
  <1>3. \A j \in Inum, n \in Name \ Dots : dir'[j][n] = dir[j][n]
    BY DirTypes
  <1>4. \A j \in Inum : Names(j)' = Names(j) /\ SubEntries(j)' = SubEntries(j) /\ (IsDirEmpty(j)' <=> IsDirEmpty(j))
    <2> TAKE j \in Inum
    <2>1. Names(j)' = Names(j)
      BY <1>3 DEF Names
    <2>2. \A n \in Name \ Dots : dir[j][n] # 0 => (IsDir(dir[j][n])' <=> IsDir(dir[j][n]))
      BY <1>2, <1>3, DirTypes DEF IsDir
    <2>3. SubEntries(j)' = SubEntries(j)
      BY <1>3, <2>2 DEF SubEntries
    <2>4. IsDirEmpty(j)' <=> IsDirEmpty(j)
      BY <1>3 DEF IsDirEmpty
    <2> QED BY <2>1, <2>3, <2>4
  <1>5. Links(i)' = Links(i) + k /\ \A j \in Inum \ {i} : Links(j)' = Links(j)
    <2>1. Cardinality(Owers(i)) \in Nat /\ Cardinality(Names(i)) \in Nat /\ Cardinality(SubEntries(i)) \in Nat
      BY LinkSets
    <2>2. PICK a, b, c, d : a = Cardinality(Names(i)) /\ b = Cardinality(SubEntries(i)) /\ c = Cardinality(Owers(i)) /\ d = Cardinality(Owers(i)')
      OBVIOUS
    <2>3. Links(i) = a + b + c + (IF i = ROOTINO THEN 1 ELSE 0) /\ Links(i)' = a + b + d + (IF i = ROOTINO THEN 1 ELSE 0) /\ d = c + k
      BY <1>4, <2>2 DEF Links
    <2>4. \A j \in Inum \ {i} : Links(j)' = Links(j)
      BY <1>4 DEF Links
    <2> QED
      BY <2>1, <2>2, <2>3, <2>4
  <1>6. Counting'
    <2>1. \A j \in Inum : Links(j) \in Nat /\ dinode[j].nlink \in Int
      BY LinkSets
    <2>2. \A j \in Inum : dinode[j].nlink >= Links(j) /\ (j \notin lost => dinode[j].nlink = Links(j))
      BY <1>1 DEF Tree, Counting
    <2>3. dinode'[i].nlink >= Links(i)' /\ (i \notin lost => dinode'[i].nlink = Links(i)')
      BY <1>5, <2>1, <2>2
    <2> QED
      BY <1>5, <2>2, <2>3 DEF Counting
  <1>7. Blank'
    BY <1>1, <1>2 DEF Tree, Blank
  <1>8. Rooted'
    BY <1>1, <1>2, DirTypes DEF Tree, Rooted
  <1>9. OneName'
    BY <1>1, <1>2, <1>4 DEF Tree, OneName
  <1>10. InFolders'
    BY <1>1, <1>2, <1>4 DEF Tree, InFolders, Dotted
  <1>11. Attached'
    BY <1>1, <1>2, <1>4 DEF Tree, Attached
  <1>12. Removed'
    BY <1>1, <1>2, <1>3 DEF Tree, Removed, IsDirEmpty
  <1>13. LostWithin'
    BY <1>1, <1>2, <1>4, DirTypes DEF Tree, LostWithin
  <1>14. Acyclic'
    <2>1. \A a, b \in Inum : Lists(a, b)' <=> Lists(a, b)
      BY <1>3 DEF Lists
    <2> QED
      BY <1>1, <2>1 DEF Tree, Acyclic
  <1> QED
    BY <1>6, <1>7, <1>8, <1>9, <1>10, <1>11, <1>12, <1>13, <1>14 DEF Tree

\* An inode without links and without entries is taken or freed.
LEMMA TypeTree ==
  ASSUME IInv, TInv, NEW i \in Inum, dinode[i].nlink = 0, dinode'[i].nlink = 0, \A n \in Name : dir[i][n] = 0, dir' = dir,
         \A j \in Inum \ {i} : dinode'[j].type = dinode[j].type /\ dinode'[j].nlink = dinode[j].nlink, lost' = lost \ {i},
         \A j \in Inum : Owers(j)' = Owers(j)
  PROVE  Tree'
  <1>1. Tree
    BY DEF TInv
  <1>2. \A j \in Inum \ {i} : IsDir(j)' <=> IsDir(j)
    BY DEF IsDir
  <1>3. Names(i) = {} /\ SubEntries(i) = {} /\ Owers(i) = {} /\ i # ROOTINO
    BY LinkCounts
  <1>4. \A d \in Inum, n \in Name \ Dots : dir[d][n] # i
    <2> SUFFICES ASSUME NEW d \in Inum, NEW n \in Name \ Dots, dir[d][n] = i
                 PROVE  FALSE
      OBVIOUS
    <2>1. IsDir(d)
      BY <1>1, DirTypes DEF Tree, Blank
    <2>2. <<d, n>> \in Names(i)
      BY <2>1 DEF Names, IsDir
    <2> QED
      BY <1>3, <2>2
  <1>5. \A j \in Inum : Names(j)' = Names(j) /\ SubEntries(j)' = SubEntries(j) /\ (IsDirEmpty(j)' <=> IsDirEmpty(j))
    <2> TAKE j \in Inum
    <2>1. Names(j)' = Names(j)
      <3>1. \A d \in Inum, n \in Name \ Dots : dinode'[d].type = "dir" /\ dir'[d][n] = j <=> dinode[d].type = "dir" /\ dir[d][n] = j
        BY DirTypes
      <3> QED
        BY <3>1 DEF Names
    <2>2. \A n \in Name \ Dots : dir[j][n] # 0 => (IsDir(dir[j][n])' <=> IsDir(dir[j][n]))
      BY <1>2, <1>4, DirTypes DEF IsDir
    <2>3. SubEntries(j)' = SubEntries(j)
      BY <2>2 DEF SubEntries
    <2>4. IsDirEmpty(j)' <=> IsDirEmpty(j)
      BY DEF IsDirEmpty
    <2> QED BY <2>1, <2>3, <2>4
  <1>6. \A j \in Inum : Links(j)' = Links(j)
    BY <1>5 DEF Links
  <1>7. Counting'
    <2>1. Links(i) \in Nat
      BY LinkSets
    <2>2. \A j \in Inum : dinode[j].nlink >= Links(j) /\ (j \notin lost => dinode[j].nlink = Links(j))
      BY <1>1 DEF Tree, Counting
    <2>3. Links(i) = 0
      BY <2>1, <2>2
    <2>4. dinode'[i].nlink >= Links(i)' /\ dinode'[i].nlink = Links(i)'
      BY <1>6, <2>3
    <2> QED
      BY <1>6, <2>2, <2>4 DEF Counting
  <1>8. Blank'
    BY <1>1, <1>2 DEF Tree, Blank
  <1>9. Rooted'
    BY <1>1, <1>2, <1>3, DirTypes DEF Tree, Rooted
  <1>10. OneName'
    BY <1>1, <1>2, <1>3, <1>5 DEF Tree, OneName
  <1>11. InFolders'
    BY <1>1, <1>2, <1>5 DEF Tree, InFolders, Dotted, IsDirEmpty
  <1>12. Attached'
    BY <1>1, <1>2, <1>3, <1>5 DEF Tree, Attached
  <1>13. Removed'
    BY <1>1, <1>2, <1>4 DEF Tree, Removed
  <1>14. LostWithin'
    <2> SUFFICES ASSUME NEW j \in lost', IsDir(j)', NEW l \in Names(j)'
                 PROVE  l[1] \in lost'
      BY DEF LostWithin
    <2>1. j \in lost /\ j \in Inum /\ j # i /\ IsDir(j) /\ l \in Names(j)
      BY <1>2, <1>5, DirTypes
    <2>2. l[1] \in lost /\ dir[l[1]][l[2]] = j /\ l[2] \in Name
      BY <1>1, <2>1 DEF Tree, LostWithin, Names
    <2>3. l[1] # i
      BY <2>1, <2>2, DirTypes
    <2> QED
      BY <2>2, <2>3
  <1>15. Acyclic'
    BY <1>1 DEF Tree, Acyclic, Lists
  <1> QED
    BY <1>7, <1>8, <1>9, <1>10, <1>11, <1>12, <1>13, <1>14, <1>15 DEF Tree

\* An inode without links loses its entries.
LEMMA TruncTree ==
  ASSUME IInv, TInv, NEW i \in Inum, dinode[i].nlink = 0, \A n \in Name : dir'[i][n] = 0, \A j \in Inum \ {i} : dir'[j] = dir[j],
         \A j \in Inum : dinode'[j].type = dinode[j].type /\ dinode'[j].nlink = dinode[j].nlink, lost' = lost,
         \A j \in Inum : Owers(j)' = Owers(j)
  PROVE  Tree'
  <1>1. Tree
    BY DEF TInv
  <1>2. \A j \in Inum : IsDir(j)' <=> IsDir(j)
    BY DEF IsDir
  <1>3. Names(i) = {} /\ SubEntries(i) = {} /\ i # ROOTINO
    BY LinkCounts
  <1>4. \A n \in Name \ Dots : dir[i][n] \in lost \cup {0} /\ (dir[i][n] # 0 => ~IsDir(dir[i][n]))
    <2>1. CASE IsDir(i)
      BY <1>1, <1>3, <2>1 DEF Tree, Removed, SubEntries
    <2>2. CASE ~IsDir(i)
      BY <1>1, <2>2 DEF Tree, Blank
    <2> QED
      BY <2>1, <2>2
  <1>5. \A j \in Inum : Names(j)' \subseteq Names(j) /\ (j \notin lost \/ IsDir(j) => Names(j)' = Names(j))
    <2> TAKE j \in Inum
    <2>1. \A d \in Inum, n \in Name \ Dots : dir'[d][n] = j => dir[d][n] = j
      BY DirTypes
    <2>2. Names(j)' \subseteq Names(j)
      BY <2>1 DEF Names
    <2>3. ASSUME j \notin lost \/ IsDir(j)
          PROVE  \A d \in Inum, n \in Name \ Dots : dir'[d][n] = j <=> dir[d][n] = j
      BY <1>4, <2>3, DirTypes
    <2>4. ASSUME j \notin lost \/ IsDir(j)
          PROVE  Names(j)' = Names(j)
      BY <2>3, <2>4 DEF Names
    <2> QED
      BY <2>2, <2>4
  <1>6. \A j \in Inum : SubEntries(j)' = SubEntries(j)
    <2> TAKE j \in Inum
    <2>1. CASE j = i
      BY <1>3, <2>1 DEF SubEntries
    <2>2. CASE j # i
      <3>1. \A n \in Name \ Dots : dir[j][n] # 0 => (IsDir(dir[j][n])' <=> IsDir(dir[j][n]))
        BY <1>2, <2>2, DirTypes DEF IsDir
      <3> QED
        BY <2>2, <3>1 DEF SubEntries
    <2> QED
      BY <2>1, <2>2
  <1>7. Counting'
    <2> SUFFICES ASSUME NEW j \in Inum
                 PROVE  dinode[j].nlink >= Links(j)' /\ (j \notin lost => dinode[j].nlink = Links(j)')
      BY DEF Counting
    <2>1. dinode[j].nlink >= Links(j) /\ (j \notin lost => dinode[j].nlink = Links(j)) /\ dinode[j].nlink \in Int /\ Links(j) \in Nat
      BY <1>1, LinkSets DEF Tree, Counting
    <2>2. CASE j \notin lost
      <3>1. Links(j)' = Links(j)
        BY <1>5, <1>6, <2>2 DEF Links
      <3> QED
        BY <2>1, <3>1
    <2>3. CASE j \in lost
      <3>1. PICK a, b, c, d : a = Cardinality(Names(j)) /\ b = Cardinality(SubEntries(j)) /\ c = Cardinality(Owers(j)) /\ d = Cardinality(Names(j)')
        OBVIOUS
      <3>2. a \in Nat /\ b \in Nat /\ c \in Nat /\ IsFiniteSet(Names(j))
        BY <3>1, LinkSets
      <3>3. d \in Nat /\ d <= a
        <4>1. IsFiniteSet(Names(j)')
          BY <1>5, <3>2, FS_Subset
        <4> QED
          BY <1>5, <3>1, <3>2, <4>1, FS_Subset, FS_CardinalityType
      <3>4. Links(j) = a + b + c + (IF j = ROOTINO THEN 1 ELSE 0) /\ Links(j)' = d + b + c + (IF j = ROOTINO THEN 1 ELSE 0)
        BY <1>6, <3>1 DEF Links
      <3> QED
        BY <2>1, <2>3, <3>2, <3>3, <3>4
    <2> QED
      BY <2>2, <2>3
  <1>8. Blank'
    BY <1>1, <1>2 DEF Tree, Blank
  <1>9. Rooted'
    BY <1>1, <1>2, <1>3, DirTypes DEF Tree, Rooted
  <1>10. OneName'
    BY <1>1, <1>2, <1>3, <1>5 DEF Tree, OneName
  <1>11. InFolders'
    BY <1>1, <1>2 DEF Tree, InFolders, Dotted, IsDirEmpty
  <1>12. Attached'
    BY <1>1, <1>2, <1>3, <1>5, <1>6 DEF Tree, Attached
  <1>13. Removed'
    BY <1>1, <1>2 DEF Tree, Removed
  <1>14. LostWithin'
    BY <1>1, <1>2, <1>5, DirTypes DEF Tree, LostWithin
  <1>15. Acyclic'
    <2>1. \A a, b \in Inum : Lists(a, b)' => Lists(a, b)
      BY DirTypes DEF Lists
    <2> QED
      BY <1>1, <2>1 DEF Tree, Acyclic
  <1> QED
    BY <1>7, <1>8, <1>9, <1>10, <1>11, <1>12, <1>13, <1>14, <1>15 DEF Tree

\* The directory that is lost for the ".." of a lost subdirectory.
Given(d, up) == {x \in {d} : up = 1}
WithEntry(d, n, i) == [dir EXCEPT ![d][n] = i]
LostBy(d, i, up) == IF dinode[d].nlink = 0 \/ d \in lost THEN lost \cup {i} \cup Given(d, up) ELSE lost
\* Who has locked an entry once s has been let go, in table t.
LockAfter(t, s, x) == IF x = s THEN None ELSE t[x].lock

\* A directory gets an entry, for a link that was owed.
LEMMA AddTree ==
  ASSUME IInv, TInv, NEW d \in Inum, NEW i \in Inum, d # i, NEW n \in Name \ Dots, Folder(d), dir[d][n] = 0,
         NEW up \in {0, 1}, up = 1 <=> IsDir(i), dinode[i].type # "none",
         IsDir(i) => /\ IsDirEmpty(i) /\ Names(i) = {} /\ i \notin lost /\ i # ROOTINO
                     /\ dir[i]["."] = i /\ dir[i][".."] = d,
         up = 1 => Owers(d) = {},
         dir' = WithEntry(d, n, i), \A j \in Inum : dinode'[j].type = dinode[j].type,
         dinode'[d].nlink = dinode[d].nlink + up, \A j \in Inum \ {d} : dinode'[j].nlink = dinode[j].nlink,
         lost' = LostBy(d, i, up),
         Cardinality(Owers(i)') = Cardinality(Owers(i)) - 1, \A j \in Inum \ {i} : Owers(j)' = Owers(j)
  PROVE  Tree'
  <1>1. Tree /\ IsDir(d) /\ Dotted(d)
    BY DEF TInv, Folder
  <1>2. \A j \in Inum : IsDir(j)' <=> IsDir(j)
    BY DEF IsDir
  <1>3. /\ dir'[d][n] = i /\ \A m \in Name \ {n} : dir'[d][m] = dir[d][m]
        /\ \A j \in Inum \ {d} : dir'[j] = dir[j]
    BY DEF IInv, TypeOK, WithEntry
  <1>4. \A m \in Name : dir'[i][m] = dir[i][m]
    BY <1>3
  <1>5. i # 0 /\ n \in Name /\ "." \in Name /\ ".." \in Name /\ "." # n /\ ".." # n
    BY DirTypes DEF Dots
  <1>6. Names(i)' = Names(i) \cup {<<d, n>>} /\ <<d, n>> \notin Names(i) /\ \A j \in Inum \ {i} : Names(j)' = Names(j)
    <2>1. \A j \in Inum \ {i}, b \in Inum, m \in Name \ Dots : dir'[b][m] = j <=> dir[b][m] = j
      BY <1>3, DirTypes
    <2>2. \A j \in Inum \ {i} : Names(j)' = Names(j)
      BY <2>1 DEF Names
    <2>3. \A b \in Inum, m \in Name \ Dots : dir'[b][m] = i <=> dir[b][m] = i \/ (b = d /\ m = n)
      BY <1>3, DirTypes
    <2>4. dinode'[d].type = "dir"
      BY <1>1 DEF IsDir
    <2>5. Names(i)' = Names(i) \cup {<<d, n>>}
      BY <2>3, <2>4 DEF Names
    <2>6. <<d, n>> \notin Names(i)
      BY <1>5 DEF Names
    <2> QED
      BY <2>2, <2>5, <2>6
  <1>7. \A j \in Inum \ {d} : SubEntries(j)' = SubEntries(j)
    <2> TAKE j \in Inum \ {d}
    <2>1. \A m \in Name \ Dots : dir'[j][m] = dir[j][m] /\ (dir[j][m] # 0 => (IsDir(dir[j][m])' <=> IsDir(dir[j][m])))
      BY <1>2, <1>3, DirTypes DEF IsDir
    <2> QED
      BY <2>1 DEF SubEntries, IsDir
  <1>8. /\ up = 0 => SubEntries(d)' = SubEntries(d)
        /\ up = 1 => SubEntries(d)' = SubEntries(d) \cup {n} /\ n \notin SubEntries(d)
    <2>1. \A m \in (Name \ Dots) \ {n} : dir'[d][m] = dir[d][m] /\ (dir[d][m] # 0 => (IsDir(dir[d][m])' <=> IsDir(dir[d][m])))
      BY <1>2, <1>3, DirTypes DEF IsDir
    <2>2. \A m \in (Name \ Dots) \ {n} : m \in SubEntries(d)' <=> m \in SubEntries(d)
      BY <2>1 DEF SubEntries, IsDir
    <2>3. n \notin SubEntries(d) /\ (n \in SubEntries(d)' <=> up = 1)
      BY <1>2, <1>3, <1>5 DEF SubEntries, IsDir
    <2>4. SubEntries(d) \subseteq Name \ Dots /\ SubEntries(d)' \subseteq Name \ Dots
      BY DEF SubEntries
    <2>5. SubEntries(d)' = SubEntries(d) \cup (IF up = 1 THEN {n} ELSE {})
      BY <2>2, <2>3, <2>4
    <2> QED
      BY <2>3, <2>5
  <1>9. \A j \in Inum \ {d} : IsDirEmpty(j)' <=> IsDirEmpty(j)
    BY <1>3 DEF IsDirEmpty
  <1>10. Links(i)' = Links(i)
    <2>1. PICK a, b, c, x, y : /\ a = Cardinality(Names(i)) /\ b = Cardinality(SubEntries(i)) /\ c = Cardinality(Owers(i))
                               /\ x = Cardinality(Names(i)') /\ y = Cardinality(Owers(i)')
      OBVIOUS
    <2>2. a \in Nat /\ b \in Nat /\ c \in Nat
      BY <2>1, LinkSets
    <2>3. x = a + 1
      <3>1. PICK S, l : S = Names(i) /\ l = <<d, n>>
        OBVIOUS
      <3>2. IsFiniteSet(S) /\ l \notin S /\ Names(i)' = S \cup {l}
        BY <1>6, <3>1, LinkSets
      <3>3. Cardinality(S \cup {l}) = Cardinality(S) + 1
        BY <3>2, FS_AddElement
      <3> QED
        BY <2>1, <3>1, <3>2, <3>3
    <2>4. y = c - 1 /\ Links(i) = a + b + c + (IF i = ROOTINO THEN 1 ELSE 0) /\ Links(i)' = x + b + y + (IF i = ROOTINO THEN 1 ELSE 0)
      BY <1>7, <2>1 DEF Links
    <2> QED
      BY <2>2, <2>3, <2>4
  <1>11. Links(d)' = Links(d) + up
    <2>1. PICK a, b, c, x : a = Cardinality(Names(d)) /\ b = Cardinality(SubEntries(d)) /\ c = Cardinality(Owers(d)) /\ x = Cardinality(SubEntries(d)')
      OBVIOUS
    <2>2. a \in Nat /\ b \in Nat /\ c \in Nat
      BY <2>1, LinkSets
    <2>3. x = b + up
      <3>1. IsFiniteSet(SubEntries(d))
        BY LinkSets
      <3> QED
        BY <1>8, <2>1, <2>2, <3>1, FS_AddElement
    <2>4. Links(d) = a + b + c + (IF d = ROOTINO THEN 1 ELSE 0) /\ Links(d)' = a + x + c + (IF d = ROOTINO THEN 1 ELSE 0)
      BY <1>6, <2>1 DEF Links
    <2> QED
      BY <2>2, <2>3, <2>4
  <1>12. \A j \in Inum \ {d, i} : Links(j)' = Links(j)
    BY <1>6, <1>7 DEF Links
  <1>13. /\ lost \subseteq lost' /\ lost' \subseteq lost \cup {i, d} /\ (d \in lost' /\ d \notin lost => up = 1 /\ dinode[d].nlink = 0)
         /\ dinode[d].nlink = 0 \/ d \in lost => i \in lost' /\ (up = 1 => d \in lost')
         /\ i \in lost' /\ i \notin lost => dinode[d].nlink = 0 \/ d \in lost
    BY DirTypes DEF Given, LostBy
  <1>14. Counting'
    <2>1. \A j \in Inum : /\ dinode[j].nlink >= Links(j) /\ (j \notin lost => dinode[j].nlink = Links(j))
                          /\ dinode[j].nlink \in Int /\ Links(j) \in Nat
      BY <1>1, LinkSets DEF Tree, Counting
    <2>2. dinode'[d].nlink >= Links(d)' /\ (d \notin lost => dinode'[d].nlink = Links(d)')
      BY <1>11, <2>1
    <2>3. dinode'[i].nlink >= Links(i)' /\ (i \notin lost => dinode'[i].nlink = Links(i)')
      BY <1>10, <2>1
    <2>4. \A j \in Inum \ {d, i} : dinode'[j].nlink >= Links(j)' /\ (j \notin lost => dinode'[j].nlink = Links(j)')
      BY <1>12, <2>1
    <2>5. \A j \in Inum : dinode'[j].nlink >= Links(j)' /\ (j \notin lost => dinode'[j].nlink = Links(j)')
      BY <2>2, <2>3, <2>4
    <2> QED
      BY <1>13, <2>5 DEF Counting
  <1>15. Blank'
    <2>1. \A j \in Inum : dinode'[j].type = "none" => dinode'[j].nlink = 0 /\ j \notin lost'
      BY <1>1, <1>13 DEF Tree, Blank, IsDir
    <2>2. \A j \in Inum : ~IsDir(j)' => \A m \in Name : dir'[j][m] = 0
      BY <1>1, <1>2, <1>3 DEF Tree, Blank
    <2> QED
      BY <2>1, <2>2 DEF Blank
  <1>16. Rooted'
    <2>1. \A m \in Dots : dir'[ROOTINO][m] = dir[ROOTINO][m]
      BY <1>3, DirTypes
    <2> QED
      BY <1>1, <1>2, <2>1, DirTypes DEF Tree, Rooted
  <1>17. OneName'
    <2> SUFFICES ASSUME NEW j \in Inum, IsDir(j)', NEW l \in Names(j)'
                 PROVE  Names(j)' = {l} /\ dir'[j][".."] = l[1] /\ dir'[j]["."] = j /\ j # ROOTINO
      BY DEF OneName
    <2>1. dir'[j][".."] = dir[j][".."] /\ dir'[j]["."] = dir[j]["."]
      BY <1>3, <1>5
    <2>2. CASE j # i
      BY <1>1, <1>2, <1>6, <2>1, <2>2 DEF Tree, OneName
    <2>3. CASE j = i
      <3>1. Names(j)' = {<<d, n>>} /\ l = <<d, n>>
        BY <1>2, <1>6, <2>3
      <3> QED
        BY <1>2, <2>1, <2>3, <3>1
    <2> QED
      BY <2>2, <2>3
  <1>18. InFolders'
    <2>1. \A j \in Inum : Dotted(j) => Dotted(j)'
      BY <1>3, <1>5 DEF Dotted
    <2> QED
      BY <1>1, <1>2, <1>9, <2>1 DEF Tree, InFolders
  <1>19. Attached'
    <2> SUFFICES ASSUME NEW j \in Inum, j \notin lost', j # ROOTINO, IsDir(j)', SubEntries(j)' # {}
                 PROVE  Names(j)' # {}
      BY DEF Attached
    <2>1. Names(j) \subseteq Names(j)' /\ j \notin lost /\ IsDir(j)
      BY <1>2, <1>6, <1>13
    <2>2. SubEntries(j) # {} => Names(j) # {}
      BY <1>1, <2>1 DEF Tree, Attached
    <2>3. CASE j # d \/ up = 0
      BY <1>7, <1>8, <2>1, <2>2, <2>3
    <2>4. CASE j = d /\ up = 1
      <3>1. dinode[d].nlink # 0 /\ Owers(d) = {} /\ dinode[d].nlink = Links(d)
        <4>1. d \notin lost /\ d \notin lost' /\ up = 1
          BY <2>1, <2>4
        <4>2. dinode[d].nlink # 0
          BY <1>13, <4>1
        <4> QED
          BY <1>1, <4>1, <4>2 DEF Tree, Counting
      <3>2. PICK a, b, c : a = Cardinality(Names(d)) /\ b = Cardinality(SubEntries(d)) /\ c = Cardinality(Owers(d))
        OBVIOUS
      <3>3. c = 0 /\ a \in Nat /\ b \in Nat /\ Links(d) = a + b + c + (IF d = ROOTINO THEN 1 ELSE 0)
            /\ (a > 0 => Names(d) # {}) /\ (b > 0 => SubEntries(d) # {})
        BY <3>1, <3>2, LinkSets, FS_EmptySet DEF Links
      <3>4. a > 0 \/ b > 0
        BY <2>4, <3>1, <3>3
      <3> QED
        BY <2>1, <2>2, <2>4, <3>3, <3>4
    <2> QED
      BY <2>3, <2>4
  <1>20. Removed'
    <2> SUFFICES ASSUME NEW j \in Inum, IsDir(j)', j \in lost' \/ dinode'[j].nlink = 0, NEW m \in Name \ Dots
                 PROVE  dir'[j][m] \in lost' \cup {0}
      BY DEF Removed
    <2>1. IsDir(j) /\ (j \in lost \/ dinode[j].nlink = 0 => dir[j][m] \in lost \cup {0})
      BY <1>1, <1>2 DEF Tree, Removed
    <2>2. CASE j = d
      <3>1. dinode[d].nlink \in Nat
        BY LinkCounts
      <3>2. dinode[d].nlink = 0 \/ d \in lost
        <4>1. d \in lost' => d \in lost \/ dinode[d].nlink = 0
          BY <1>13
        <4> QED
          BY <2>2, <3>1, <4>1
      <3>3. i \in lost'
        BY <1>13, <3>2
      <3> QED
        BY <1>3, <1>13, <2>1, <2>2, <3>2, <3>3
    <2>3. CASE j = i
      BY <1>4, <2>1, <2>3 DEF IsDirEmpty
    <2>4. CASE j # i /\ j # d
      BY <1>3, <1>13, <2>1, <2>4
    <2> QED
      BY <2>2, <2>3, <2>4
  <1>21. LostWithin'
    <2> SUFFICES ASSUME NEW j \in lost', IsDir(j)', NEW l \in Names(j)'
                 PROVE  l[1] \in lost'
      BY DEF LostWithin
    <2>1. j \in Inum /\ IsDir(j)
      BY <1>2, <1>13, DirTypes
    <2>2. CASE j = i
      <3>1. l = <<d, n>> /\ j \notin lost /\ up = 1 /\ (dinode[d].nlink = 0 \/ d \in lost)
        BY <1>6, <1>13, <2>1, <2>2
      <3>2. d \in lost'
        BY <1>13, <2>2, <3>1
      <3> QED
        BY <3>1, <3>2
    <2>3. CASE j # i /\ j \in lost
      BY <1>1, <1>6, <1>13, <2>1, <2>3 DEF Tree, LostWithin
    <2>4. CASE j # i /\ j \notin lost
      <3>1. j = d /\ Names(d) = {}
        BY <1>13, <2>4, LinkCounts
      <3> QED
        BY <1>6, <2>4, <3>1
    <2> QED
      BY <2>2, <2>3, <2>4
  <1>22. Acyclic'
    <2> SUFFICES ASSUME NEW S \in (SUBSET Inum) \ {{}}
                 PROVE  \E x \in S : \A y \in S : ~Lists(x, y)'
      BY DEF Acyclic
    <2>1. CASE i \in S
      <3>1. \A m \in Name \ Dots : dir[i][m] = 0
        BY <1>1 DEF Tree, Blank, IsDirEmpty
      <3>2. \A y \in S : ~Lists(i, y)'
        BY <1>4, <3>1, DirTypes DEF Lists
      <3> QED
        BY <2>1, <3>2
    <2>2. CASE i \notin S
      <3>1. PICK x \in S : \A y \in S : ~Lists(x, y)
        BY <1>1 DEF Tree, Acyclic
      <3>2. \A y \in S : ~Lists(x, y)'
        BY <1>3, <2>2, <3>1 DEF Lists
      <3> QED
        BY <3>2
    <2> QED
      BY <2>1, <2>2
  <1> QED
    BY <1>14, <1>15, <1>16, <1>17, <1>18, <1>19, <1>20, <1>21, <1>22 DEF Tree

\* A directory loses an entry, for a link that is owed.
LEMMA RemoveTree ==
  ASSUME IInv, TInv, NEW d \in Inum, NEW i \in Inum, NEW n \in Name \ Dots, IsDir(d), dir[d][n] = i,
         IsDir(i) => IsDirEmpty(i), NEW down \in {0, 1}, down = 1 <=> IsDir(i),
         dir' = WithEntry(d, n, 0), \A j \in Inum : dinode'[j].type = dinode[j].type, lost' = lost,
         dinode'[d].nlink = dinode[d].nlink - down, \A j \in Inum \ {d} : dinode'[j].nlink = dinode[j].nlink,
         Cardinality(Owers(i)') = Cardinality(Owers(i)) + 1, \A j \in Inum \ {i} : Owers(j)' = Owers(j)
  PROVE  Tree'
  <1>1. Tree
    BY DEF TInv
  <1>2. \A j \in Inum : IsDir(j)' <=> IsDir(j)
    BY DEF IsDir
  <1>3. i # 0 /\ n \in Name /\ "." \in Name /\ ".." \in Name /\ "." # n /\ ".." # n /\ d # i
    BY DirTypes DEF Dots, IsDirEmpty
  <1>4. /\ dir'[d][n] = 0 /\ \A m \in Name \ {n} : dir'[d][m] = dir[d][m]
        /\ \A j \in Inum \ {d} : dir'[j] = dir[j]
    BY DEF IInv, TypeOK, WithEntry
  <1>5. \A b \in Inum, m \in Name : dir'[b][m] \in {0, dir[b][m]}
    BY <1>4
  <1>6. Names(i)' = Names(i) \ {<<d, n>>} /\ <<d, n>> \in Names(i) /\ \A j \in Inum \ {i} : Names(j)' = Names(j)
    <2>1. \A j \in Inum \ {i}, b \in Inum, m \in Name \ Dots : dir'[b][m] = j <=> dir[b][m] = j
      BY <1>4, DirTypes
    <2>2. \A j \in Inum \ {i} : Names(j)' = Names(j)
      BY <2>1 DEF Names
    <2>3. \A b \in Inum, m \in Name \ Dots : dir'[b][m] = i <=> dir[b][m] = i /\ ~(b = d /\ m = n)
      BY <1>3, <1>4
    <2>4. Names(i)' = Names(i) \ {<<d, n>>}
      BY <2>3 DEF Names
    <2>5. <<d, n>> \in Names(i)
      BY DEF Names, IsDir
    <2> QED
      BY <2>2, <2>4, <2>5
  <1>7. \A j \in Inum \ {d} : SubEntries(j)' = SubEntries(j)
    <2> TAKE j \in Inum \ {d}
    <2>1. \A m \in Name \ Dots : dir'[j][m] = dir[j][m] /\ (dir[j][m] # 0 => (IsDir(dir[j][m])' <=> IsDir(dir[j][m])))
      BY <1>2, <1>4, DirTypes DEF IsDir
    <2> QED
      BY <2>1 DEF SubEntries, IsDir
  <1>8. /\ down = 0 => SubEntries(d)' = SubEntries(d)
        /\ down = 1 => SubEntries(d)' = SubEntries(d) \ {n} /\ n \in SubEntries(d)
    <2>1. \A m \in (Name \ Dots) \ {n} : dir'[d][m] = dir[d][m] /\ (dir[d][m] # 0 => (IsDir(dir[d][m])' <=> IsDir(dir[d][m])))
      BY <1>2, <1>4, DirTypes DEF IsDir
    <2>2. \A m \in (Name \ Dots) \ {n} : m \in SubEntries(d)' <=> m \in SubEntries(d)
      BY <2>1 DEF SubEntries, IsDir
    <2>3. n \notin SubEntries(d)' /\ (n \in SubEntries(d) <=> down = 1)
      BY <1>3, <1>4 DEF SubEntries, IsDir
    <2>4. SubEntries(d) \subseteq Name \ Dots /\ SubEntries(d)' \subseteq Name \ Dots
      BY DEF SubEntries
    <2>5. SubEntries(d)' = SubEntries(d) \ (IF down = 1 THEN {n} ELSE {})
      BY <2>2, <2>3, <2>4
    <2> QED
      BY <2>3, <2>5
  <1>9. Links(i)' = Links(i)
    <2>1. PICK a, b, c, x, y : /\ a = Cardinality(Names(i)) /\ b = Cardinality(SubEntries(i)) /\ c = Cardinality(Owers(i))
                               /\ x = Cardinality(Names(i)') /\ y = Cardinality(Owers(i)')
      OBVIOUS
    <2>2. a \in Nat /\ b \in Nat /\ c \in Nat
      BY <2>1, LinkSets
    <2>3. x = a - 1
      <3>1. IsFiniteSet(Names(i))
        BY LinkSets
      <3> QED
        BY <1>6, <2>1, <3>1, FS_RemoveElement
    <2>4. y = c + 1 /\ Links(i) = a + b + c + (IF i = ROOTINO THEN 1 ELSE 0) /\ Links(i)' = x + b + y + (IF i = ROOTINO THEN 1 ELSE 0)
      BY <1>3, <1>7, <2>1 DEF Links
    <2> QED
      BY <2>2, <2>3, <2>4
  <1>10. Links(d)' = Links(d) - down /\ Links(d) >= down
    <2>1. PICK a, b, c, x : a = Cardinality(Names(d)) /\ b = Cardinality(SubEntries(d)) /\ c = Cardinality(Owers(d)) /\ x = Cardinality(SubEntries(d)')
      OBVIOUS
    <2>2. a \in Nat /\ b \in Nat /\ c \in Nat
      BY <2>1, LinkSets
    <2>3. x = b - down /\ b >= down
      <3>1. IsFiniteSet(SubEntries(d)) /\ (SubEntries(d) # {} => b > 0)
        BY <2>1, LinkSets
      <3> QED
        BY <1>8, <2>1, <2>2, <3>1, FS_RemoveElement
    <2>4. Links(d) = a + b + c + (IF d = ROOTINO THEN 1 ELSE 0) /\ Links(d)' = a + x + c + (IF d = ROOTINO THEN 1 ELSE 0)
      BY <1>3, <1>6, <2>1 DEF Links
    <2> QED
      BY <2>2, <2>3, <2>4
  <1>11. \A j \in Inum \ {d, i} : Links(j)' = Links(j)
    BY <1>6, <1>7 DEF Links
  <1>12. Counting'
    <2>1. \A j \in Inum : /\ dinode[j].nlink >= Links(j) /\ (j \notin lost => dinode[j].nlink = Links(j))
                          /\ dinode[j].nlink \in Int /\ Links(j) \in Nat
      BY <1>1, LinkSets DEF Tree, Counting
    <2>2. dinode'[d].nlink >= Links(d)' /\ (d \notin lost => dinode'[d].nlink = Links(d)')
      BY <1>10, <2>1
    <2>3. dinode'[i].nlink >= Links(i)' /\ (i \notin lost => dinode'[i].nlink = Links(i)')
      BY <1>3, <1>9, <2>1
    <2>4. \A j \in Inum \ {d, i} : dinode'[j].nlink >= Links(j)' /\ (j \notin lost => dinode'[j].nlink = Links(j)')
      BY <1>11, <2>1
    <2> QED
      BY <2>2, <2>3, <2>4 DEF Counting
  <1>13. Blank'
    <2>1. \A j \in Inum : dinode'[j].type = "none" => dinode'[j].nlink = 0 /\ j \notin lost'
      BY <1>1 DEF Tree, Blank, IsDir
    <2>2. \A j \in Inum : ~IsDir(j)' => \A m \in Name : dir'[j][m] = 0
      BY <1>1, <1>2, <1>5 DEF Tree, Blank
    <2> QED
      BY <2>1, <2>2 DEF Blank
  <1>14. Rooted'
    <2>1. \A m \in Dots : dir'[ROOTINO][m] = dir[ROOTINO][m]
      BY <1>4, DirTypes
    <2> QED
      BY <1>1, <1>2, <2>1, DirTypes DEF Tree, Rooted
  <1>15. OneName'
    <2> SUFFICES ASSUME NEW j \in Inum, IsDir(j)', NEW l \in Names(j)'
                 PROVE  Names(j)' = {l} /\ dir'[j][".."] = l[1] /\ dir'[j]["."] = j /\ j # ROOTINO
      BY DEF OneName
    <2>1. dir'[j][".."] = dir[j][".."] /\ dir'[j]["."] = dir[j]["."]
      BY <1>3, <1>4
    <2>2. CASE j # i
      BY <1>1, <1>2, <1>6, <2>1, <2>2 DEF Tree, OneName
    <2>3. CASE j = i
      <3>1. l \in Names(i) /\ l # <<d, n>>
        BY <1>6, <2>3
      <3>2. Names(i) = {l}
        BY <1>1, <1>2, <2>3, <3>1 DEF Tree, OneName
      <3> QED
        BY <1>6, <3>1, <3>2
    <2> QED
      BY <2>2, <2>3
  <1>16. InFolders'
    <2>1. \A j \in Inum : (Dotted(j) => Dotted(j)') /\ (IsDirEmpty(j) => IsDirEmpty(j)')
      BY <1>3, <1>4 DEF Dotted, IsDirEmpty
    <2> QED
      BY <1>1, <1>2, <2>1 DEF Tree, InFolders
  <1>17. Attached'
    <2> SUFFICES ASSUME NEW j \in Inum, j \notin lost, j # ROOTINO, IsDir(j)', SubEntries(j)' # {}
                 PROVE  Names(j)' # {}
      BY DEF Attached
    <2>1. IsDir(j) /\ SubEntries(j)' \subseteq SubEntries(j) /\ (SubEntries(j) # {} => Names(j) # {})
      BY <1>1, <1>2, <1>7, <1>8 DEF Tree, Attached
    <2>2. CASE j = i
      <3>1. SubEntries(i) = {}
        BY <2>1, <2>2 DEF SubEntries, IsDirEmpty
      <3> QED
        BY <2>1, <2>2, <3>1
    <2> QED
      BY <1>6, <2>1, <2>2
  <1>18. Removed'
    <2> SUFFICES ASSUME NEW j \in Inum, IsDir(j)', j \in lost \/ dinode'[j].nlink = 0
                 PROVE  \A m \in Name \ Dots : dir[j][m] \in lost \cup {0}
      BY <1>5 DEF Removed
    <2>1. IsDir(j) /\ (j \in lost \/ dinode[j].nlink = 0 => \A m \in Name \ Dots : dir[j][m] \in lost \cup {0})
      BY <1>1, <1>2 DEF Tree, Removed
    <2>2. CASE j \in lost \/ dinode[j].nlink = 0
      BY <2>1, <2>2
    <2>3. CASE j \notin lost /\ dinode[j].nlink # 0
      <3>1. j = d /\ down = 1 /\ dinode[d].nlink = 1 /\ dinode[d].nlink = Links(d)
        BY <1>1, <2>3, LinkSets DEF Tree, Counting
      <3>2. PICK a, b, c : a = Cardinality(Names(d)) /\ b = Cardinality(SubEntries(d)) /\ c = Cardinality(Owers(d))
        OBVIOUS
      <3>3. /\ a \in Nat /\ b \in Nat /\ c \in Nat /\ Links(d) = a + b + c + (IF d = ROOTINO THEN 1 ELSE 0)
            /\ (Names(d) # {} => a > 0) /\ b > 0
        BY <1>8, <3>1, <3>2, LinkSets DEF Links
      <3>4. Names(d) = {} /\ d # ROOTINO /\ SubEntries(d) # {}
        BY <1>8, <3>1, <3>3
      <3> QED
        BY <1>1, <2>1, <2>3, <3>1, <3>4 DEF Tree, Attached
    <2> QED
      BY <2>2, <2>3
  <1>19. LostWithin'
    BY <1>1, <1>2, <1>6, DirTypes DEF Tree, LostWithin
  <1>20. Acyclic'
    <2>1. \A a, b \in Inum : Lists(a, b)' => Lists(a, b)
      BY <1>5, DirTypes DEF Lists
    <2> QED
      BY <1>1, <2>1 DEF Tree, Acyclic
  <1> QED
    BY <1>12, <1>13, <1>14, <1>15, <1>16, <1>17, <1>18, <1>19, <1>20 DEF Tree
-----------------------------------------------------------------------------
(* Steps that write to the tree *)

\* Who refers to an inode has the entry for it.
LEMMA OneEntry ==
  ASSUME IInv, NEW s \in Slot, itable[s].ref > 0, NEW q \in Proc, NEW v \in LocalVar, In(q, v) = itable[s].inum
  PROVE  Ref(q, v) = s
  <1>1. itable[s].inum # 0
    BY InUse, Sizes DEF Inum
  <1>2. Ref(q, v) # 0 /\ In(q, v) = itable[Ref(q, v)].inum
    BY <1>1 DEF In, Ino
  <1>3. Ref(q, v) \in Slot /\ itable[Ref(q, v)].ref > 0
    BY <1>2, RefInUse DEF Ref
  <1> QED
    BY <1>2, <1>3 DEF IInv, CacheInv

\* No other process has locked what p has locked, or may lock.
LEMMA MayWrite ==
  ASSUME IInv, TInv, NEW p \in Proc, NEW v \in LocalVar, Ref(p, v) # 0, itable[Ref(p, v)].lock \in {None, p}
  PROVE  NotLocked(p, In(p, v))
  <1>1. Ref(p, v) \in Slot /\ itable[Ref(p, v)].ref > 0 /\ In(p, v) = itable[Ref(p, v)].inum /\ In(p, v) # 0
    BY RefInUse DEF Ref, In, Ino
  <1>2. Unclaimed(p, In(p, v))
    BY <1>1, HadAtHand DEF AtHand
  <1>3. \A q \in Proc \ {p}, u \in LocalVar : In(q, u) = In(p, v) => itable[Ref(q, u)].lock # q
    <2> SUFFICES ASSUME NEW q \in Proc \ {p}, NEW u \in LocalVar, In(q, u) = In(p, v)
                 PROVE  itable[Ref(q, u)].lock # q
      OBVIOUS
    <2>1. PICK s \in Slot : s = Ref(p, v)
      BY <1>1
    <2>2. Ref(q, u) = s
      BY <1>1, <2>1, OneEntry
    <2> QED
      BY <2>1, <2>2, Sizes
  <1> QED
    BY <1>2, <1>3 DEF NotLocked

\* A step that writes names and link counts, and comes to a place that asks nothing, or to that of unlink().
LEMMA WritesStep ==
  ASSUME IInv, TInv, NEW p \in Proc, Tree', Touches(p), InumsKept, OthersWait(p), LocksKept(p), FilesKept,
         \A j \in Inum : dinode'[j].type = dinode[j].type /\ \A n \in Dots : dir'[j][n] = dir[j][n],
         \A v \in LocalVar : In(p, v)' = 0 \/ AtHand(p, In(p, v)'),
         th'[p].at \notin {"itrunc", "ifree"}, Eff(th'[p]) \in Elsewhere \cup {"unlinkdec"},
         Eff(th'[p]) = "unlinkdec" => In(p, "ip")' # 0,
         Eff(th'[p]) = "unlinkdec" /\ IsDir(In(p, "ip")') => \A n \in Name \ Dots : dir'[In(p, "ip")'][n] = 0,
         In(p, "cwd")' \in {0, In(p, "cwd")}, In(p, "dp")' \in {0, In(p, "dp")},
         In(p, "tgt")' # 0 => dinode[In(p, "tgt")'].type = "file"
  PROVE  TInv'
  <1>1. Eff(th'[p]) \notin Making /\ Eff(th'[p]) \notin Looking /\ Eff(th'[p]) # "ialloc"
    BY DEF Elsewhere, Looking, Making
  <1>2. ~Freeing(p)' /\ \A i : ~Claims(p, i)'
    BY <1>1 DEF Freeing, Claims
  <1>3. \A v \in LocalVar : In(p, v)' = 0 \/ (In(p, v)' \in Inum /\ Unclaimed(p, In(p, v)') /\ dinode[In(p, v)'].type # "none")
    BY DEF AtHand
  <1>4. Moves(p)
    BY <1>2, <1>3 DEF Moves, OthersWait, LocksKept, FilesKept
  <1>5. "cwd" \in LocalVar /\ "dp" \in LocalVar /\ "tgt" \in LocalVar /\ "ip" \in LocalVar /\ "." \in Dots /\ ".." \in Dots
    BY DEF LocalVar, Dots
  <1>6. Homes(p)'
    <2>1. Homes(p)
      BY DEF TInv, Stands
    <2>2. \A j \in Inum : Folder(j) => Folder(j)'
      BY <1>5 DEF Folder, IsDir, Dotted
    <2>3. In(p, "cwd")' # 0 => In(p, "cwd")' \in Inum /\ Folder(In(p, "cwd")')
      BY <1>3, <1>5, <2>1 DEF Homes
    <2>4. In(p, "dp")' # 0 => In(p, "dp")' \in Inum /\ Folder(In(p, "dp")')
      BY <1>3, <1>5, <2>1 DEF Homes
    <2>5. (In(p, "cwd")' # 0 => Folder(In(p, "cwd"))') /\ (In(p, "dp")' # 0 => Folder(In(p, "dp"))')
      BY <1>5, <2>3, <2>4 DEF Folder, IsDir, Dotted
    <2>6. In(p, "tgt")' # 0 => dinode'[In(p, "tgt")'].type = "file"
      BY <1>3, <1>5
    <2> QED
      BY <2>5, <2>6 DEF Homes
  <1>7. Seeks(p)'
    BY <1>1 DEF Seeks, Looking
  <1>8. Makes(p)'
    BY <1>1 DEF Makes, Making
  <1>9. Unlinks(p)'
    <2>1. Eff(th'[p]) # "unlinkip"
      BY <1>1 DEF Looking
    <2>2. Eff(th'[p]) = "unlinkdec" /\ IsDir(In(p, "ip"))' => IsDirEmpty(In(p, "ip"))'
      <3>1. IsDir(In(p, "ip"))' => In(p, "ip")' = 0 \/ IsDir(In(p, "ip")')
        BY <1>3, <1>5 DEF IsDir
      <3> QED
        BY <3>1 DEF IsDirEmpty
    <2> QED
      BY <2>1, <2>2 DEF Unlinks
  <1>10. Lets(p)'
    BY <1>2 DEF Lets
  <1> QED
    BY <1>4, <1>6, <1>7, <1>8, <1>9, <1>10, Combined DEF Stands

\* iupdate(), in a table for the same inodes.
LEMMA Updated ==
  ASSUME IInv, NEW t \in Table, NEW s \in Slot, NEW d, Iupdate(t, s, d), \A x \in Slot : t[x].inum = itable[x].inum
  PROVE  /\ InumsKept /\ \A x \in Slot : itable'[x].lock = t[x].lock /\ itable'[x].inum = itable[x].inum
         /\ dinode'[itable[s].inum] = d /\ \A j \in Inum \ {itable[s].inum} : dinode'[j] = dinode[j]
  <1>1. TypeOK /\ itable[s].inum \in Inum
    BY InUse, FileSystemAssumption DEF IInv
  <1>2. \A x \in Slot : itable'[x].inum = t[x].inum /\ itable'[x].lock = t[x].lock
    BY DEF Iupdate, Table, Entry
  <1>3. dinode' = [dinode EXCEPT ![itable[s].inum] = d] /\ DOMAIN dinode = Inum
    BY <1>1 DEF Iupdate, TypeOK
  <1> QED
    BY <1>1, <1>2, <1>3 DEF InumsKept

\* An inode that owes a link takes it back, and is let go.
LEMMA TakeBackTree ==
  ASSUME IInv, TInv, NEW p \in Proc, NEW a \in {"unlinkdec", "createfail", "linkbad"}, At(p, a),
         NEW v \in {"ip", "tgt"}, v = "tgt" <=> a = "linkbad",
         NEW s, s = th[p][v], itable[s].lock \in {None, p}, NEW t \in Table, \A x \in Slot : t[x].inum = itable[x].inum,
         t[s].lock = None, \A x \in Slot \ {s} : t[x].lock = itable[x].lock,
         NEW d, Iupdate(t, s, d), d.type = dinode[itable[s].inum].type, d.nlink = dinode[itable[s].inum].nlink - 1,
         NEW w \in {"endop", "dropdp"}, w = "dropdp" <=> a = "createfail",
         PutThen(p, <<s>>, w, IF a = "linkbad" THEN [tgt |-> 0] ELSE [ip |-> 0]), UNCHANGED <<dir, files, ncalls, lost>>
  PROVE  TInv'
  <1>1. th[p].at = a /\ th[p].at \notin Putting
    BY DEF At, Putting
  <1>2. /\ th[p].puts = <<>> /\ Eff(th[p]) = a /\ 0 \notin Slot /\ (th[p].ip # 0 <=> a # "linkbad") /\ (th[p].dp # 0 <=> a = "createfail")
        /\ (th[p].tgt # 0 <=> a = "linkbad") /\ \A x \in Slot : ~Frees(th[p], x)
    BY <1>1, Standing, Sizes DEF HasIp, HasDp, Slot, Continues, Linking
  <1>3. s \in Slot /\ itable[s].ref > 0 /\ s # 0
    BY <1>2, InUse
  <1>4. PICK r : r = (IF a = "linkbad" THEN [tgt |-> 0] ELSE [ip |-> 0]) \oplus [at |-> "iput", puts |-> <<s>>, then |-> w]
    OBVIOUS
  <1>5. th'[p] = r \oplus th[p] /\ (\A q \in Proc \ {p} : th'[q] = th[q]) /\ th[p] = [f \in Fields |-> th[p][f]]
    BY <1>4, Goes DEF IInv, PutThen
  <1>6. th'[p].at = "iput" /\ th'[p].puts = <<s>> /\ th'[p].then = w /\ th'[p].ip = 0 /\ th'[p].dp = th[p].dp /\ th'[p].tgt = 0
    <2>1. CASE a = "linkbad"
      BY <1>2, <1>4, <1>5, <2>1 DEF \oplus, Fields
    <2>2. CASE a # "linkbad"
      BY <1>2, <1>4, <1>5, <2>2, Zenon DEF \oplus, Fields
    <2> QED
      BY <2>1, <2>2
  <1>7. PICK i \in Inum : i = itable[s].inum
    BY <1>3, InUse
  <1>8. /\ InumsKept /\ \A x \in Slot : itable'[x].lock = t[x].lock
        /\ dinode'[i] = d /\ \A j \in Inum \ {i} : dinode'[j] = dinode[j]
    BY <1>3, <1>7, Updated
  <1>9. Ref(p, v) = s /\ In(p, v) = i /\ v \in LocalVar
    BY <1>1, <1>2, <1>3, <1>7 DEF Ref, Held1, In, Ino, LocalVar
  <1>10. /\ Ref(p, "ip")' = 0 /\ Ref(p, "dp")' = Ref(p, "dp") /\ Ref(p, "put2")' = 0
         /\ Ref(p, "put1")' = Ref(p, v) /\ Ref(p, "tgt")' = 0 /\ Ref(p, "cwd")' = Ref(p, "cwd")
    BY <1>6, <1>9 DEF Ref, Held1, At, files
  <1>11. /\ In(p, "ip")' = 0 /\ In(p, "dp")' = In(p, "dp") /\ In(p, "put2")' = 0
         /\ In(p, "put1")' = In(p, v) /\ In(p, "tgt")' = 0 /\ In(p, "cwd")' = In(p, "cwd")
    BY <1>8, <1>10, InAfter DEF LocalVar
  <1>12. \A u \in LocalVar : In(p, u)' = 0 \/ AtHand(p, In(p, u)')
    BY <1>9, <1>11, StillAtHand DEF LocalVar
  <1>13. Eff(th'[p]) = w /\ w \in Elsewhere \ Owing
    BY <1>6 DEF Eff, Elsewhere, Where, HasDp, Looking, Making, Owing
  <1>14. LocksKept(p)
    <2>1. \A x \in Slot : itable[x].lock = p => KeepsLocked(th[p], x)
      BY <1>2 DEF TInv, Locking
    <2>2. \A x \in Slot \ {s} : KeepsLocked(th[p], x) => KeepsLocked(th'[p], x)
      BY <1>2, <1>6, <1>13 DEF KeepsLocked, Keeping, HasDp
    <2>3. \A x \in Slot : itable'[x].lock = IF x = s THEN None ELSE itable[x].lock
      BY <1>8
    <2> QED
      BY <2>1, <2>2, <2>3, Sizes DEF LocksKept
  <1>15. OthersWait(p) /\ FilesKept
    BY <1>5 DEF OthersWait, FilesKept, files
  <1>16. Touches(p)
    <2>1. NotLocked(p, i)
      BY <1>3, <1>9, MayWrite
    <2>2. \A j \in Inum \ {i} : Same(j)
      BY <1>8 DEF Same
    <2> QED
      BY <1>7, <1>8, <2>1, <2>2 DEF Touches
  <1>17. Stands(p)
    BY DEF TInv
  <1>18. \A j \in Inum : (Owes(p, j) <=> j = i) /\ ~Owes(p, j)'
    <2>1. 0 \notin Inum
      BY Sizes DEF Inum
    <2>2. (a = "linkbad" => In(p, "tgt") = i) /\ (a # "linkbad" => In(p, "ip") = i /\ In(p, "tgt") = 0)
      BY <1>2, <1>9 DEF In, Ref, Held1
    <2> QED
      BY <1>2, <1>11, <1>13, <2>1, <2>2 DEF Owes, Owing
  <1>19. dinode[i].type # "none" /\ (IsDir(i) => IsDirEmpty(i))
    <2>1. dinode[i].type # "none"
      BY <1>9, DirTypes DEF TInv, Allocated
    <2>2. CASE a = "linkbad"
      BY <1>9, <1>17, <2>2, DirTypes DEF Stands, Homes, IsDir
    <2>3. CASE a = "unlinkdec"
      BY <2>1, <1>2, <1>9, <1>17, <2>3 DEF Stands, Unlinks
    <2>4. CASE a = "createfail"
      BY <1>2, <1>9, <1>17, <2>4 DEF Stands, Makes, Making, New
    <2> QED
      BY <2>1, <2>2, <2>3, <2>4
  <1>20. Tree'
    <2>1. \A q \in Proc \ {p}, j \in Inum : Owes(q, j)' <=> Owes(q, j)
      BY <1>5, <1>8, InOthers DEF files
    <2>2. Cardinality(Owers(i)') = Cardinality(Owers(i)) - 1 /\ \A j \in Inum \ {i} : Owers(j)' = Owers(j)
      BY <1>18, <2>1, OwesLess
    <2>3. Cardinality(Owers(i)') = Cardinality(Owers(i)) + (-1) /\ dinode'[i].nlink = dinode[i].nlink + (-1)
      <3>1. Cardinality(Owers(i)) \in Nat /\ dinode[i].nlink \in Int
        BY LinkSets
      <3> QED
        BY <1>7, <1>8, <2>2, <3>1
    <2>4. PICK k \in {-1, 1} : k = -1
      OBVIOUS
    <2> QED
      BY <1>7, <1>8, <1>19, <2>2, <2>3, <2>4, NlinkTree
  <1> QED
    BY <1>6, <1>7, <1>8, <1>11, <1>12, <1>13, <1>14, <1>15, <1>16, <1>20, WritesStep

\* The link of the inode whose name went.
LEMMA UnlinkDecTree ==
  ASSUME IInv, TInv, NEW p \in Proc, UnlinkDec(p)
  PROVE  TInv'
  <1>1. PICK s, t, d : s = th[p].ip /\ t = Unlock(itable, s) /\ d = [itable[s].d EXCEPT !.nlink = @ - 1]
    OBVIOUS
  <1>2. At(p, "unlinkdec") /\ Iupdate(t, s, d) /\ PutThen(p, <<s>>, "endop", [ip |-> 0]) /\ UNCHANGED <<dir, files, ncalls, lost>>
    BY <1>1 DEF UnlinkDec
  <1>3. /\ s \in Slot /\ itable[s].ref > 0 /\ itable[s].lock = p /\ itable[s].valid
    <2>1. th[p].at = "unlinkdec" /\ th[p].at \notin Putting
      BY <1>2 DEF At, Putting
    <2>2. Eff(th[p]) = "unlinkdec"
      BY <2>1, Standing
    <2> QED
      BY <1>1, <2>2, Stood DEF HasIp, Keeping
  <1>4. Like(t, s) /\ t[s].lock = None
    BY <1>1, <1>3, LetGo
  <1>5. d.type = dinode[itable[s].inum].type /\ d.nlink = dinode[itable[s].inum].nlink - 1
    <2>1. itable[s].d = dinode[itable[s].inum] /\ itable[s].d \in Inode
      BY <1>3, InUse DEF IInv, CacheInv
    <2> QED
      BY <1>1, <2>1 DEF Inode
  <1>6. PICK a \in {"unlinkdec", "createfail", "linkbad"} : a = "unlinkdec"
    OBVIOUS
  <1>7. PICK v \in {"ip", "tgt"} : v = "ip"
    OBVIOUS
  <1>8. PICK w \in {"endop", "dropdp"} : w = "endop"
    OBVIOUS
  <1>9. /\ At(p, a) /\ s = th[p][v] /\ (v = "tgt" <=> a = "linkbad") /\ (w = "dropdp" <=> a = "createfail")
        /\ itable[s].lock \in {None, p} /\ t \in Table /\ \A x \in Slot : t[x].inum = itable[x].inum
        /\ t[s].lock = None /\ \A x \in Slot \ {s} : t[x].lock = itable[x].lock
    BY <1>1, <1>2, <1>3, <1>4, <1>6, <1>7, <1>8 DEF Like
  <1>10. PutThen(p, <<s>>, w, IF a = "linkbad" THEN [tgt |-> 0] ELSE [ip |-> 0])
    BY <1>2, <1>6, <1>8
  <1> QED
    BY <1>2, <1>5, <1>9, <1>10, TakeBackTree

\* create() fails.
LEMMA CreateFailTree ==
  ASSUME IInv, TInv, NEW p \in Proc, CreateFail(p)
  PROVE  TInv'
  <1>1. PICK s, t, d : s = th[p].ip /\ t = Unlock(itable, s) /\ d = [itable[s].d EXCEPT !.nlink = 0]
    OBVIOUS
  <1>2. At(p, "createfail") /\ Iupdate(t, s, d) /\ PutThen(p, <<s>>, "dropdp", [ip |-> 0]) /\ UNCHANGED <<dir, files, ncalls, lost>>
    BY <1>1 DEF CreateFail
  <1>3. /\ s \in Slot /\ itable[s].ref > 0 /\ itable[s].lock = p /\ itable[s].valid /\ Eff(th[p]) = "createfail" /\ In(p, "ip") = itable[s].inum
    <2>1. th[p].at = "createfail" /\ th[p].at \notin Putting
      BY <1>2 DEF At, Putting
    <2>2. Eff(th[p]) = "createfail"
      BY <2>1, Standing
    <2> QED
      BY <1>1, <2>2, Stood DEF HasIp, Keeping, Ino
  <1>4. Like(t, s) /\ t[s].lock = None
    BY <1>1, <1>3, LetGo
  <1>5. d.type = dinode[itable[s].inum].type /\ d.nlink = dinode[itable[s].inum].nlink - 1
    <2>1. itable[s].d = dinode[itable[s].inum] /\ itable[s].d \in Inode
      BY <1>3, InUse DEF IInv, CacheInv
    <2>2. dinode[itable[s].inum].nlink = 1
      BY <1>3 DEF TInv, Stands, Makes, Making, New
    <2> QED
      BY <1>1, <2>1, <2>2 DEF Inode
  <1>6. PICK a \in {"unlinkdec", "createfail", "linkbad"} : a = "createfail"
    OBVIOUS
  <1>7. PICK v \in {"ip", "tgt"} : v = "ip"
    OBVIOUS
  <1>8. PICK w \in {"endop", "dropdp"} : w = "dropdp"
    OBVIOUS
  <1>9. /\ At(p, a) /\ s = th[p][v] /\ (v = "tgt" <=> a = "linkbad") /\ (w = "dropdp" <=> a = "createfail")
        /\ itable[s].lock \in {None, p} /\ t \in Table /\ \A x \in Slot : t[x].inum = itable[x].inum
        /\ t[s].lock = None /\ \A x \in Slot \ {s} : t[x].lock = itable[x].lock
    BY <1>1, <1>2, <1>3, <1>4, <1>6, <1>7, <1>8 DEF Like
  <1>10. PutThen(p, <<s>>, w, IF a = "linkbad" THEN [tgt |-> 0] ELSE [ip |-> 0])
    BY <1>2, <1>6, <1>8
  <1> QED
    BY <1>2, <1>5, <1>9, <1>10, TakeBackTree

\* link() fails.
LEMMA LinkBadTree ==
  ASSUME IInv, TInv, NEW p \in Proc, LinkBad(p)
  PROVE  TInv'
  <1>1. PICK s, t, d : s = th[p].tgt /\ t = Unlock(Ilock(p, s), s) /\ d = [Loaded(s) EXCEPT !.nlink = @ - 1]
    OBVIOUS
  <1>2. At(p, "linkbad") /\ CanLock(s) /\ Iupdate(t, s, d) /\ PutThen(p, <<s>>, "endop", [tgt |-> 0]) /\ UNCHANGED <<dir, files, ncalls, lost>>
    BY <1>1 DEF LinkBad
  <1>3. s \in Slot /\ itable[s].ref > 0
    <2>1. th[p].at = "linkbad" /\ th[p].at \notin Putting
      BY <1>2 DEF At, Putting
    <2>2. s # 0
      BY <1>1, <2>1, Standing DEF Continues
    <2> QED
      BY <1>1, <2>2, InUse
  <1>4. /\ t \in Table /\ \A x \in Slot : t[x].inum = itable[x].inum
        /\ \A x \in Slot \ {s} : t[x] = itable[x]
        /\ t[s].lock = None /\ itable[s].lock = None /\ Loaded(s) = dinode[itable[s].inum]
    BY <1>1, <1>2, <1>3, Peeked
  <1>5. d.type = dinode[itable[s].inum].type /\ d.nlink = dinode[itable[s].inum].nlink - 1
    <2>1. Loaded(s) \in Inode
      BY <1>2, <1>3, Entered
    <2> QED
      BY <1>1, <1>4, <2>1 DEF Inode
  <1>6. PICK a \in {"unlinkdec", "createfail", "linkbad"} : a = "linkbad"
    OBVIOUS
  <1>7. PICK v \in {"ip", "tgt"} : v = "tgt"
    OBVIOUS
  <1>8. PICK w \in {"endop", "dropdp"} : w = "endop"
    OBVIOUS
  <1>9. /\ At(p, a) /\ s = th[p][v] /\ (v = "tgt" <=> a = "linkbad") /\ (w = "dropdp" <=> a = "createfail")
        /\ itable[s].lock \in {None, p} /\ t \in Table /\ \A x \in Slot : t[x].inum = itable[x].inum
        /\ t[s].lock = None /\ \A x \in Slot \ {s} : t[x].lock = itable[x].lock
    BY <1>1, <1>2, <1>3, <1>4, <1>6, <1>7, <1>8, Zenon
  <1>10. PutThen(p, <<s>>, w, IF a = "linkbad" THEN [tgt |-> 0] ELSE [ip |-> 0])
    BY <1>2, <1>6, <1>8
  <1> QED
    BY <1>2, <1>5, <1>9, <1>10, TakeBackTree

\* link() counts the link first.
LEMMA LinkIncTree ==
  ASSUME IInv, TInv, NEW p \in Proc, LinkInc(p)
  PROVE  TInv'
  <1>1. PICK s, t, d : s = th[p].ip /\ t = Unlock(Ilock(p, s), s) /\ d = [Loaded(s) EXCEPT !.nlink = @ + 1]
    OBVIOUS
  <1>2. Locks(p, "linkinc") /\ UNCHANGED <<dir, used, files, ncalls, lost>>
    BY DEF LinkInc
  <1>3. /\ th[p].at = "linkinc" /\ th[p].puts = <<>> /\ Eff(th[p]) = "linkinc" /\ CanLock(s) /\ s \in Slot /\ itable[s].ref > 0
        /\ In(p, "ip") \in Inum /\ AtHand(p, In(p, "ip")) /\ Stands(p) /\ Continues(th[p]) /\ 0 \notin Slot
        /\ In(p, "ip") = itable[s].inum /\ Loaded(s) = dinode[In(p, "ip")] /\ itable[s].lock = None /\ Ref(p, "ip") = s
        /\ \A x \in Slot : KeepsLocked(th[p], x) => "linkinc" \in HasDp
        /\ \A x \in Slot : itable[x].lock = p => KeepsLocked(th[p], x)
        /\ Held1(p, "put1") = 0 /\ Held1(p, "put2") = 0
    BY <1>1, <1>2, Here DEF Looking
  <1>4. ASSUME GiveUp(p, s, "endop"), UNCHANGED dinode
        PROVE  TInv'
    BY <1>1, <1>2, <1>3, <1>4, GiveUpTree DEF Looking, HasDp, disk
  <1>5. ASSUME Loaded(s).type # "dir", Iupdate(t, s, d), Go(p, NewName(p))
        PROVE  TInv'
    <2>1. th[p].at \notin Putting /\ th[p].dp = 0 /\ th[p].tgt = 0 /\ th[p].fail # "linkbad"
      <3>1. th[p].at \notin Putting
        BY <1>3 DEF Putting
      <3> QED
        BY <1>3, <3>1, Standing DEF HasDp, Continues, Linking
    <2>2. PICK r : r = NewName(p)
      OBVIOUS
    <2>3. th'[p] = r \oplus th[p] /\ (\A q \in Proc \ {p} : th'[q] = th[q]) /\ th[p] = [f \in Fields |-> th[p][f]]
      BY <1>5, <2>2, Goes DEF IInv
    <2>4. th'[p].at = "namex" /\ th'[p].puts = <<>> /\ th'[p].ip = 0 /\ th'[p].dp = 0 /\ th'[p].tgt = s
      BY <1>1, <1>3, <2>1, <2>2, <2>3 DEF \oplus, Fields, NewName
    <2>5. PICK i \in Inum : i = In(p, "ip")
      BY <1>3
    <2>6. /\ t \in Table /\ \A x \in Slot : t[x].inum = itable[x].inum
          /\ \A x \in Slot \ {s} : t[x] = itable[x]
          /\ t[s].lock = None
      BY <1>1, <1>3, Peeked
    <2>7. /\ InumsKept /\ \A x \in Slot : itable'[x].lock = t[x].lock
          /\ dinode'[i] = d /\ \A j \in Inum \ {i} : dinode'[j] = dinode[j]
      BY <1>3, <1>5, <2>5, <2>6, Updated
    <2>8. d.type = dinode[i].type /\ d.nlink = dinode[i].nlink + 1
      <3>1. Loaded(s) \in Inode
        BY <1>3, Entered
      <3> QED
        BY <1>1, <1>3, <2>5, <3>1 DEF Inode
    <2>9. /\ Ref(p, "ip")' = 0 /\ Ref(p, "dp")' = 0 /\ Ref(p, "put2")' = 0
          /\ Ref(p, "put1")' = 0 /\ Ref(p, "tgt")' = Ref(p, "ip") /\ Ref(p, "cwd")' = Ref(p, "cwd")
      BY <1>2, <1>3, <2>4 DEF Ref, Held1, At, files
    <2>10. /\ In(p, "ip")' = 0 /\ In(p, "dp")' = 0 /\ In(p, "put2")' = 0
           /\ In(p, "put1")' = 0 /\ In(p, "tgt")' = i /\ In(p, "cwd")' = In(p, "cwd")
      BY <2>5, <2>7, <2>9, InAfter DEF LocalVar
    <2>11. \A u \in LocalVar : In(p, u)' = 0 \/ AtHand(p, In(p, u)')
      BY <2>5, <2>10, StillAtHand DEF LocalVar
    <2>12. Eff(th'[p]) = "namex" /\ "namex" \in Elsewhere \ Owing
      BY <2>4 DEF Eff, Elsewhere, Where, Looking, Making, Owing
    <2>13. LocksKept(p)
      BY <1>3, <2>6, <2>7, Sizes DEF LocksKept, HasDp
    <2>14. OthersWait(p) /\ FilesKept
      BY <1>2, <2>3 DEF OthersWait, FilesKept, files
    <2>15. Touches(p)
      <3>1. NotLocked(p, i)
        BY <1>3, <2>5, MayWrite DEF LocalVar
      <3>2. \A j \in Inum \ {i} : Same(j)
        BY <1>2, <2>7 DEF Same
      <3> QED
        BY <1>2, <2>7, <2>8, <3>1, <3>2 DEF Touches
    <2>16. dinode[i].type = "file"
      <3>1. dinode[i].type # "dir" /\ dinode[i].type # "none" /\ dinode[i] \in Inode
        BY <1>3, <1>5, <2>5 DEF AtHand, IInv, TypeOK
      <3> QED
        BY <3>1 DEF Inode
    <2>17. \A j \in Inum : (Owes(p, j)' <=> j = i) /\ ~Owes(p, j)
      <3>1. 0 \notin Inum /\ In(p, "tgt") = 0
        BY <2>1, Sizes DEF Inum, In, Ref, Held1
      <3> QED
        BY <1>3, <2>10, <2>12, <3>1 DEF Owes, Owing
    <2>18. Tree'
      <3>1. \A q \in Proc \ {p}, j \in Inum : Owes(q, j)' <=> Owes(q, j)
        BY <1>2, <2>3, <2>7, InOthers DEF files
      <3>2. Cardinality(Owers(i)') = Cardinality(Owers(i)) + 1 /\ \A j \in Inum \ {i} : Owers(j)' = Owers(j)
        BY <2>17, <3>1, OwesMore
      <3>3. PICK k \in {-1, 1} : k = 1
        OBVIOUS
      <3> QED
        BY <1>2, <2>7, <2>8, <2>16, <3>2, <3>3, NlinkTree DEF IsDir
    <2> QED
      BY <1>2, <2>4, <2>7, <2>8, <2>10, <2>11, <2>12, <2>13, <2>14, <2>15, <2>16, <2>18, WritesStep
  <1>6. \/ GiveUp(p, s, "endop") /\ UNCHANGED dinode
        \/ Loaded(s).type # "dir" /\ Iupdate(t, s, d) /\ Go(p, NewName(p))
    BY <1>1 DEF LinkInc
  <1> QED
    BY <1>4, <1>5, <1>6
-----------------------------------------------------------------------------
(* dirlink() *)

\* What dirlink() writes, for the directory of an entry that is up to date.
LEMMA Linked ==
  ASSUME IInv, NEW t \in Table, NEW s \in Slot, \A x \in Slot : t[x].inum = itable[x].inum,
         NEW name \in Name, NEW i \in Inum, NEW up \in {0, 1}, Dirlink(t, s, name, i, up),
         NEW d \in Inum, d = itable[s].inum, t[s].d = dinode[d]
  PROVE  /\ InumsKept /\ \A x \in Slot : itable'[x].lock = LockAfter(t, s, x)
         /\ dir' = WithEntry(d, name, i)
         /\ \A j \in Inum : dinode'[j].type = dinode[j].type
         /\ dinode'[d].nlink = dinode[d].nlink + up /\ \A j \in Inum \ {d} : dinode'[j] = dinode[j]
         /\ lost' = LostBy(d, i, up)
  <1>1. t[s].inum = d
    OBVIOUS
  <1>2. PICK new : Iupdate(Unlock(t, s), s, [WithBlocks(t[s].d, new) EXCEPT !.nlink = @ + up])
    BY DEF Dirlink
  <1>3. PICK e, u : e = [WithBlocks(t[s].d, new) EXCEPT !.nlink = @ + up] /\ u = Unlock(t, s)
    OBVIOUS
  <1>4. dinode[d] \in Inode
    BY DEF IInv, TypeOK
  <1>5. e.type = dinode[d].type /\ e.nlink = dinode[d].nlink + up
    BY <1>3, <1>4 DEF WithBlocks, Inode
  <1>6. /\ u \in Table /\ \A x \in Slot : u[x].lock = LockAfter(t, s, x)
        /\ \A x \in Slot : u[x].inum = itable[x].inum
    BY <1>3, Unlocked DEF But, LockAfter
  <1>7. /\ InumsKept /\ \A x \in Slot : itable'[x].lock = u[x].lock
        /\ dinode'[d] = e /\ \A j \in Inum \ {d} : dinode'[j] = dinode[j]
    BY <1>2, <1>3, <1>6, Updated
  <1>8. /\ dir' = WithEntry(d, name, i)
        /\ lost' = LostBy(d, i, up)
    BY <1>1 DEF Dirlink, Given, LostBy, WithEntry
  <1>9. \A j \in Inum : dinode'[j].type = dinode[j].type
    BY <1>5, <1>7
  <1> QED
    BY <1>5, <1>6, <1>7, <1>8, <1>9

\* Nobody owes a link of a directory that p has locked, or may lock, but p.
LEMMA NobodyOwes ==
  ASSUME IInv, TInv, NEW p \in Proc, NEW v \in LocalVar, NEW s \in Slot, Ref(p, v) = s, itable[s].lock \in {None, p},
         NEW d \in Inum, In(p, v) = d, IsDir(d), ~Owes(p, d)
  PROVE  Owers(d) = {}
  <1> SUFFICES ASSUME NEW q \in Proc, Owes(q, d)
               PROVE  FALSE
    BY DEF Owers
  <1>1. q # p /\ Stands(q)
    BY DEF TInv
  <1>2. In(q, "tgt") # d
    BY <1>1, DirTypes DEF Stands, Homes, IsDir
  <1>3. Eff(th[q]) \in Owing /\ In(q, "ip") = d
    BY <1>2 DEF Owes
  <1>4. Unclaimed(p, d)
    BY HadAtHand, DirTypes DEF AtHand
  <1>5. Eff(th[q]) = "unlinkdec"
    BY <1>1, <1>3, <1>4 DEF Unclaimed, Claims, Making, Owing, New
  <1>6. Ref(q, "ip") = th[q].ip /\ itable[th[q].ip].lock = q
    BY <1>5, Stood DEF HasIp, Keeping
  <1>7. NotLocked(p, d)
    BY MayWrite, Sizes DEF Slot
  <1>8. "ip" \in LocalVar
    BY DEF LocalVar
  <1> QED
    BY <1>1, <1>3, <1>6, <1>7, <1>8 DEF NotLocked

\* The new inode gets its name.
LEMMA NewNameTree ==
  ASSUME IInv, TInv, NEW p \in Proc, At(p, "createlink"), NEW s \in Slot, s = th[p].dp, NEW i \in Inum, i = itable[th[p].ip].inum,
         NEW up \in {0, 1}, up = 1 <=> IsMkdir(p), NEW n, n = LastOf(th[p].path), Dirlink(itable, s, n, i, up),
         NEW w \in {"dropip", "openfile"}, PutThen(p, <<s>>, w, [dp |-> 0]), UNCHANGED <<files, ncalls>>
  PROVE  TInv'
  <1>1. th[p].at = "createlink" /\ th[p].at \notin Putting
    BY DEF At, Putting
  <1>2. /\ th[p].puts = <<>> /\ Eff(th[p]) = "createlink" /\ 0 \notin Slot /\ th[p].ip # 0 /\ th[p].dp # 0 /\ th[p].ip # th[p].dp
        /\ th[p].tgt = 0 /\ \A x \in Slot : ~Frees(th[p], x)
    <2>1. th[p].puts = <<>> /\ Eff(th[p]) = th[p].at /\ Variables(th[p]) /\ Continues(th[p])
      BY <1>1, Standing
    <2>2. (th[p].ip # 0 <=> th[p].at \in HasIp) /\ (th[p].dp # 0 <=> th[p].at \in HasDp) /\ (th[p].tgt # 0 <=> th[p].fail = "linkbad")
      BY <1>1, Standing
    <2>3. \A x \in Slot : ~Frees(th[p], x)
      BY <1>1, Standing
    <2>4. th[p].ip # 0 /\ th[p].dp # 0
      BY <1>1, <2>2 DEF HasIp, HasDp
    <2>5. th[p].ip # th[p].dp
      BY <1>1, <2>1 DEF Variables
    <2>6. th[p].tgt = 0
      BY <1>1, <2>1, <2>2 DEF Continues, Linking
    <2>7. 0 \notin Slot
      BY Sizes DEF Slot
    <2> QED
      BY <1>1, <2>1, <2>3, <2>4, <2>5, <2>6, <2>7
  <1>3. /\ Ref(p, "ip") = th[p].ip /\ In(p, "ip") = i /\ itable[th[p].ip].lock = p
        /\ Ref(p, "dp") = s /\ In(p, "dp") = itable[s].inum /\ itable[s].lock = p /\ itable[s].valid /\ itable[s].ref > 0
    BY <1>2, Stood DEF HasIp, HasDp, Keeping, Ino
  <1>4. PICK r : r = [dp |-> 0] \oplus [at |-> "iput", puts |-> <<s>>, then |-> w]
    OBVIOUS
  <1>5. th'[p] = r \oplus th[p] /\ (\A q \in Proc \ {p} : th'[q] = th[q]) /\ th[p] = [f \in Fields |-> th[p][f]]
    BY <1>4, Goes DEF IInv, PutThen
  <1>6. th'[p].at = "iput" /\ th'[p].puts = <<s>> /\ th'[p].then = w /\ th'[p].ip = th[p].ip /\ th'[p].dp = 0 /\ th'[p].tgt = th[p].tgt
    BY <1>4, <1>5 DEF \oplus, Fields
  <1>7. PICK d \in Inum : d = itable[s].inum
    BY InUse
  <1>8. Stands(p) /\ n \in Name \ Dots /\ dir[d][n] = 0 /\ Folder(d)
    <2>1. Stands(p) /\ n \notin Dots /\ dir[d][n] = 0
      BY <1>2, <1>3, <1>7 DEF TInv, Stands, Makes
    <2>2. n \in Name
      BY <1>1, <1>2, SoughtIsName DEF Naming
    <2>3. Folder(d)
      BY <1>3, <1>7, <2>1, DirTypes DEF Stands, Homes
    <2> QED
      BY <2>1, <2>2, <2>3
  <1>9. /\ InumsKept /\ \A x \in Slot : itable'[x].lock = LockAfter(itable, s, x)
        /\ dir' = WithEntry(d, n, i)
        /\ \A j \in Inum : dinode'[j].type = dinode[j].type
        /\ dinode'[d].nlink = dinode[d].nlink + up /\ \A j \in Inum \ {d} : dinode'[j] = dinode[j]
        /\ lost' = LostBy(d, i, up)
    <2>1. itable \in Table /\ itable[s].d = dinode[d]
      BY <1>3, <1>7, InUse DEF IInv, CacheInv
    <2>2. PICK t \in Table : t = itable
      BY <2>1
    <2>3. n \in Name /\ \A x \in Slot : t[x].inum = itable[x].inum
      BY <1>8, <2>2
    <2>4. Dirlink(t, s, n, i, up) /\ t[s].d = dinode[d]
      BY <2>1, <2>2
    <2>5. /\ InumsKept /\ \A x \in Slot : itable'[x].lock = LockAfter(t, s, x)
          /\ dir' = WithEntry(d, n, i)
          /\ \A j \in Inum : dinode'[j].type = dinode[j].type
          /\ dinode'[d].nlink = dinode[d].nlink + up /\ \A j \in Inum \ {d} : dinode'[j] = dinode[j]
          /\ lost' = LostBy(d, i, up)
      BY <1>7, <2>3, <2>4, Linked
    <2> QED
      BY <2>2, <2>5
  <1>10. /\ Ref(p, "ip")' = Ref(p, "ip") /\ Ref(p, "dp")' = 0 /\ Ref(p, "put2")' = 0
         /\ Ref(p, "put1")' = Ref(p, "dp") /\ Ref(p, "tgt")' = Ref(p, "tgt") /\ Ref(p, "cwd")' = Ref(p, "cwd")
    BY <1>1, <1>3, <1>6 DEF Ref, Held1, At, files
  <1>11. /\ In(p, "ip")' = i /\ In(p, "dp")' = 0 /\ In(p, "put2")' = 0
         /\ In(p, "put1")' = d /\ In(p, "tgt")' = In(p, "tgt") /\ In(p, "cwd")' = In(p, "cwd") /\ In(p, "tgt") = 0
    <2>1. In(p, "tgt") = 0
      BY <1>2 DEF In, Ref, Held1
    <2> QED
      BY <1>3, <1>7, <1>9, <1>10, <2>1, InAfter DEF LocalVar
  <1>12. \A u \in LocalVar : In(p, u)' = 0 \/ AtHand(p, In(p, u)')
    BY <1>3, <1>7, <1>11, StillAtHand DEF LocalVar
  <1>13. Eff(th'[p]) = w /\ w \in Elsewhere \ Owing
    BY <1>6 DEF Eff, Elsewhere, Where, HasIp, Looking, Making, Owing
  <1>14. LocksKept(p)
    <2>1. \A x \in Slot : itable[x].lock = p => KeepsLocked(th[p], x)
      BY <1>2 DEF TInv, Locking
    <2>2. \A x \in Slot \ {s} : KeepsLocked(th[p], x) => KeepsLocked(th'[p], x)
      BY <1>6, <1>13 DEF KeepsLocked, Keeping
    <2> QED
      BY <1>9, <2>1, <2>2, Sizes DEF LocksKept, LockAfter
  <1>15. OthersWait(p) /\ FilesKept
    BY <1>5 DEF OthersWait, FilesKept, files
  <1>16. /\ dinode[i].type = (IF up = 1 THEN "dir" ELSE "file") /\ dinode[i].nlink = 1 /\ IsDirEmpty(i) /\ i \notin lost
         /\ up = 1 => dir[i]["."] = i /\ dir[i][".."] = d
    BY <1>2, <1>3, <1>7, <1>8 DEF Stands, Makes, Making, New
  <1>17. i # d
    <2>1. Claims(p, i) /\ ClaimVar(p) = "ip"
      BY <1>1, <1>2, <1>3 DEF Claims, Making, New, ClaimVar, Freeing
    <2>2. \A v \in LocalVar : In(p, v) = i => v = "ip"
      BY <2>1 DEF TInv, Exclusive
    <2> QED
      BY <1>3, <1>7, <2>2 DEF LocalVar
  <1>18. \A j \in Inum : (Owes(p, j) <=> j = i) /\ ~Owes(p, j)'
    <2>1. 0 \notin Inum
      BY Sizes DEF Inum
    <2> QED
      BY <1>2, <1>3, <1>11, <1>13, <2>1 DEF Owes, Owing
  <1>19. Names(i) = {} /\ i # ROOTINO
    <2>1. p \in Owers(i)
      BY <1>18 DEF Owers
    <2>2. Cardinality(Owers(i)) >= 1 /\ Cardinality(Owers(i)) \in Nat /\ Cardinality(Names(i)) \in Nat
      BY <2>1, LinkSets
    <2>3. Cardinality(Names(i)) = 0 /\ i # ROOTINO
      BY <1>16, <2>2, LinkCounts, LinkSets
    <2> QED
      BY <2>3, LinkSets
  <1>20. Owers(d) = {}
    <2>1. ~Owes(p, d) /\ IsDir(d)
      BY <1>8, <1>17, <1>18 DEF Folder
    <2> QED
      BY <1>3, <1>7, <2>1, NobodyOwes DEF LocalVar
  <1>21. Tree'
    <2>1. \A q \in Proc \ {p}, j \in Inum : Owes(q, j)' <=> Owes(q, j)
      BY <1>5, <1>9, InOthers DEF files
    <2>2. Cardinality(Owers(i)') = Cardinality(Owers(i)) - 1 /\ \A j \in Inum \ {i} : Owers(j)' = Owers(j)
      BY <1>18, <2>1, OwesLess
    <2>3. up = 1 <=> IsDir(i)
      BY <1>16 DEF IsDir
    <2>4. dinode[i].type # "none"
      BY <1>16
    <2> QED
      BY <1>8, <1>9, <1>16, <1>17, <1>19, <1>20, <2>2, <2>3, <2>4, AddTree
  <1>22. n \notin Dots /\ \A j \in Inum : \A m \in Dots : dir'[j][m] = dir[j][m]
    BY <1>8, <1>9, DirTypes DEF IInv, TypeOK, WithEntry
  <1>23. Touches(p)
    <2>1. NotLocked(p, d)
      BY <1>2, <1>3, <1>7, MayWrite DEF LocalVar
    <2>2. Unclaimed(p, i)
      BY <1>3, HadAtHand, DirTypes DEF AtHand, LocalVar
    <2>3. \A j \in Inum \ {d} : dir'[j] = dir[j]
      BY <1>9 DEF IInv, TypeOK, WithEntry
    <2>4. \A j \in Inum \ {d, i} : Same(j)
      BY <1>9, <2>3 DEF Same, LostBy, Given
    <2> QED
      BY <1>9, <1>17, <1>22, <2>1, <2>2, <2>3, <2>4 DEF Touches
  <1> QED
    BY <1>6, <1>9, <1>11, <1>12, <1>13, <1>14, <1>15, <1>21, <1>22, <1>23, WritesStep

\* create() links the inode.
LEMMA CreateLinkTree ==
  ASSUME IInv, TInv, NEW p \in Proc, CreateLink(p)
  PROVE  TInv'
  <1>1. At(p, "createlink") /\ UNCHANGED <<files, ncalls>>
    BY DEF CreateLink
  <1>2. th[p].at = "createlink" /\ th[p].at \notin Putting
    BY <1>1 DEF At, Putting
  <1>3. PICK s, i, n : s = th[p].dp /\ i = itable[th[p].ip].inum /\ n = LastOf(th[p].path)
    OBVIOUS
  <1>4. s \in Slot /\ i \in Inum
    BY <1>2, <1>3, Standing, InUse DEF HasIp, HasDp
  <1>5. PICK up \in {0, 1} : up = IF IsMkdir(p) THEN 1 ELSE 0
    OBVIOUS
  <1>6. PICK w \in {"dropip", "openfile"} : w = IF IsMkdir(p) THEN "dropip" ELSE "openfile"
    OBVIOUS
  <1>7. \/ Go(p, [at |-> "createfail"]) /\ UNCHANGED <<disk, itable, lost>>
        \/ Dirlink(itable, s, n, i, up) /\ PutThen(p, <<s>>, w, [dp |-> 0])
    BY <1>3, <1>5, <1>6 DEF CreateLink
  <1>8. CASE Go(p, [at |-> "createfail"]) /\ UNCHANGED <<disk, itable, lost>>
    BY <1>1, <1>8, CreateLinkFullTree
  <1>9. CASE Dirlink(itable, s, n, i, up) /\ PutThen(p, <<s>>, w, [dp |-> 0])
    BY <1>1, <1>3, <1>4, <1>5, <1>9, NewNameTree
  <1> QED
    BY <1>7, <1>8, <1>9

\* The new name of link() is written.
LEMMA LinkNameTree ==
  ASSUME IInv, TInv, NEW p \in Proc, Locks(p, "linkdp"), Found(p) = 0, NEW s, s = th[p].ip, NEW t, t = Ilock(p, s),
         NEW n, n = LastOf(th[p].path), NEW i, i = itable[th[p].tgt].inum, NEW up \in {0, 1}, up = 0, Dirlink(t, s, n, i, up),
         PutThen(p, <<s, th[p].tgt>>, "endop", [ip |-> 0, tgt |-> 0]), UNCHANGED <<files, ncalls>>
  PROVE  TInv'
  <1>1. /\ th[p].at = "linkdp" /\ th[p].puts = <<>> /\ Eff(th[p]) = "linkdp" /\ CanLock(s) /\ s \in Slot /\ itable[s].ref > 0
        /\ In(p, "ip") \in Inum /\ AtHand(p, In(p, "ip")) /\ Stands(p) /\ 0 \notin Slot /\ Ref(p, "ip") = s
        /\ Continues(th[p]) /\ In(p, "ip") = itable[s].inum /\ Loaded(s) = dinode[In(p, "ip")] /\ itable[s].lock = None
        /\ \A x \in Slot : KeepsLocked(th[p], x) => "linkdp" \in HasDp
        /\ \A x \in Slot : itable[x].lock = p => KeepsLocked(th[p], x)
    BY Here DEF Looking
  <1>2. th[p].dp = 0 /\ th[p].tgt # 0 /\ th[p].tgt \in Slot /\ itable[th[p].tgt].ref > 0
    <2>1. th[p].at \notin Putting
      BY <1>1 DEF Putting
    <2>2. th[p].dp = 0 /\ th[p].tgt # 0
      BY <1>1, <2>1, Standing DEF HasDp, Continues
    <2> QED
      BY <2>2, InUse
  <1>3. PICK r : r = [ip |-> 0, tgt |-> 0] \oplus [at |-> "iput", puts |-> <<s, th[p].tgt>>, then |-> "endop"]
    OBVIOUS
  <1>4. th'[p] = r \oplus th[p] /\ (\A q \in Proc \ {p} : th'[q] = th[q]) /\ th[p] = [f \in Fields |-> th[p][f]]
    BY <1>3, Goes DEF IInv, PutThen
  <1>5. /\ th'[p].at = "iput" /\ th'[p].puts = <<s, th[p].tgt>> /\ th'[p].then = "endop" /\ th'[p].ip = 0
        /\ th'[p].dp = 0 /\ th'[p].tgt = 0
    BY <1>2, <1>3, <1>4 DEF \oplus, Fields
  <1>6. PICK d \in Inum : d = In(p, "ip")
    BY <1>1
  <1>7. Folder(d) /\ n \in Name \ Dots /\ dir[d][n] = 0
    <2>1. Folder(d)
      BY <1>1, <1>6 DEF Folder, Stands, Seeks, Looking
    <2>2. dir[d][n] = 0 /\ n \in Name
      BY <1>1, <1>6, SoughtIsName DEF Found, Naming
    <2>3. n \notin Dots
      BY <2>1, <2>2, DirTypes DEF Folder, Dotted, Dots
    <2> QED
      BY <2>1, <2>2, <2>3
  <1>8. Ref(p, "tgt") = th[p].tgt /\ In(p, "tgt") = i /\ i \in Inum
    <2>1. Ref(p, "tgt") = th[p].tgt
      BY DEF Ref, Held1
    <2>2. i \in Inum
      BY <1>2, InUse
    <2> QED
      BY <1>2, <2>1, <2>2 DEF In, Ino
  <1>9. /\ InumsKept /\ \A x \in Slot : itable'[x].lock = LockAfter(t, s, x)
        /\ dir' = WithEntry(d, n, i)
        /\ \A j \in Inum : dinode'[j].type = dinode[j].type
        /\ dinode'[d].nlink = dinode[d].nlink + up /\ \A j \in Inum \ {d} : dinode'[j] = dinode[j]
        /\ lost' = LostBy(d, i, up)
    <2>1. Like(t, s) /\ t[s].d = Loaded(s)
      BY <1>1, Entered
    <2>2. t \in Table /\ (\A x \in Slot : t[x].inum = itable[x].inum) /\ t[s].d = dinode[d] /\ d = itable[s].inum
      BY <1>1, <1>6, <2>1 DEF Like
    <2> QED
      BY <1>1, <1>7, <1>8, <2>2, Linked
  <1>10. /\ Ref(p, "ip")' = 0 /\ Ref(p, "dp")' = 0 /\ Ref(p, "put2")' = Ref(p, "tgt")
         /\ Ref(p, "put1")' = Ref(p, "ip") /\ Ref(p, "tgt")' = 0 /\ Ref(p, "cwd")' = Ref(p, "cwd")
    BY <1>1, <1>5, <1>8 DEF Ref, Held1, At, files
  <1>11. /\ In(p, "ip")' = 0 /\ In(p, "dp")' = 0 /\ In(p, "put2")' = i
         /\ In(p, "put1")' = d /\ In(p, "tgt")' = 0 /\ In(p, "cwd")' = In(p, "cwd")
    BY <1>6, <1>8, <1>9, <1>10, InAfter DEF LocalVar
  <1>12. \A u \in LocalVar : In(p, u)' = 0 \/ AtHand(p, In(p, u)')
    BY <1>6, <1>8, <1>11, StillAtHand DEF LocalVar
  <1>13. Eff(th'[p]) = "endop" /\ "endop" \in Elsewhere \ Owing
    BY <1>5 DEF Eff, Elsewhere, Where, HasIp, Looking, Making, Owing
  <1>14. LocksKept(p)
    <2>1. \A x \in Slot \ {s} : t[x] = itable[x]
      BY <1>1, Entered DEF Like
    <2> QED
      BY <1>1, <1>9, <2>1, Sizes DEF LocksKept, LockAfter, HasDp
  <1>15. OthersWait(p) /\ FilesKept
    BY <1>4 DEF OthersWait, FilesKept, files
  <1>16. dinode[i].type = "file" /\ i # d /\ 0 \notin Inum
    <2>1. dinode[i].type = "file"
      BY <1>1, <1>8, DirTypes DEF Stands, Homes
    <2> QED
      BY <1>7, <2>1, DirTypes DEF Folder, IsDir
  <1>17. \A j \in Inum : (Owes(p, j) <=> j = i) /\ ~Owes(p, j)'
    BY <1>1, <1>8, <1>11, <1>13, <1>16 DEF Owes, Owing
  <1>18. Tree'
    <2>1. \A q \in Proc \ {p}, j \in Inum : Owes(q, j)' <=> Owes(q, j)
      BY <1>4, <1>9, InOthers DEF files
    <2>2. Cardinality(Owers(i)') = Cardinality(Owers(i)) - 1 /\ \A j \in Inum \ {i} : Owers(j)' = Owers(j)
      BY <1>8, <1>17, <2>1, OwesLess
    <2>3. (up = 1 <=> IsDir(i)) /\ ~IsDir(i)
      BY <1>16 DEF IsDir
    <2>4. dinode[i].type # "none"
      BY <1>16
    <2> QED
      BY <1>7, <1>8, <1>9, <1>16, <2>2, <2>3, <2>4, AddTree
  <1>19. n \notin Dots /\ \A j \in Inum : \A m \in Dots : dir'[j][m] = dir[j][m]
    BY <1>7, <1>9, DirTypes DEF IInv, TypeOK, WithEntry
  <1>20. Touches(p)
    <2>1. NotLocked(p, d)
      BY <1>1, <1>6, MayWrite DEF LocalVar
    <2>2. Unclaimed(p, i)
      BY <1>8, <1>16, HadAtHand DEF AtHand, LocalVar
    <2>3. \A j \in Inum \ {d} : dir'[j] = dir[j]
      BY <1>9 DEF IInv, TypeOK, WithEntry
    <2>4. \A j \in Inum \ {d, i} : Same(j)
      BY <1>9, <2>3 DEF Same, LostBy, Given
    <2> QED
      BY <1>8, <1>9, <1>16, <1>19, <2>1, <2>2, <2>3, <2>4 DEF Touches
  <1> QED
    BY <1>5, <1>9, <1>11, <1>12, <1>13, <1>14, <1>15, <1>18, <1>19, <1>20, WritesStep

\* The directory of the new name of link().
LEMMA LinkDpTree ==
  ASSUME IInv, TInv, NEW p \in Proc, LinkDp(p), StaysInTree
  PROVE  TInv'
  <1>1. PICK s, t, i, n, j : s = th[p].ip /\ t = Ilock(p, s) /\ i = Found(p) /\ n = LastOf(th[p].path) /\ j = itable[th[p].tgt].inum
    OBVIOUS
  <1>2. UNCHANGED <<files, ncalls>> /\ Locks(p, "linkdp")
    BY DEF LinkDp
  <1>3. th[p].at = "linkdp" /\ th[p].puts = <<>> /\ CanLock(s) /\ s \in Slot
    BY <1>1, <1>2, Here DEF Looking
  <1>4. ASSUME GiveUp(p, s, "linkbad"), UNCHANGED <<disk, lost>>
        PROVE  TInv'
    BY <1>1, <1>2, <1>3, <1>4, GiveUpTree DEF Looking, HasDp
  <1>5. ASSUME i # 0, HasEntry(t, i), itable' = Iget(t, i), PutThen(p, <<EntryFor(t, i)>>, "dropdp", [dp |-> s, ip |-> 0]),
               UNCHANGED <<disk, lost>>
        PROVE  TInv'
    <2>1. PICK e, r : e = EntryFor(t, i) /\ r = [dp |-> s, ip |-> 0] \oplus [at |-> "iput", puts |-> <<e>>, then |-> "dropdp"]
      OBVIOUS
    <2>2. th'[p] = r \oplus th[p] /\ th[p] = [f \in Fields |-> th[p][f]]
      BY <1>5, <2>1, Goes DEF IInv, PutThen
    <2>3. th'[p].at = "iput"
      BY <2>1, <2>2 DEF \oplus, Fields
    <2>4. LastOf(th[p].path) = ".." => In(p, "ip") = ROOTINO \/ Names(In(p, "ip")) # {}
      <3>1. th'[p] # th[p]
        BY <1>3, <2>3
      <3> QED
        BY <1>3, <3>1 DEF StaysInTree, Sought, At
    <2>5. Good(p, i) /\ i \in Inum
      BY <1>1, <1>2, <1>5, <2>4, FoundIsGood
    <2> QED
      BY <1>1, <1>2, <1>5, <2>1, <2>5, LinkFoundTree
  <1>6. PICK up \in {0, 1} : up = 0
    OBVIOUS
  <1>7. ASSUME i = 0, Dirlink(t, s, n, j, up), PutThen(p, <<s, th[p].tgt>>, "endop", [ip |-> 0, tgt |-> 0])
        PROVE  TInv'
    BY <1>1, <1>2, <1>6, <1>7, LinkNameTree
  <1> QED
    BY <1>1, <1>4, <1>5, <1>6, <1>7 DEF LinkDp
-----------------------------------------------------------------------------
(* The inode of create() *)

\* A directory gets its dots; its other entries stay.
WithDots(i, d) == [dir EXCEPT ![i]["."] = i, ![i][".."] = d]

\* The entries of a new directory.
LEMMA DotsMade ==
  ASSUME IInv, NEW i \in Inum, NEW d \in Inum, dir' = WithDots(i, d)
  PROVE  /\ dir'[i]["."] = i /\ dir'[i][".."] = d /\ \A n \in Name \ Dots : dir'[i][n] = dir[i][n]
         /\ \A j \in Inum \ {i} : dir'[j] = dir[j]
  <1>1. dir \in [Inum -> [Name -> 0 .. NINODES]] /\ "." \in Name /\ ".." \in Name
    BY DirTypes DEF IInv, TypeOK
  <1>2. \A n \in Name \ Dots : n # "." /\ n # ".."
    BY DEF Dots
  <1> QED
    BY <1>1, <1>2 DEF WithDots

\* A directory without blocks gets one, or there is none.
LEMMA FirstBlock ==
  ASSUME IInv, NEW i \in Inum, NEW d \in Inode, d.addrs = {}
  PROVE  NewBlocks(i, d) # {}
  <1>1. PICK S, m : S = {n \in Name : dir[i][n] # 0} /\ m = Cardinality(S)
    OBVIOUS
  <1>2. IsFiniteSet(S) /\ m \in Nat
    BY <1>1, FileSystemAssumption, FS_Subset, FS_CardinalityType
  <1>3. Cardinality(d.addrs) = 0
    BY FS_EmptySet
  <1>4. PerBlock * Cardinality(d.addrs) = 0
    BY <1>3, FileSystemAssumption
  <1>5. ~HasRoom(i, d)
    BY <1>1, <1>2, <1>4 DEF HasRoom, Entries
  <1> QED
    BY <1>5 DEF NewBlocks

\* The inode of create() gets its link, and the dots if it is a directory that finds a block.
LEMMA CreateIpTree ==
  ASSUME IInv, TInv, NEW p \in Proc, CreateIp(p)
  PROVE  TInv'
  <1>1. PICK s, t, i, d, b, fails, new, e :
          /\ s = th[p].ip /\ t = Ilock(p, s) /\ i = itable[s].inum /\ d = [Loaded(s) EXCEPT !.nlink = 1]
          /\ b = itable[th[p].dp].inum
          /\ fails = (IsMkdir(p) /\ NoSpace(i, d))
          /\ new = (IF IsMkdir(p) /\ ~fails THEN NewBlocks(i, d) ELSE {}) /\ e = WithBlocks(d, new)
    BY Zenon
  <1>2. PICK w \in {"createfail", "createlink"} : w = IF fails THEN "createfail" ELSE "createlink"
    OBVIOUS
  <1>3. /\ Locks(p, "createip") /\ Iupdate(t, s, e)
        /\ dir' = (IF new = {} THEN dir ELSE [dir EXCEPT ![i]["."] = i, ![i][".."] = b])
        /\ Go(p, [at |-> w]) /\ UNCHANGED <<files, ncalls, lost>>
    BY <1>1, <1>2, Zenon DEF CreateIp
  <1>4. /\ th[p].at = "createip" /\ th[p].puts = <<>> /\ Eff(th[p]) = "createip" /\ CanLock(s) /\ s \in Slot /\ itable[s].ref > 0
        /\ Continues(th[p]) /\ itable[s].lock = None /\ 0 \notin Slot /\ Ref(p, "ip") = s /\ In(p, "ip") = i /\ i \in Inum
        /\ Loaded(s) = dinode[i] /\ Held1(p, "put1") = 0 /\ Held1(p, "put2") = 0
        /\ \A x \in Slot : itable[x].lock = p => KeepsLocked(th[p], x)
        /\ \A x \in Slot : KeepsLocked(th[p], x) => x = th[p].dp
        /\ Stands(p)
    BY <1>1, <1>3, Here, Zenon
  <1>5. th[p].tgt = 0 /\ th[p].at \notin Putting /\ In(p, "dp") = b /\ b \in Inum /\ 0 \notin Inum
    <2>1. th[p].at \notin Putting
      BY <1>4 DEF Putting
    <2>2. th[p].tgt = 0
      BY <1>4, <2>1, Standing DEF Continues, Linking
    <2>3. In(p, "dp") = b /\ b \in Inum
      BY <1>1, <1>4, Stood, Zenon DEF HasDp, Ino
    <2> QED
      BY <2>1, <2>2, <2>3, Sizes DEF Inum
  <1>6. New(p) = i /\ Claims(p, i) /\ ClaimVar(p) = "ip"
    BY <1>4 DEF New, Claims, Making, ClaimVar, Freeing
  <1>7. Alone(p, i) /\ \A v \in LocalVar : In(p, v) = i => v = "ip"
    BY <1>4, <1>6 DEF TInv, Exclusive
  <1>8. /\ dinode[i].type = (IF IsMkdir(p) THEN "dir" ELSE "file") /\ dinode[i].nlink = 0 /\ dinode[i].addrs = {}
        /\ IsDirEmpty(i) /\ i \notin lost /\ dinode[i] \in Inode
    BY <1>4, <1>6 DEF Stands, Makes, Making, IInv, TypeOK
  <1>9. d \in Inode /\ d.type = dinode[i].type /\ d.nlink = 1 /\ d.addrs = {} /\ e.type = dinode[i].type /\ e.nlink = 1
    <2>1. d = [dinode[i] EXCEPT !.nlink = 1] /\ e = [d EXCEPT !.addrs = d.addrs \cup new]
      BY <1>1, <1>4, Zenon DEF WithBlocks
    <2>2. dinode[i] = [type |-> dinode[i].type, nlink |-> dinode[i].nlink, addrs |-> dinode[i].addrs]
      BY <1>8 DEF Inode
    <2>3. d = [type |-> dinode[i].type, nlink |-> 1, addrs |-> {}]
      BY <1>8, <2>1, <2>2
    <2>4. d \in Inode
      BY <1>8, <2>3 DEF Inode
    <2> QED
      BY <2>1, <2>3, <2>4
  <1>10. new # {} => IsMkdir(p)
    BY <1>1
  <1>11. w = "createlink" /\ IsMkdir(p) => new # {}
    BY <1>1, <1>2, <1>4, <1>9, FirstBlock, Zenon
  <1>12. /\ \A n \in Name \ Dots : dir'[i][n] = dir[i][n]
         /\ \A j \in Inum \ {i} : dir'[j] = dir[j]
         /\ new = {} => dir' = dir
         /\ new # {} => dir'[i]["."] = i /\ dir'[i][".."] = b
    <2>1. CASE new = {}
      BY <1>3, <2>1
    <2>2. CASE new # {}
      <3>1. dir' = WithDots(i, b)
        BY <1>3, <2>2 DEF WithDots
      <3> QED
        BY <1>4, <1>5, <2>2, <3>1, DotsMade
    <2> QED
      BY <2>1, <2>2
  <1>13. /\ InumsKept /\ \A x \in Slot : itable'[x].lock = t[x].lock
         /\ dinode'[i] = e /\ \A j \in Inum \ {i} : dinode'[j] = dinode[j]
         /\ t[s].lock = p /\ \A x \in Slot \ {s} : t[x].lock = itable[x].lock
    <2>1. Like(t, s) /\ t[s].lock = p
      <3>1. s \in Slot /\ CanLock(s) /\ itable[s].ref > 0 /\ t = Ilock(p, s)
        BY <1>1, <1>4, Zenon
      <3> QED
        BY <3>1, Entered
    <2>2. t \in Table /\ (\A x \in Slot : t[x].inum = itable[x].inum) /\ i = itable[s].inum
          /\ \A x \in Slot \ {s} : t[x].lock = itable[x].lock
      BY <1>1, <2>1 DEF Like
    <2>3. /\ InumsKept /\ \A x \in Slot : itable'[x].lock = t[x].lock
          /\ dinode'[i] = e /\ \A j \in Inum \ {i} : dinode'[j] = dinode[j]
      <3>1. t \in Table /\ s \in Slot /\ Iupdate(t, s, e) /\ \A x \in Slot : t[x].inum = itable[x].inum
        BY <1>3, <1>4, <2>2
      <3>2. PICK u \in Table : u = t
        BY <3>1
      <3>3. Iupdate(u, s, e) /\ \A x \in Slot : u[x].inum = itable[x].inum
        BY <3>1, <3>2
      <3>4. /\ InumsKept /\ \A x \in Slot : itable'[x].lock = u[x].lock
            /\ dinode'[itable[s].inum] = e /\ \A j \in Inum \ {itable[s].inum} : dinode'[j] = dinode[j]
        BY <3>1, <3>3, Updated
      <3> QED
        BY <2>2, <3>2, <3>4
    <2> QED
      BY <2>1, <2>2, <2>3
  <1>14. PICK r : r = [at |-> w]
    OBVIOUS
  <1>15. th'[p] = r \oplus th[p] /\ (\A q \in Proc \ {p} : th'[q] = th[q]) /\ th[p] = [f \in Fields |-> th[p][f]]
    BY <1>3, <1>14, Goes DEF IInv
  <1>16. /\ th'[p].at = w /\ th'[p].puts = <<>> /\ th'[p].ip = th[p].ip /\ th'[p].dp = th[p].dp /\ th'[p].tgt = th[p].tgt
         /\ th'[p].path = th[p].path /\ th'[p].call = th[p].call
    BY <1>4, <1>14, <1>15 DEF \oplus, Fields
  <1>17. Eff(th'[p]) = w /\ ~Freeing(p)'
    BY <1>16 DEF Eff, Freeing
  <1>18. \A v \in LocalVar : In(p, v)' = In(p, v)
    <2>1. \A v \in LocalVar : Ref(p, v)' = Ref(p, v)
      BY <1>3, <1>4, <1>16 DEF Ref, Held1, At, LocalVar, files
    <2> QED
      BY <1>13, <2>1, InAfter
  <1>19. In(p, "ip")' = i /\ In(p, "dp")' = b /\ In(p, "tgt")' = In(p, "tgt") /\ In(p, "cwd")' = In(p, "cwd") /\ In(p, "tgt") = 0
         /\ b # i /\ In(p, "cwd") # i
    <2>1. In(p, "tgt") = 0
      BY <1>5 DEF In, Ref, Held1
    <2> QED
      BY <1>4, <1>5, <1>7, <1>18, <2>1 DEF LocalVar
  <1>20. New(p)' = i /\ ClaimVar(p)' = "ip" /\ \A j : Claims(p, j)' => j = i
    BY <1>17, <1>19 DEF New, ClaimVar, Claims
  <1>21. Moves(p)
    <2>1. \A j \in Inum : dinode'[j].type = dinode[j].type
      BY <1>9, <1>13
    <2>2. \A v \in LocalVar : In(p, v)' # 0 => Unclaimed(p, In(p, v)') /\ dinode'[In(p, v)'].type # "none"
      BY <1>18, <2>1, HadAtHand DEF AtHand
    <2>3. \A f \in File : ftable'[f].ref > 0 => ftable[f].ref > 0 /\ ftable'[f].ip = ftable[f].ip
      BY <1>3 DEF files
    <2>4. \A x \in Slot : /\ itable'[x].lock \in {itable[x].lock, None, p}
                          /\ itable'[x].lock = p => KeepsLocked(th'[p], x) \/ Frees(th'[p], x)
      <3>1. KeepsLocked(th'[p], s)
        BY <1>1, <1>16, <1>17 DEF KeepsLocked, Keeping
      <3>2. \A x \in Slot : x = th[p].dp => KeepsLocked(th'[p], x)
        BY <1>16, <1>17 DEF KeepsLocked, HasDp
      <3> QED
        BY <1>4, <1>13, <3>1, <3>2
    <2>5. \A j \in Inum : Claims(p, j)' => Alone(p, j) /\ \A v \in LocalVar : In(p, v)' = j => v = ClaimVar(p)'
      BY <1>7, <1>18, <1>20
    <2>6. cwd' = cwd
      BY <1>3 DEF files
    <2> QED
      BY <1>13, <1>15, <2>2, <2>3, <2>4, <2>5, <2>6 DEF Moves
  <1>22. Touches(p)
    <2>1. NotTheirs(p, i)
      BY <1>7 DEF NotTheirs, Unclaimed, Alone
    <2>2. \A j \in Inum \ {i} : Same(j)
      BY <1>3, <1>12, <1>13 DEF Same
    <2> QED
      BY <2>1, <2>2 DEF Touches
  <1>23. Tree'
    <2>1. \A q \in Proc \ {p}, j \in Inum : Owes(q, j)' <=> Owes(q, j)
      BY <1>3, <1>13, <1>15, InOthers DEF files
    <2>2. \A j \in Inum : (Owes(p, j)' <=> j = i) /\ ~Owes(p, j)
      BY <1>4, <1>5, <1>17, <1>19 DEF Owes, Owing
    <2>3. Cardinality(Owers(i)') = Cardinality(Owers(i)) + 1 /\ \A j \in Inum \ {i} : Owers(j)' = Owers(j)
      BY <1>4, <2>1, <2>2, OwesMore
    <2>4. PICK k \in {-1, 1} : k = 1
      OBVIOUS
    <2>5. Names(i) = {} /\ i # ROOTINO
      BY <1>4, <1>8, LinkCounts
    <2>6. dir'[i] = dir[i] \/ (IsDir(i) /\ Names(i) = {} /\ i # ROOTINO)
      BY <1>8, <1>10, <1>12, <2>5 DEF IsDir
    <2>7. Cardinality(Owers(i)') = Cardinality(Owers(i)) + k /\ dinode'[i].nlink = dinode[i].nlink + k
      BY <1>8, <1>9, <1>13, <2>3, <2>4
    <2>8. lost' = lost /\ dinode[i].type # "none" /\ (\A j \in Inum : dinode'[j].type = dinode[j].type)
          /\ (\A j \in Inum \ {i} : dinode'[j].nlink = dinode[j].nlink /\ dir'[j] = dir[j]) /\ (IsDir(i) => IsDirEmpty(i))
      BY <1>3, <1>8, <1>9, <1>12, <1>13
    <2> QED
      BY <1>4, <1>12, <2>3, <2>6, <2>7, <2>8, NlinkTree
  <1>24. Stands(p)'
    <2>1. Homes(p)'
      <3>1. Homes(p)
        BY <1>4 DEF Stands
      <3>2. \A j \in Inum \ {i} : Folder(j) => Folder(j)'
        BY <1>12, <1>13 DEF Folder, IsDir, Dotted
      <3>3. In(p, "cwd") # 0 => In(p, "cwd") \in Inum \ {i} /\ Folder(In(p, "cwd"))
        BY <1>19, <3>1, Stood DEF Homes, LocalVar
      <3>4. b \in Inum \ {i} /\ Folder(b)
        BY <1>5, <1>19, <3>1 DEF Homes
      <3>5. (In(p, "cwd")' # 0 => Folder(In(p, "cwd"))') /\ (In(p, "dp")' # 0 => Folder(In(p, "dp"))')
        BY <1>19, <3>2, <3>3, <3>4 DEF Folder, IsDir, Dotted
      <3> QED
        BY <1>19, <3>5 DEF Homes
    <2>2. Seeks(p)' /\ Unlinks(p)' /\ Lets(p)'
      BY <1>17 DEF Seeks, Unlinks, Lets, Looking
    <2>3. Makes(p)'
      <3>1. LastOf(th[p].path) \notin Dots /\ dir[b][LastOf(th[p].path)] = 0
        BY <1>4, <1>5 DEF Stands, Makes
      <3>2. LastOf(th'[p].path) \notin Dots /\ dir'[In(p, "dp")'][LastOf(th'[p].path)] = 0
        BY <1>5, <1>12, <1>16, <1>19, <3>1
      <3>3. /\ th'[p].puts = <<>> /\ New(p)' \in Inum
            /\ dinode'[New(p)'].type = (IF IsMkdir(p)' THEN "dir" ELSE "file")
            /\ dinode'[New(p)'].nlink = 1 /\ IsDirEmpty(New(p))' /\ New(p)' \notin lost'
        BY <1>3, <1>4, <1>8, <1>9, <1>12, <1>13, <1>16, <1>20 DEF IsMkdir, IsDirEmpty
      <3>4. w = "createlink" /\ IsMkdir(p)' => dir'[New(p)']["."] = New(p)' /\ dir'[New(p)'][".."] = In(p, "dp")'
        BY <1>11, <1>12, <1>16, <1>19, <1>20 DEF IsMkdir
      <3> QED
        BY <1>2, <1>17, <3>2, <3>3, <3>4 DEF Makes
    <2> QED
      BY <2>1, <2>2, <2>3 DEF Stands
  <1> QED
    BY <1>21, <1>22, <1>23, <1>24, Combined
-----------------------------------------------------------------------------
(* unlink() *)

\* A name is written to a directory.
LEMMA EntryWritten ==
  ASSUME IInv, NEW d \in Inum, NEW n \in Name, NEW i, dir' = WithEntry(d, n, i)
  PROVE  dir'[d][n] = i /\ (\A m \in Name \ {n} : dir'[d][m] = dir[d][m]) /\ \A j \in Inum \ {d} : dir'[j] = dir[j]
  BY DEF IInv, TypeOK, WithEntry

\* The name goes, and the directory is let go.
LEMMA UnlinkNameTree ==
  ASSUME IInv, TInv, NEW p \in Proc, Locks(p, "unlinkip"), NEW s, s = th[p].ip, NEW x, x = th[p].dp,
         ~(Loaded(s).type = "dir" /\ ~IsDirEmpty(itable[s].inum)), NEW t, t = Unlock(Ilock(p, s), x),
         NEW n, n = LastOf(th[p].path), dir' = WithEntry(itable[x].inum, n, 0),
         NEW down \in {0, 1}, down = 1 <=> Loaded(s).type = "dir",
         NEW c, c.type = itable[x].d.type, c.nlink = itable[x].d.nlink - down, Iupdate(t, x, c),
         PutThen(p, <<x>>, "unlinkdec", [dp |-> 0]), UNCHANGED <<used, files, ncalls, lost>>
  PROVE  TInv'
  <1>1. /\ th[p].at = "unlinkip" /\ th[p].puts = <<>> /\ Eff(th[p]) = "unlinkip" /\ CanLock(s) /\ s \in Slot /\ itable[s].ref > 0
        /\ In(p, "ip") \in Inum /\ AtHand(p, In(p, "ip")) /\ Stands(p) /\ 0 \notin Slot /\ Ref(p, "ip") = s
        /\ Continues(th[p]) /\ In(p, "ip") = itable[s].inum /\ Loaded(s) = dinode[In(p, "ip")] /\ itable[s].lock = None
        /\ \A y \in Slot : KeepsLocked(th[p], y) => y = x /\ y # s
        /\ \A y \in Slot : itable[y].lock = p => KeepsLocked(th[p], y)
    <2>1. PICK w \in Looking \cup {"createip"} : w = "unlinkip"
      BY DEF Looking
    <2>2. Locks(p, w)
      BY <2>1
    <2> QED
      BY <2>1, <2>2, Here
  <1>2. /\ Ref(p, "dp") = x /\ x \in Slot /\ itable[x].ref > 0 /\ In(p, "dp") = itable[x].inum /\ In(p, "dp") \in Inum
        /\ itable[x].lock = p /\ itable[x].valid /\ x # s
    <2>1. /\ Ref(p, "dp") = x /\ x \in Slot /\ itable[x].ref > 0 /\ In(p, "dp") = itable[x].inum /\ In(p, "dp") \in Inum
          /\ itable[x].lock = p /\ itable[x].valid
      BY <1>1, Stood, Zenon DEF HasDp, Ino
    <2> QED
      BY <1>1, <2>1, Sizes
  <1>3. PICK r : r = [dp |-> 0] \oplus [at |-> "iput", puts |-> <<x>>, then |-> "unlinkdec"]
    OBVIOUS
  <1>4. th'[p] = r \oplus th[p] /\ (\A q \in Proc \ {p} : th'[q] = th[q]) /\ th[p] = [f \in Fields |-> th[p][f]]
    BY <1>3, Goes DEF IInv, PutThen
  <1>5. /\ th'[p].at = "iput" /\ th'[p].puts = <<x>> /\ th'[p].then = "unlinkdec" /\ th'[p].ip = s
        /\ th'[p].dp = 0 /\ th'[p].tgt = th[p].tgt
    BY <1>3, <1>4 DEF \oplus, Fields
  <1>6. PICK d, i \in Inum : d = In(p, "dp") /\ i = In(p, "ip")
    BY <1>1, <1>2
  <1>7. Folder(d) /\ n \in Name \ Dots /\ dir[d][n] = i /\ 0 \notin Inum
    <2>1. Folder(d)
      BY <1>1, <1>6, DirTypes DEF Stands, Homes
    <2>2. dir[d][n] = i /\ n \notin Dots
      BY <1>1, <1>6 DEF Stands, Unlinks
    <2>3. n \in Name
      BY <1>1, SoughtIsName DEF Naming
    <2> QED
      BY <2>1, <2>2, <2>3, DirTypes
  <1>8. IsDir(i) => IsDirEmpty(i)
    BY <1>1, <1>6 DEF IsDir
  <1>9. down = 1 <=> IsDir(i)
    BY <1>1, <1>6 DEF IsDir
  <1>10. /\ t \in Table /\ \A y \in Slot : t[y].inum = itable[y].inum
         /\ t[x].lock = None /\ t[s].lock = p /\ \A y \in Slot \ {x, s} : t[y].lock = itable[y].lock
    <2>1. PICK u : u = Ilock(p, s)
      OBVIOUS
    <2>2. Like(u, s) /\ u[s].lock = p
      BY <1>1, <2>1, Entered
    <2>3. u \in Table /\ t = Unlock(u, x)
      BY <2>1, <2>2 DEF Like
    <2>4. But(u, t, x) /\ t[x].lock = None /\ t[x].inum = u[x].inum
      BY <1>2, <2>3, Unlocked
    <2>5. t \in Table /\ \A y \in Slot \ {x} : t[y] = u[y]
      BY <2>4 DEF But
    <2>6. /\ u \in Table /\ \A y \in Slot \ {s} : u[y] = itable[y]
          /\ \A y \in Slot : u[y].inum = itable[y].inum
      BY <2>2 DEF Like
    <2>7. t[x].lock = None /\ t[x].inum = itable[x].inum /\ t[s].lock = p
      BY <1>1, <1>2, <2>2, <2>4, <2>5, <2>6
    <2>8. \A y \in Slot \ {x} : t[y].inum = itable[y].inum
      BY <2>5, <2>6
    <2>9. \A y \in Slot \ {x, s} : t[y].lock = itable[y].lock
      BY <2>5, <2>6
    <2> QED
      BY <2>5, <2>7, <2>8, <2>9
  <1>11. /\ InumsKept /\ \A y \in Slot : itable'[y].lock = t[y].lock
         /\ dinode'[d] = c /\ \A j \in Inum \ {d} : dinode'[j] = dinode[j]
    BY <1>2, <1>6, <1>10, Updated
  <1>12. c.type = dinode[d].type /\ c.nlink = dinode[d].nlink - down
    <2>1. itable[x].d = dinode[d]
      BY <1>2, <1>6 DEF IInv, CacheInv
    <2> QED
      BY <2>1
  <1>13. /\ Ref(p, "ip")' = Ref(p, "ip") /\ Ref(p, "dp")' = 0 /\ Ref(p, "put2")' = 0
         /\ Ref(p, "put1")' = Ref(p, "dp") /\ Ref(p, "tgt")' = Ref(p, "tgt") /\ Ref(p, "cwd")' = Ref(p, "cwd")
    BY <1>1, <1>2, <1>5 DEF Ref, Held1, At, files
  <1>14. /\ In(p, "ip")' = i /\ In(p, "dp")' = 0 /\ In(p, "put2")' = 0
         /\ In(p, "put1")' = d /\ In(p, "tgt")' = In(p, "tgt") /\ In(p, "cwd")' = In(p, "cwd")
    BY <1>6, <1>11, <1>13, InAfter DEF LocalVar
  <1>15. \A u \in LocalVar : In(p, u)' = 0 \/ AtHand(p, In(p, u)')
    BY <1>6, <1>14, StillAtHand DEF LocalVar
  <1>16. Eff(th'[p]) = "unlinkdec" /\ "unlinkdec" \in Owing /\ th[p].tgt = 0
    <2>1. th[p].tgt = 0
      BY <1>1, Standing DEF Continues, Linking, Putting
    <2> QED
      BY <1>5, <2>1 DEF Eff, Owing
  <1>17. LocksKept(p)
    <2>1. KeepsLocked(th'[p], s)
      BY <1>5, <1>16 DEF KeepsLocked, Keeping
    <2>2. \A y \in Slot \ {x, s} : itable'[y].lock = itable[y].lock /\ itable[y].lock # p
      BY <1>1, <1>10, <1>11
    <2>3. itable'[x].lock = None /\ itable'[s].lock = p /\ None # p
      BY <1>1, <1>2, <1>10, <1>11, Sizes
    <2> QED
      BY <2>1, <2>2, <2>3 DEF LocksKept
  <1>18. OthersWait(p) /\ FilesKept
    BY <1>4 DEF OthersWait, FilesKept, files
  <1>19. In(p, "tgt") = 0 /\ \A j \in Inum : ~Owes(p, j) /\ (Owes(p, j)' <=> j = i)
    <2>1. In(p, "tgt") = 0
      BY <1>16 DEF In, Ref, Held1
    <2>2. "unlinkip" \notin Owing
      BY DEF Owing
    <2> QED
      BY <1>1, <1>6, <1>7, <1>14, <1>16, <2>1, <2>2 DEF Owes
  <1>20. \A j \in Inum : dinode'[j].type = dinode[j].type
    BY <1>11, <1>12
  <1>21. Tree'
    <2>1. \A q \in Proc \ {p}, j \in Inum : Owes(q, j)' <=> Owes(q, j)
      BY <1>4, <1>11, InOthers DEF files
    <2>2. Cardinality(Owers(i)') = Cardinality(Owers(i)) + 1 /\ \A j \in Inum \ {i} : Owers(j)' = Owers(j)
      BY <1>6, <1>19, <2>1, OwesMore
    <2>3. IsDir(d) /\ dir' = WithEntry(d, n, 0) /\ dinode'[d].nlink = dinode[d].nlink - down
          /\ \A j \in Inum \ {d} : dinode'[j].nlink = dinode[j].nlink
      BY <1>2, <1>6, <1>7, <1>11, <1>12 DEF Folder
    <2> QED
      BY <1>6, <1>7, <1>8, <1>9, <1>20, <2>2, <2>3, RemoveTree
  <1>22. /\ \A j \in Inum : \A m \in Name : dir'[j][m] \in {0, dir[j][m]}
         /\ \A j \in Inum : \A m \in Dots : dir'[j][m] = dir[j][m]
         /\ \A j \in Inum \ {d} : dir'[j] = dir[j]
    <2>1. PICK m \in Name : m = n
      BY <1>7
    <2>2. dir' = WithEntry(d, m, 0) /\ m \notin Dots
      BY <1>2, <1>6, <1>7, <2>1
    <2>3. dir'[d][m] = 0 /\ (\A k \in Name \ {m} : dir'[d][k] = dir[d][k]) /\ \A j \in Inum \ {d} : dir'[j] = dir[j]
      <3>1. d \in Inum /\ dir' = WithEntry(d, m, 0)
        BY <1>6, <2>2
      <3>2. dir \in [Inum -> [Name -> 0 .. NINODES]]
        BY DEF IInv, TypeOK
      <3>3. dir' = [dir EXCEPT ![d][m] = 0]
        BY <3>1 DEF WithEntry
      <3> QED
        BY <3>1, <3>2, <3>3, Zenon
    <2>4. \A k \in Name : dir'[d][k] \in {0, dir[d][k]}
      BY <2>3
    <2>5. \A k \in Dots : dir'[d][k] = dir[d][k]
      BY <2>2, <2>3, DirTypes
    <2> QED
      BY <2>3, <2>4, <2>5, Zenon
  <1>23. Touches(p)
    <2>1. NotLocked(p, d)
      <3>1. PICK v \in LocalVar : v = "dp"
        BY DEF LocalVar
      <3>2. Ref(p, v) = x /\ In(p, v) = d /\ x # 0
        BY <1>1, <1>2, <1>6, <3>1
      <3> QED
        BY <1>2, <3>2, MayWrite
    <2>2. \A j \in Inum \ {d} : Same(j)
      BY <1>11, <1>22, Zenon DEF Same
    <2> QED
      BY <1>6, <1>20, <1>22, <2>1, <2>2, Zenon DEF Touches
  <1>24. IsDir(i) => \A m \in Name \ Dots : dir'[i][m] = 0
    BY <1>8, <1>22, Zenon DEF IsDirEmpty
  <1>25. "cwd" \in LocalVar /\ th'[p].at \notin {"itrunc", "ifree"} /\ In(p, "ip")' # 0
    BY <1>5, <1>7, <1>14 DEF LocalVar
  <1> QED
    BY <1>11, <1>14, <1>15, <1>16, <1>17, <1>18, <1>19, <1>20, <1>21, <1>22, <1>23, <1>24, <1>25, WritesStep, Zenon

\* The inode of unlink().
LEMMA UnlinkIpTree ==
  ASSUME IInv, TInv, NEW p \in Proc, UnlinkIp(p)
  PROVE  TInv'
  <1>1. PICK s, x, n : s = th[p].ip /\ x = th[p].dp /\ n = LastOf(th[p].path)
    OBVIOUS
  <1>2. UNCHANGED <<used, files, ncalls, lost>> /\ Locks(p, "unlinkip")
    BY DEF UnlinkIp
  <1>3. th[p].at = "unlinkip" /\ th[p].puts = <<>> /\ CanLock(s) /\ s \in Slot
    BY <1>1, <1>2, Here DEF Looking
  <1>4. ASSUME GiveUp(p, s, "dropdp"), UNCHANGED <<dinode, dir>>
        PROVE  TInv'
    BY <1>1, <1>2, <1>3, <1>4, GiveUpTree DEF Looking, HasDp, disk
  <1>5. ASSUME ~GiveUp(p, s, "dropdp") \/ ~UNCHANGED <<dinode, dir>>
        PROVE  TInv'
    <2>1. PICK t, c : /\ t = Unlock(Ilock(p, s), x)
                      /\ c = [itable[x].d EXCEPT !.nlink = IF Loaded(s).type = "dir" THEN @ - 1 ELSE @]
      OBVIOUS
    <2>3. PICK down \in {0, 1} : down = 1 <=> Loaded(s).type = "dir"
      <3>1. CASE Loaded(s).type = "dir"
        BY <3>1
      <3>2. CASE Loaded(s).type # "dir"
        BY <3>2
      <3> QED
        BY <3>1, <3>2
    <2>4. c.type = itable[x].d.type /\ c.nlink = itable[x].d.nlink - down
      <3>1. x \in Slot
        BY <1>1, <1>3, Stood DEF Eff, HasDp
      <3>2. itable[x].d \in Inode
        BY <3>1, InUse
      <3> QED
        BY <2>1, <2>3, <3>2 DEF Inode
    <2>2. /\ ~(Loaded(s).type = "dir" /\ ~IsDirEmpty(itable[s].inum))
          /\ dir' = WithEntry(itable[x].inum, n, 0) /\ Iupdate(t, x, c)
          /\ PutThen(p, <<x>>, "unlinkdec", [dp |-> 0])
      BY <1>1, <1>5, <2>1 DEF UnlinkIp, WithEntry
    <2> QED
      BY <1>1, <1>2, <2>1, <2>2, <2>3, <2>4, UnlinkNameTree
  <1> QED
    BY <1>4, <1>5
-----------------------------------------------------------------------------
(* iput() of the last reference to an inode without links *)

\* What the path refers to, and no one else.
LEMMA FreeingFacts ==
  ASSUME IInv, TInv, NEW p \in Proc, Freeing(p), NEW s, s = Head(th[p].puts), NEW i, i = itable[s].inum
  PROVE  /\ s \in Slot /\ itable[s].ref > 0 /\ itable[s].lock = p /\ itable[s].valid /\ itable[s].d = dinode[i] /\ dinode[i] \in Inode
         /\ th[p].puts # <<>> /\ th[p].puts[1] = s /\ Len(th[p].puts) \in {1, 2} /\ Eff(th[p]) = th[p].then
         /\ Held1(p, "put1") = s /\ In(p, "put1") = i /\ i \in Inum /\ Claims(p, i) /\ Alone(p, i)
         /\ (\A v \in LocalVar : In(p, v) = i => v = "put1") /\ dinode[i].nlink = 0
         /\ Eff(th[p]) \notin Making \cup {"writei", "opentrunc"} /\ 0 \notin Slot /\ 0 \notin Inum
         /\ ~KeepsLocked(th[p], s)
  <1>1. th[p].at \in Putting /\ th[p].at # "idrop"
    BY DEF Freeing, Putting
  <1>2. PICK x \in Slot : PuttingAt(p, x)
    BY <1>1, PuttingFacts
  <1>3. /\ x = s /\ s \in Slot /\ itable[s].ref > 0 /\ th[p].puts # <<>> /\ th[p].puts[1] = s /\ Len(th[p].puts) \in {1, 2}
        /\ Eff(th[p]) = th[p].then /\ Held1(p, "put1") = s /\ th[p].then \notin {"writei", "opentrunc"}
    BY <1>2 DEF PuttingAt
  <1>4. i \in Inum /\ 0 \notin Slot /\ 0 \notin Inum /\ dinode[i] \in Inode
    BY <1>3, InUse, Sizes DEF Slot, Inum, IInv, TypeOK
  <1>5. In(p, "put1") = i
    BY <1>1, <1>3, <1>4 DEF In, Ref, At, Ino
  <1>6. Claims(p, i) /\ ClaimVar(p) = "put1"
    BY <1>5 DEF Claims, ClaimVar
  <1>7. Alone(p, i) /\ \A v \in LocalVar : In(p, v) = i => v = "put1"
    BY <1>4, <1>6 DEF TInv, Exclusive
  <1>8. Frees(th[p], s)
    BY <1>3 DEF Frees, Freeing
  <1>9. itable[s].lock = p /\ itable[s].valid /\ ~KeepsLocked(th[p], s)
    BY <1>3, <1>8 DEF IInv, LockInv
  <1>10. itable[s].d = dinode[i]
    BY <1>3, <1>9 DEF IInv, CacheInv
  <1>11. dinode[i].nlink = 0 /\ Eff(th[p]) \notin Making
    BY <1>3, <1>5 DEF TInv, Stands, Lets, Makes
  <1> QED
    BY <1>3, <1>4, <1>5, <1>6, <1>7, <1>9, <1>10, <1>11, Zenon

\* Of the inodes, only i changes; it is empty then; and the tree stands if what is owed stays.
OnlyAt(i) == \A j \in Inum \ {i} : dinode'[j] = dinode[j] /\ dir'[j] = dir[j] /\ (j \in lost' <=> j \in lost)
Emptied(i) == dinode'[i].type = dinode[i].type /\ dinode'[i].nlink = 0 /\ \A n \in Name : dir'[i][n] = 0
OwedTree == (\A j \in Inum : Owers(j)' = Owers(j)) => Tree'
LockStays(s) == \A x \in Slot \ {s} : itable'[x].lock = itable[x].lock

\* A step of the path that frees inode i.
LEMMA FreeingStep ==
  ASSUME IInv, TInv, NEW p \in Proc, Freeing(p), NEW s, s = Head(th[p].puts), NEW i, i = itable[s].inum,
         NEW w \in {"ifree", "idrop"}, Go(p, [at |-> w]), UNCHANGED files, InumsKept,
         LockStays(s), w = "ifree" => itable'[s].lock = p, w = "idrop" => itable'[s].lock = None,
         OnlyAt(i), w = "ifree" => Emptied(i), OwedTree
  PROVE  TInv'
  <1>1. /\ s \in Slot /\ itable[s].ref > 0 /\ itable[s].lock = p
        /\ th[p].puts # <<>> /\ th[p].puts[1] = s /\ Len(th[p].puts) \in {1, 2} /\ Eff(th[p]) = th[p].then
        /\ Held1(p, "put1") = s /\ In(p, "put1") = i /\ i \in Inum /\ Claims(p, i) /\ Alone(p, i)
        /\ (\A v \in LocalVar : In(p, v) = i => v = "put1")
        /\ Eff(th[p]) \notin Making \cup {"writei", "opentrunc"} /\ 0 \notin Slot /\ 0 \notin Inum
        /\ ~KeepsLocked(th[p], s)
    BY FreeingFacts
  <1>2. PICK r : r = [at |-> w]
    OBVIOUS
  <1>3. th'[p] = r \oplus th[p] /\ (\A q \in Proc \ {p} : th'[q] = th[q]) /\ th[p] = [g \in Fields |-> th[p][g]]
    BY <1>2, Goes DEF IInv
  <1>4. /\ th'[p].at = w /\ th'[p].puts = th[p].puts /\ th'[p].then = th[p].then /\ th'[p].ip = th[p].ip
        /\ th'[p].dp = th[p].dp /\ th'[p].tgt = th[p].tgt /\ th'[p].path = th[p].path /\ th'[p].call = th[p].call
    BY <1>2, <1>3 DEF \oplus, Fields
  <1>5. Eff(th'[p]) = Eff(th[p]) /\ (Freeing(p)' <=> w = "ifree") /\ th[p].at \notin {"idrop", "writei", "opentrunc"}
    BY <1>1, <1>4 DEF Eff, Freeing
  <1>6. /\ Ref(p, "ip")' = Ref(p, "ip") /\ Ref(p, "dp")' = Ref(p, "dp") /\ Ref(p, "put2")' = Ref(p, "put2")
        /\ Ref(p, "tgt")' = Ref(p, "tgt") /\ Ref(p, "cwd")' = Ref(p, "cwd")
        /\ Ref(p, "put1")' = IF w = "ifree" THEN Ref(p, "put1") ELSE 0
    BY <1>4, <1>5 DEF Ref, Held1, At, files
  <1>7. /\ In(p, "ip")' = In(p, "ip") /\ In(p, "dp")' = In(p, "dp") /\ In(p, "put2")' = In(p, "put2")
        /\ In(p, "tgt")' = In(p, "tgt") /\ In(p, "cwd")' = In(p, "cwd")
        /\ (w = "ifree" => In(p, "put1")' = i) /\ (w = "idrop" => In(p, "put1")' = 0)
    BY <1>1, <1>6, InAfter DEF LocalVar
  <1>8. \A v \in LocalVar \ {"put1"} : In(p, v)' = In(p, v) /\ In(p, v) # i
    BY <1>1, <1>7 DEF LocalVar
  <1>9. /\ In(p, "ip") \in Inum \cup {0} /\ In(p, "dp") \in Inum \cup {0} /\ In(p, "cwd") \in Inum \cup {0} /\ In(p, "tgt") \in Inum \cup {0}
        /\ In(p, "ip") # i /\ In(p, "dp") # i /\ In(p, "cwd") # i /\ In(p, "tgt") # i
    BY <1>1, <1>8, RefInUse, Zenon DEF LocalVar
  <1>10. \A j : Claims(p, j)' => w = "ifree" /\ j = i
    BY <1>1, <1>5, <1>7 DEF Claims
  <1>11. w = "ifree" => ClaimVar(p)' = "put1"
    BY <1>5 DEF ClaimVar
  <1>12. Moves(p)
    <2>1. ASSUME NEW v \in LocalVar, In(p, v)' # 0
          PROVE  Unclaimed(p, In(p, v)') /\ dinode'[In(p, v)'].type # "none"
      <3>1. CASE v = "put1"
        <4>1. w = "ifree" /\ In(p, v)' = i
          BY <1>7, <2>1, <3>1
        <4>2. Unclaimed(p, i) /\ dinode[i].type # "none"
          BY <1>1, HadAtHand DEF AtHand, LocalVar
        <4> QED
          BY <4>1, <4>2, Zenon DEF Emptied
      <3>2. CASE v # "put1"
        <4>1. In(p, v)' = In(p, v) /\ In(p, v) # i
          BY <1>8, <3>2
        <4>2. AtHand(p, In(p, v))
          BY <2>1, <4>1, HadAtHand
        <4> QED
          BY <4>1, <4>2 DEF AtHand, OnlyAt
      <3> QED
        BY <3>1, <3>2
    <2>2. \A f \in File : ftable'[f].ref > 0 => ftable[f].ref > 0 /\ ftable'[f].ip = ftable[f].ip
      BY DEF files
    <2>3. \A j \in Inum : Claims(p, j)' => Alone(p, j) /\ \A v \in LocalVar : In(p, v)' = j => v = ClaimVar(p)'
      <3>1. \A v \in LocalVar : In(p, v)' = i => v = "put1"
        BY <1>8
      <3> QED
        BY <1>1, <1>10, <1>11, <3>1
    <2>4. \A x \in Slot : /\ itable'[x].lock \in {itable[x].lock, None, p}
                          /\ itable'[x].lock = p => KeepsLocked(th'[p], x) \/ Frees(th'[p], x)
      <3> TAKE x \in Slot
      <3>1. CASE x = s
        BY <1>1, <1>4, <3>1, Sizes DEF Frees
      <3>2. CASE x # s
        <4>1. itable[x].lock = p => KeepsLocked(th[p], x)
          BY <1>1, <3>2 DEF TInv, Locking, Frees
        <4> QED
          BY <1>4, <1>5, <3>2, <4>1 DEF KeepsLocked, LockStays
      <3> QED
        BY <3>1, <3>2
    <2>5. cwd' = cwd
      BY DEF files
    <2> QED
      BY <1>3, <2>1, <2>2, <2>3, <2>4, <2>5 DEF Moves
  <1>13. Touches(p)
    <2>1. NotTheirs(p, i)
      BY <1>1 DEF NotTheirs, Unclaimed, Alone
    <2>2. \A j \in Inum \ {i} : Same(j)
      BY DEF Same, OnlyAt
    <2> QED
      BY <2>1, <2>2 DEF Touches
  <1>14. Tree'
    <2>1. \A q \in Proc \ {p}, j \in Inum : Owes(q, j)' <=> Owes(q, j)
      BY <1>3, InOthers DEF files
    <2>2. \A j \in Inum : Owes(p, j)' <=> Owes(p, j)
      BY <1>5, <1>7 DEF Owes
    <2>3. \A j \in Inum : Owers(j)' = Owers(j)
      BY <2>1, <2>2 DEF Owers
    <2> QED
      BY <2>3 DEF OwedTree
  <1>15. Stands(p)'
    <2>1. Homes(p) /\ Seeks(p) /\ Unlinks(p)
      BY DEF TInv, Stands
    <2>2. \A j \in Inum \ {i} : (Folder(j) => Folder(j)') /\ (IsDir(j)' <=> IsDir(j)) /\ (Dotted(j)' <=> Dotted(j)) /\ (IsDirEmpty(j)' <=> IsDirEmpty(j))
      BY DEF Folder, IsDir, Dotted, IsDirEmpty, OnlyAt
    <2>3. Homes(p)'
      <3>1. (In(p, "cwd")' # 0 => Folder(In(p, "cwd"))') /\ (In(p, "dp")' # 0 => Folder(In(p, "dp"))')
        BY <1>7, <1>9, <2>1, <2>2 DEF Homes, Folder, IsDir, Dotted
      <3>2. In(p, "tgt")' # 0 => dinode'[In(p, "tgt")'].type = "file"
        BY <1>7, <1>9, <2>1 DEF Homes, OnlyAt
      <3> QED
        BY <3>1, <3>2 DEF Homes
    <2>4. Eff(th[p]) \in Looking \cup {"unlinkdec"} => In(p, "ip") \in Inum \ {i}
      BY <1>9, Stood DEF Looking, HasIp
    <2>5. Eff(th[p]) = "unlinkip" => In(p, "dp") \in Inum \ {i}
      BY <1>9, Stood DEF HasDp
    <2>6. Eff(th[p]) = "ialloc" => In(p, "dp") \in Inum \ {i}
      BY <1>9, Stood DEF HasDp
    <2>7. Seeks(p)'
      <3>1. Eff(th[p]) \in {"createdp", "unlinkdp", "linkdp"} => Eff(th[p]) \in Looking
        BY DEF Looking
      <3> QED
        BY <1>5, <1>7, <2>1, <2>4, <3>1 DEF Seeks, IsDir, Dotted, OnlyAt
    <2>8. Unlinks(p)'
      BY <1>4, <1>5, <1>7, <2>1, <2>4, <2>5 DEF Unlinks, IsDir, IsDirEmpty, OnlyAt
    <2>9. Makes(p)'
      <3>1. Makes(p)
        BY DEF TInv, Stands
      <3> QED
        BY <1>1, <1>4, <1>5, <1>7, <2>6, <3>1 DEF Makes, Making, OnlyAt
    <2>10. Lets(p)'
      BY <1>4, <1>5, <1>7, Zenon DEF Lets, At, Emptied
    <2> QED
      BY <2>3, <2>7, <2>8, <2>9, <2>10 DEF Stands
  <1> QED
    BY <1>12, <1>13, <1>14, <1>15, Combined

\* The blocks and the entries of the inode go.
LEMMA IPutTruncTree ==
  ASSUME IInv, TInv, NEW p \in Proc, IPutTrunc(p)
  PROVE  TInv'
  <1>1. PICK s, i, d : s = Head(th[p].puts) /\ i = itable[s].inum /\ d = [itable[s].d EXCEPT !.addrs = {}]
    BY Zenon
  <1>2. /\ Freeing(p) /\ th[p].at = "itrunc" /\ Iupdate(itable, s, d) /\ dir' = [dir EXCEPT ![i] = [n \in Name |-> 0]]
        /\ Go(p, [at |-> "ifree"]) /\ UNCHANGED files /\ lost' = lost
    BY <1>1, Zenon DEF IPutTrunc, At, Freeing, Trunc
  <1>3. /\ s \in Slot /\ itable[s].lock = p /\ itable[s].d = dinode[i] /\ dinode[i] \in Inode /\ i \in Inum /\ dinode[i].nlink = 0
    <2>1. Freeing(p) /\ s = Head(th[p].puts) /\ i = itable[s].inum
      BY <1>1, <1>2
    <2> QED
      BY <2>1, FreeingFacts
  <1>4. d.type = dinode[i].type /\ d.nlink = 0
    BY <1>1, <1>3, Zenon DEF Inode
  <1>5. /\ InumsKept /\ \A x \in Slot : itable'[x].lock = itable[x].lock
        /\ dinode'[i] = d /\ \A j \in Inum \ {i} : dinode'[j] = dinode[j]
    <2>1. PICK t \in Table : t = itable
      BY InUse
    <2>2. Iupdate(t, s, d) /\ \A x \in Slot : t[x].inum = itable[x].inum
      BY <1>2, <2>1
    <2>3. /\ InumsKept /\ \A x \in Slot : itable'[x].lock = t[x].lock /\ itable'[x].inum = itable[x].inum
          /\ dinode'[itable[s].inum] = d /\ \A j \in Inum \ {itable[s].inum} : dinode'[j] = dinode[j]
      BY <1>3, <2>2, Updated
    <2> QED
      BY <1>1, <2>1, <2>3
  <1>6. (\A n \in Name : dir'[i][n] = 0) /\ \A j \in Inum \ {i} : dir'[j] = dir[j]
    BY <1>2, <1>3 DEF IInv, TypeOK
  <1>7. OwedTree
    <2> SUFFICES ASSUME \A j \in Inum : Owers(j)' = Owers(j)
                 PROVE  Tree'
      BY DEF OwedTree
    <2>1. \A j \in Inum : dinode'[j].type = dinode[j].type /\ dinode'[j].nlink = dinode[j].nlink
      BY <1>3, <1>4, <1>5
    <2> QED
      BY <1>2, <1>3, <1>6, <2>1, TruncTree
  <1>8. PICK w \in {"ifree", "idrop"} : w = "ifree"
    OBVIOUS
  <1>9. LockStays(s) /\ OnlyAt(i) /\ (w = "ifree" => Emptied(i))
    BY <1>2, <1>3, <1>4, <1>5, <1>6, <1>8 DEF LockStays, OnlyAt, Emptied
  <1>10. Go(p, [at |-> w]) /\ (w = "ifree" => itable'[s].lock = p) /\ (w = "idrop" => itable'[s].lock = None)
    BY <1>2, <1>3, <1>5, <1>8
  <1> QED
    BY <1>1, <1>2, <1>5, <1>7, <1>9, <1>10, FreeingStep

\* The inode is free.
LEMMA IPutFreeTree ==
  ASSUME IInv, TInv, NEW p \in Proc, IPutFree(p)
  PROVE  TInv'
  <1>1. PICK s, i : s = Head(th[p].puts) /\ i = itable[s].inum
    OBVIOUS
  <1>0. PICK t, d : /\ d = [itable[s].d EXCEPT !.type = "none"]
                    /\ t = [itable EXCEPT ![s] = [@ EXCEPT !.valid = FALSE, !.lock = None]]
    OBVIOUS
  <1>2. /\ Freeing(p) /\ th[p].at = "ifree" /\ Iupdate(t, s, d) /\ dir' = dir
        /\ Go(p, [at |-> "idrop"]) /\ UNCHANGED files /\ lost' = lost \ {i}
    BY <1>1, <1>0 DEF IPutFree, At, Freeing
  <1>3. /\ s \in Slot /\ itable[s].lock = p /\ itable[s].d = dinode[i] /\ dinode[i] \in Inode /\ i \in Inum /\ dinode[i].nlink = 0
        /\ In(p, "put1") = i
    BY <1>1, <1>2, FreeingFacts
  <1>4. d.type = "none" /\ d.nlink = 0
    BY <1>1, <1>0, <1>3, Zenon DEF Inode
  <1>5. /\ InumsKept /\ \A x \in Slot : itable'[x].lock = t[x].lock
        /\ dinode'[i] = d /\ \A j \in Inum \ {i} : dinode'[j] = dinode[j]
        /\ t[s].lock = None /\ \A x \in Slot \ {s} : t[x].lock = itable[x].lock
    <2>1. itable \in [Slot -> Entry]
      BY DEF IInv, TypeOK
    <2>2. t \in Table /\ t[s].lock = None /\ t[s].inum = itable[s].inum /\ \A x \in Slot \ {s} : t[x] = itable[x]
      BY <1>1, <1>0, <1>3, <2>1, Zenon DEF Table, Entry
    <2>3. \A x \in Slot : t[x].inum = itable[x].inum
      BY <2>2
    <2>4. PICK u \in Table : u = t
      BY <2>2
    <2>5. Iupdate(u, s, d) /\ \A x \in Slot : u[x].inum = itable[x].inum
      BY <1>2, <2>3, <2>4
    <2>6. /\ InumsKept /\ \A x \in Slot : itable'[x].lock = u[x].lock /\ itable'[x].inum = itable[x].inum
          /\ dinode'[itable[s].inum] = d /\ \A j \in Inum \ {itable[s].inum} : dinode'[j] = dinode[j]
      BY <1>3, <2>5, Updated
    <2> QED
      BY <1>1, <2>2, <2>4, <2>6
  <1>6. \A n \in Name : dir[i][n] = 0
    BY <1>2, <1>3 DEF TInv, Stands, Lets, At
  <1>7. OwedTree
    <2> SUFFICES ASSUME \A j \in Inum : Owers(j)' = Owers(j)
                 PROVE  Tree'
      BY DEF OwedTree
    <2>1. \A j \in Inum \ {i} : dinode'[j].type = dinode[j].type /\ dinode'[j].nlink = dinode[j].nlink
      BY <1>5
    <2>2. dinode'[i].nlink = 0
      BY <1>4, <1>5
    <2> QED
      BY <1>2, <1>3, <1>6, <2>1, <2>2, TypeTree
  <1>8. PICK w \in {"ifree", "idrop"} : w = "idrop"
    OBVIOUS
  <1>9. LockStays(s) /\ OnlyAt(i) /\ (w = "ifree" => Emptied(i))
    BY <1>2, <1>3, <1>5, <1>8 DEF LockStays, OnlyAt, Emptied
  <1>10. Go(p, [at |-> w]) /\ (w = "ifree" => itable'[s].lock = p) /\ (w = "idrop" => itable'[s].lock = None)
    BY <1>2, <1>3, <1>5, <1>8
  <1> QED
    BY <1>1, <1>2, <1>5, <1>7, <1>9, <1>10, FreeingStep
-----------------------------------------------------------------------------
(* ialloc() *)

\* The inode that it takes is referred to by no one.
LEMMA FreeIsAlone ==
  ASSUME IInv, TInv, NEW p \in Proc, NEW i \in Inum, dinode[i].type = "none"
  PROVE  Alone(p, i) /\ \A v \in LocalVar : In(p, v) # i
  <1>1. 0 \notin Inum
    BY Sizes DEF Inum
  <1>2. \A q \in Proc, v \in LocalVar : In(q, v) # i
    BY <1>1 DEF TInv, Allocated
  <1>3. ASSUME NEW q \in Proc, Claims(q, i)
        PROVE  FALSE
    <2>1. In(q, "ip") # i /\ In(q, "put1") # i
      BY <1>2 DEF LocalVar
    <2>2. Eff(th[q]) \in Making /\ i = New(q)
      BY <1>3, <2>1 DEF Claims
    <2>3. dinode[New(q)].type = IF IsMkdir(q) THEN "dir" ELSE "file"
      BY <2>2 DEF TInv, Stands, Makes
    <2> QED
      BY <2>2, <2>3
  <1>4. ASSUME NEW f \in File, ftable[f].ref > 0
        PROVE  Ino(ftable[f].ip) # i
    <2>1. ftable[f].ip \in Slot
      BY <1>4, FileAtHand
    <2>2. OpenOn(ftable[f].ip) # {}
      BY <1>4 DEF OpenOn
    <2> QED
      BY <2>1, <2>2 DEF IInv, InUseIsAllocated, Ino
  <1> QED
    BY <1>2, <1>3, <1>4 DEF Alone

\* An inode is taken, and is the path's own.
LEMMA IallocTakenTree ==
  ASSUME IInv, TInv, NEW p \in Proc, At(p, "ialloc"), NEW i \in Inum, dinode[i].type = "none",
         NEW d, d.type = (IF IsMkdir(p) THEN "dir" ELSE "file"), d.nlink = 0, d.addrs = {},
         dinode' = [dinode EXCEPT ![i] = d], Go(p, [at |-> "iallocget", inum |-> i]),
         UNCHANGED <<dir, used, itable, files, ncalls, lost>>
  PROVE  TInv'
  <1>1. /\ th[p].at = "ialloc" /\ th[p].puts = <<>> /\ Eff(th[p]) = "ialloc" /\ th[p].ip = 0 /\ 0 \notin Slot /\ 0 \notin Inum
        /\ (\A x \in Slot : ~Frees(th[p], x)) /\ Stands(p)
    <2>1. th[p].at = "ialloc" /\ th[p].at \notin Putting
      BY DEF At, Putting
    <2>2. th[p].puts = <<>> /\ Eff(th[p]) = "ialloc" /\ (\A x \in Slot : ~Frees(th[p], x)) /\ ~(th[p].ip # 0)
      BY <2>1, Standing DEF HasIp
    <2>3. 0 \notin Slot /\ 0 \notin Inum
      BY Sizes DEF Slot, Inum
    <2>4. Stands(p)
      BY DEF TInv
    <2> QED
      BY <2>1, <2>2, <2>3, <2>4
  <1>2. PICK r : r = [at |-> "iallocget", inum |-> i]
    OBVIOUS
  <1>3. th'[p] = r \oplus th[p] /\ (\A q \in Proc \ {p} : th'[q] = th[q]) /\ th[p] = [g \in Fields |-> th[p][g]]
    BY <1>2, Goes DEF IInv
  <1>4. /\ th'[p].at = "iallocget" /\ th'[p].inum = i /\ th'[p].puts = <<>> /\ th'[p].ip = th[p].ip /\ th'[p].dp = th[p].dp
        /\ th'[p].tgt = th[p].tgt /\ th'[p].path = th[p].path /\ th'[p].call = th[p].call
    BY <1>1, <1>2, <1>3 DEF \oplus, Fields
  <1>5. Eff(th'[p]) = "iallocget" /\ ~Freeing(p)'
    BY <1>4 DEF Eff, Freeing
  <1>6. dinode'[i] = d /\ (\A j \in Inum \ {i} : dinode'[j] = dinode[j]) /\ InumsKept
    BY DEF IInv, TypeOK, InumsKept
  <1>7. \A v \in LocalVar : In(p, v)' = In(p, v)
    <2>1. \A v \in LocalVar : Ref(p, v)' = Ref(p, v)
      BY <1>1, <1>4 DEF Ref, Held1, At, LocalVar, files
    <2> QED
      BY <1>6, <2>1, InAfter
  <1>8. Alone(p, i) /\ \A v \in LocalVar : In(p, v) # i
    BY FreeIsAlone
  <1>9. New(p)' = i /\ ClaimVar(p)' = "ip" /\ \A j : Claims(p, j)' => j = i
    BY <1>4, <1>5 DEF New, ClaimVar, Claims
  <1>10. In(p, "ip")' = In(p, "ip") /\ In(p, "dp")' = In(p, "dp") /\ In(p, "tgt")' = In(p, "tgt") /\ In(p, "cwd")' = In(p, "cwd")
         /\ In(p, "dp") # i /\ In(p, "cwd") # i /\ In(p, "tgt") # i
    BY <1>7, <1>8 DEF LocalVar
  <1>11. Moves(p)
    <2>1. \A v \in LocalVar : In(p, v)' # 0 => Unclaimed(p, In(p, v)') /\ dinode'[In(p, v)'].type # "none"
      BY <1>6, <1>7, <1>8, HadAtHand DEF AtHand
    <2>2. \A f \in File : ftable'[f].ref > 0 => ftable[f].ref > 0 /\ ftable'[f].ip = ftable[f].ip
      BY DEF files
    <2>3. \A x \in Slot : /\ itable'[x].lock \in {itable[x].lock, None, p}
                          /\ itable'[x].lock = p => KeepsLocked(th'[p], x) \/ Frees(th'[p], x)
      <3>1. \A x \in Slot : itable[x].lock = p => KeepsLocked(th[p], x)
        BY <1>1 DEF TInv, Locking
      <3> QED
        BY <1>1, <1>4, <1>5, <3>1 DEF KeepsLocked, Keeping, HasDp
    <2>4. \A j \in Inum : Claims(p, j)' => Alone(p, j) /\ \A v \in LocalVar : In(p, v)' = j => v = ClaimVar(p)'
      BY <1>7, <1>8, <1>9
    <2>5. cwd' = cwd
      BY DEF files
    <2> QED
      BY <1>3, <1>6, <2>1, <2>2, <2>3, <2>4, <2>5 DEF Moves
  <1>12. Touches(p)
    <2>1. NotTheirs(p, i)
      BY <1>8 DEF NotTheirs, Unclaimed, Alone
    <2>2. \A j \in Inum \ {i} : Same(j)
      BY <1>6 DEF Same
    <2> QED
      BY <2>1, <2>2 DEF Touches
  <1>13. dinode[i].nlink = 0 /\ i \notin lost /\ \A n \in Name : dir[i][n] = 0
    BY DEF TInv, Tree, Blank, IsDir
  <1>14. Tree'
    <2>1. \A q \in Proc \ {p}, j \in Inum : Owes(q, j)' <=> Owes(q, j)
      BY <1>3, <1>6, InOthers DEF files
    <2>2. \A j \in Inum : Owes(p, j)' <=> Owes(p, j)
      BY <1>1, <1>5, <1>10 DEF Owes, Owing
    <2>3. \A j \in Inum : Owers(j)' = Owers(j)
      BY <2>1, <2>2 DEF Owers
    <2>4. dinode'[i].nlink = 0 /\ lost' = lost \ {i} /\ \A j \in Inum \ {i} : dinode'[j].type = dinode[j].type /\ dinode'[j].nlink = dinode[j].nlink
      BY <1>6, <1>13
    <2> QED
      BY <1>13, <2>3, <2>4, TypeTree
  <1>15. Stands(p)'
    <2>1. Homes(p)'
      <3>1. Homes(p)
        BY <1>1 DEF Stands
      <3>2. \A j \in Inum \ {i} : Folder(j) => Folder(j)'
        BY <1>6 DEF Folder, IsDir, Dotted
      <3>3. In(p, "cwd") \in Inum \cup {0} /\ In(p, "dp") \in Inum \cup {0} /\ In(p, "tgt") \in Inum \cup {0}
        BY RefInUse DEF LocalVar
      <3>4. (In(p, "cwd")' # 0 => Folder(In(p, "cwd"))') /\ (In(p, "dp")' # 0 => Folder(In(p, "dp"))')
        BY <1>10, <3>1, <3>2, <3>3 DEF Homes, Folder, IsDir, Dotted
      <3>5. In(p, "tgt")' # 0 => dinode'[In(p, "tgt")'].type = "file"
        BY <1>6, <1>10, <3>1, <3>3 DEF Homes
      <3> QED
        BY <3>4, <3>5 DEF Homes
    <2>2. Seeks(p)' /\ Unlinks(p)' /\ Lets(p)'
      BY <1>5 DEF Seeks, Unlinks, Lets, Looking
    <2>3. Makes(p)'
      <3>1. LastOf(th'[p].path) \notin Dots /\ dir'[In(p, "dp")'][LastOf(th'[p].path)] = 0
        BY <1>1, <1>4, <1>10 DEF Stands, Makes
      <3>2. /\ th'[p].puts = <<>> /\ New(p)' \in Inum
            /\ dinode'[New(p)'].type = (IF IsMkdir(p)' THEN "dir" ELSE "file")
            /\ dinode'[New(p)'].nlink = 0 /\ dinode'[New(p)'].addrs = {} /\ IsDirEmpty(New(p))' /\ New(p)' \notin lost'
        BY <1>4, <1>6, <1>9, <1>13 DEF IsMkdir, IsDirEmpty
      <3> QED
        BY <1>5, <3>1, <3>2 DEF Makes
    <2> QED
      BY <2>1, <2>2, <2>3 DEF Stands
  <1> QED
    BY <1>11, <1>12, <1>14, <1>15, Combined

\* ialloc().
LEMMA IallocTree ==
  ASSUME IInv, TInv, NEW p \in Proc, Ialloc(p)
  PROVE  TInv'
  <1>1. PICK avail : avail = {i \in Inum : dinode[i].type = "none"}
    OBVIOUS
  <1>2. At(p, "ialloc") /\ UNCHANGED <<dir, used, itable, files, ncalls, lost>>
    BY DEF Ialloc
  <1>3. ASSUME Go(p, [at |-> "dropdp"]), UNCHANGED dinode
        PROVE  TInv'
    <2>1. PICK w \in {"dropip", "dropdp"} : w = "dropdp"
      OBVIOUS
    <2>2. At(p, IF w = "dropip" THEN "openfile" ELSE "ialloc") /\ Go(p, [at |-> w]) /\ UNCHANGED <<disk, itable, files, ncalls, lost>>
      BY <1>2, <1>3, <2>1 DEF disk
    <2> QED
      BY <2>2, FullTree
  <1>4. ASSUME avail # {}, dinode' = [dinode EXCEPT ![Least(avail)] = [Free EXCEPT !.type = IF IsMkdir(p) THEN "dir" ELSE "file"]],
               Go(p, [at |-> "iallocget", inum |-> Least(avail)])
        PROVE  TInv'
    <2>1. PICK i, d : i = Least(avail) /\ d = [Free EXCEPT !.type = IF IsMkdir(p) THEN "dir" ELSE "file"]
      OBVIOUS
    <2>2. avail \subseteq Nat
      BY <1>1, Sizes
    <2>3. i \in avail
      BY <1>4, <2>1, <2>2, LeastNatural
    <2>4. i \in Inum /\ dinode[i].type = "none"
      BY <1>1, <2>3
    <2>5. d.type = (IF IsMkdir(p) THEN "dir" ELSE "file") /\ d.nlink = 0 /\ d.addrs = {}
      BY <2>1 DEF Free
    <2>6. dinode' = [dinode EXCEPT ![i] = d] /\ Go(p, [at |-> "iallocget", inum |-> i])
      BY <1>4, <2>1
    <2> QED
      BY <1>2, <2>4, <2>5, <2>6, IallocTakenTree
  <1> QED
    BY <1>1, <1>2, <1>3, <1>4 DEF Ialloc
-----------------------------------------------------------------------------
(* In the beginning *)

\* The directories of the first disk.
FirstDir(i, n) == IF i = 1 /\ n = "x" THEN 2 ELSE IF i = 1 /\ n = "d" THEN 3
                  ELSE IF i = 3 /\ n = "." THEN 3 ELSE IF i \in {1, 3} /\ n \in Dots THEN 1 ELSE 0

\* They hold these entries, and the inodes have these types and link counts.
LEMMA FirstDisk ==
  ASSUME Init
  PROVE  /\ \A i \in Inum, n \in Name : dir[i][n] = FirstDir(i, n)
         /\ dinode[1].type = "dir" /\ dinode[2].type = "file" /\ dinode[3].type = "dir"
         /\ dinode[1].nlink = 2 /\ dinode[2].nlink = 1 /\ dinode[3].nlink = 1
         /\ \A i \in Inum \ {1, 2, 3} : dinode[i].type = "none" /\ dinode[i].nlink = 0
         /\ {1, 2, 3} \subseteq Inum /\ {"x", "d"} \subseteq Name \ Dots /\ lost = {}
  <1>1. {1, 2, 3} \subseteq Inum /\ {"x", "d"} \subseteq Name \ Dots
    BY FileSystemAssumption DEF Inum, Dots
  <1>2. \A i \in Inum : dinode[i] = InitInode(i)
    BY DEF Init
  <1>3. PICK z : z = [n \in Name |-> 0]
    OBVIOUS
  <1>4. \A i \in Inum : dir[i] = InitDir(i) \oplus z
    BY <1>3 DEF Init
  <1>5. ASSUME NEW g, NEW n \in Name
        PROVE  (n \in DOMAIN g => (g \oplus z)[n] = g[n]) /\ (n \notin DOMAIN g => (g \oplus z)[n] = 0)
    BY <1>3 DEF \oplus
  <1>6. ASSUME NEW n \in Name
        PROVE  dir[1][n] = FirstDir(1, n)
    <2>1. PICK a, b : a = [x |-> 2, d |-> 3] /\ b = [m \in Dots |-> ROOTINO]
      OBVIOUS
    <2>2. PICK g : g = a \oplus b
      OBVIOUS
    <2>3. DOMAIN a = {"x", "d"} /\ a["x"] = 2 /\ a["d"] = 3 /\ DOMAIN b = Dots /\ \A m \in Dots : b[m] = 1
      BY <2>1 DEF ROOTINO
    <2>4. DOMAIN g = {"x", "d"} \cup Dots /\ g["x"] = 2 /\ g["d"] = 3 /\ \A m \in Dots : g[m] = 1
      BY <2>2, <2>3 DEF \oplus, Dots
    <2>5. dir[1] = g \oplus z
      <3>1. dir[1] = InitDir(1) \oplus z
        BY <1>1, <1>4
      <3>2. InitDir(1) = [x |-> 2, d |-> 3] \oplus [m \in Dots |-> ROOTINO]
        BY DEF InitDir, ROOTINO
      <3> QED
        BY <2>1, <2>2, <3>1, <3>2
    <2>6. CASE n \in {"x", "d"} \cup Dots
      <3>1. dir[1][n] = g[n]
        BY <1>5, <2>4, <2>5, <2>6
      <3> QED
        BY <2>4, <2>6, <3>1 DEF FirstDir, Dots
    <2>7. CASE n \notin {"x", "d"} \cup Dots
      <3>1. dir[1][n] = 0
        BY <1>5, <2>4, <2>5, <2>7
      <3> QED
        BY <2>7, <3>1 DEF FirstDir
    <2> QED
      BY <2>6, <2>7
  <1>7. ASSUME NEW n \in Name
        PROVE  dir[3][n] = FirstDir(3, n)
    <2>1. PICK g : g = [m \in Dots |-> IF m = "." THEN 3 ELSE ROOTINO]
      OBVIOUS
    <2>2. DOMAIN g = Dots /\ g["."] = 3 /\ g[".."] = 1
      BY <2>1 DEF ROOTINO, Dots
    <2>3. dir[3] = g \oplus z
      BY <1>1, <1>4, <2>1 DEF InitDir, ROOTINO
    <2>4. CASE n \in Dots
      <3>1. dir[3][n] = g[n]
        BY <1>5, <2>2, <2>3, <2>4
      <3> QED
        BY <2>2, <2>4, <3>1 DEF FirstDir, Dots
    <2>5. CASE n \notin Dots
      <3>1. dir[3][n] = 0
        BY <1>5, <2>2, <2>3, <2>5
      <3> QED
        BY <2>5, <3>1 DEF FirstDir, Dots
    <2> QED
      BY <2>4, <2>5
  <1>8. ASSUME NEW i \in Inum \ {1, 3}, NEW n \in Name
        PROVE  dir[i][n] = FirstDir(i, n)
    <2>1. PICK g : g = <<>>
      OBVIOUS
    <2>2. DOMAIN g = {}
      BY <2>1
    <2>3. dir[i] = g \oplus z
      BY <1>4, <2>1 DEF InitDir, ROOTINO
    <2>4. dir[i][n] = 0
      BY <1>5, <2>2, <2>3
    <2> QED
      BY <2>4 DEF FirstDir
  <1>9. dinode[1].type = "dir" /\ dinode[1].nlink = 2
    BY <1>1, <1>2 DEF InitInode, ROOTINO
  <1>10. dinode[2].type = "file" /\ dinode[2].nlink = 1
    BY <1>1, <1>2 DEF InitInode, ROOTINO
  <1>11. dinode[3].type = "dir" /\ dinode[3].nlink = 1
    BY <1>1, <1>2 DEF InitInode, ROOTINO
  <1>12. \A i \in Inum \ {1, 2, 3} : dinode[i].type = "none" /\ dinode[i].nlink = 0
    BY <1>2 DEF InitInode, ROOTINO, Free
  <1>13. lost = {}
    BY DEF Init
  <1> QED
    BY <1>1, <1>6, <1>7, <1>8, <1>9, <1>10, <1>11, <1>12, <1>13

\* Nobody is on a path, and each process refers to the root.
LEMMA FirstRefs ==
  ASSUME Init
  PROVE  /\ IInv /\ ROOTINO = 1
         /\ \A p \in Proc : Eff(th[p]) = "idle" /\ th[p].at = "idle"
         /\ \A p \in Proc : \A v \in LocalVar \ {"cwd"} : In(p, v) = 0
         /\ \A p \in Proc : In(p, "cwd") = 1
         /\ \A p \in Proc, i \in Inum : ~Claims(p, i) /\ ~Owes(p, i)
  <1>1. IInv
    BY InitInv
  <1>2. \A p \in Proc : /\ th[p].at = "idle" /\ Eff(th[p]) = "idle" /\ Held1(p, "cwd") = 1
                        /\ \A u \in LocalVar \ {"cwd"} : Held1(p, u) = 0
    BY FirstPaths
  <1>3. \A p \in Proc, v \in LocalVar : Ref(p, v) = Held1(p, v)
    BY <1>2 DEF Ref, At
  <1>4. 1 \in Slot /\ itable[1].inum = 1
    <2>1. \A s \in Slot : itable[s].inum = 1
      BY FirstTypes
    <2> QED
      BY <2>1, Sizes DEF Slot
  <1>5. \A p \in Proc : \A v \in LocalVar \ {"cwd"} : In(p, v) = 0
    BY <1>2, <1>3 DEF In
  <1>6. \A p \in Proc : In(p, "cwd") = 1
    BY <1>2, <1>3, <1>4 DEF In, Ino, LocalVar
  <1>7. \A p \in Proc, i \in Inum : ~Claims(p, i)
    BY <1>2 DEF Claims, Freeing, Making
  <1>8. ASSUME NEW p \in Proc, NEW i \in Inum
        PROVE  ~Owes(p, i)
    <2>1. In(p, "tgt") = 0 /\ i # 0
      BY <1>5, Sizes DEF LocalVar, Inum
    <2> QED
      BY <1>2, <2>1 DEF Owes, Owing
  <1> QED
    BY <1>1, <1>2, <1>5, <1>6, <1>7, <1>8 DEF ROOTINO

\* The first tree: the root, a file in it and an empty directory in it.
LEMMA FirstTree ==
  ASSUME Init
  PROVE  Tree
  <1>1. IInv /\ ROOTINO = 1 /\ \A p \in Proc, i \in Inum : ~Owes(p, i)
    BY FirstRefs
  <1>2. /\ \A i \in Inum, n \in Name : dir[i][n] = FirstDir(i, n)
        /\ {1, 2, 3} \subseteq Inum /\ {"x", "d"} \subseteq Name \ Dots /\ lost = {}
    BY FirstDisk
  <1>3. /\ \A i \in Inum : IsDir(i) <=> i \in {1, 3}
        /\ \A i \in Inum : dinode[i].type = "none" <=> i \notin {1, 2, 3}
        /\ \A i \in Inum : dinode[i].nlink = IF i = 1 THEN 2 ELSE IF i \in {2, 3} THEN 1 ELSE 0
    BY FirstDisk DEF IsDir
  <1>5. \A i \in Inum, n \in Name \ Dots :
          /\ dir[i][n] = IF i = 1 /\ n = "x" THEN 2 ELSE IF i = 1 /\ n = "d" THEN 3 ELSE 0
    BY <1>2 DEF FirstDir, Dots
  <1>6. 0 \notin Inum
    BY DirTypes, <1>1
  <1>7. \A i \in Inum : /\ Names(i) = (IF i = 2 THEN {<<1, "x">>} ELSE IF i = 3 THEN {<<1, "d">>} ELSE {})
                        /\ SubEntries(i) = (IF i = 1 THEN {"d"} ELSE {})
                        /\ Owers(i) = {}
    <2> TAKE i \in Inum
    <2>1. ASSUME NEW l
          PROVE  l \in Names(i) <=> \/ i = 2 /\ l = <<1, "x">>
                                    \/ i = 3 /\ l = <<1, "d">>
      <3>1. l \in Names(i) => (i = 2 /\ l = <<1, "x">>) \/ (i = 3 /\ l = <<1, "d">>)
        <4> SUFFICES ASSUME l \in Names(i)
                     PROVE  (i = 2 /\ l = <<1, "x">>) \/ (i = 3 /\ l = <<1, "d">>)
          OBVIOUS
        <4>1. PICK d \in Inum, n \in Name \ Dots : l = <<d, n>>
          BY DEF Names
        <4>2. dir[d][n] = i
          BY <4>1 DEF Names
        <4>3. d = 1 /\ ((n = "x" /\ i = 2) \/ (n = "d" /\ i = 3))
          BY <4>2, <1>5, <1>6
        <4> QED
          BY <4>1, <4>3
      <3>2. dinode[1].type = "dir" /\ dir[1]["x"] = 2 /\ dir[1]["d"] = 3
        BY <1>2, <1>3, <1>5 DEF IsDir
      <3>3. i = 2 => <<1, "x">> \in Names(i)
        BY <1>2, <3>2 DEF Names
      <3>4. i = 3 => <<1, "d">> \in Names(i)
        BY <1>2, <3>2 DEF Names
      <3> QED
        BY <3>1, <3>3, <3>4
    <2>2. ASSUME NEW n \in Name \ Dots
          PROVE  dir[i][n] # 0 /\ IsDir(dir[i][n]) <=> i = 1 /\ n = "d"
      BY <1>2, <1>3, <1>5
    <2>3. SubEntries(i) = (IF i = 1 THEN {"d"} ELSE {})
      BY <1>2, <2>2 DEF SubEntries
    <2>4. Owers(i) = {}
      BY <1>1 DEF Owers
    <2> QED
      BY <2>1, <2>3, <2>4
  <1>8. Counting
    <2> SUFFICES ASSUME NEW i \in Inum
                 PROVE  dinode[i].nlink >= Links(i) /\ dinode[i].nlink = Links(i)
      BY DEF Counting
    <2>1. PICK a, b, c : a = Cardinality(Names(i)) /\ b = Cardinality(SubEntries(i)) /\ c = Cardinality(Owers(i))
      OBVIOUS
    <2>2. /\ a = (IF i \in {2, 3} THEN 1 ELSE 0) /\ b = (IF i = 1 THEN 1 ELSE 0) /\ c = 0
      <3>1. \A z : Cardinality({z}) = 1
        BY FS_Singleton
      <3> QED
        BY <1>7, <2>1, <3>1, FS_EmptySet
    <2>3. Links(i) = a + b + c + (IF i = 1 THEN 1 ELSE 0)
      BY <1>1, <2>1 DEF Links
    <2>4. Links(i) = IF i = 1 THEN 2 ELSE IF i \in {2, 3} THEN 1 ELSE 0
      BY <2>2, <2>3
    <2> QED
      BY <1>3, <2>4
  <1>9. Blank
    <2>1. \A i \in Inum, n \in Name : ~IsDir(i) => dir[i][n] = 0
      BY <1>2, <1>3 DEF FirstDir
    <2> QED
      BY <1>2, <1>3, <2>1 DEF Blank
  <1>10. Rooted
    <2>1. \A n \in Dots : dir[1][n] = 1
      BY <1>2, DirTypes, <1>1 DEF FirstDir, Dots
    <2> QED
      BY <1>1, <1>2, <1>3, <2>1 DEF Rooted
  <1>11. OneName
    <2> SUFFICES ASSUME NEW i \in Inum, IsDir(i), NEW l \in Names(i)
                 PROVE  Names(i) = {l} /\ dir[i][".."] = l[1] /\ dir[i]["."] = i /\ i # ROOTINO
      BY DEF OneName
    <2>1. i = 3 /\ l = <<1, "d">> /\ Names(i) = {l}
      BY <1>3, <1>7
    <2>2. dir[3][".."] = 1 /\ dir[3]["."] = 3
      BY <1>1, <1>2, DirTypes DEF FirstDir, Dots
    <2> QED
      BY <1>1, <2>1, <2>2
  <1>12. InFolders
    <2>1. \A i \in Inum : IsDir(i) => dir[i]["."] = i /\ dir[i][".."] # 0
      BY <1>1, <1>2, <1>3, DirTypes DEF FirstDir, Dots
    <2> QED
      BY <2>1 DEF InFolders, Dotted
  <1>13. Attached
    BY <1>1, <1>7 DEF Attached
  <1>14. Removed
    BY <1>2, <1>3, <1>5 DEF Removed
  <1>15. LostWithin
    BY <1>2 DEF LostWithin
  <1>16. Acyclic
    <2> SUFFICES ASSUME NEW S \in (SUBSET Inum) \ {{}}
                 PROVE  \E i \in S : \A j \in S : ~Lists(i, j)
      BY DEF Acyclic
    <2>1. \A i, j \in Inum : Lists(i, j) => i = 1 /\ j \in {2, 3}
      BY <1>5, <1>6 DEF Lists
    <2>2. CASE \E i \in S : i # 1
      BY <2>1, <2>2
    <2>3. CASE S = {1}
      BY <2>1, <2>3
    <2> QED
      BY <2>2, <2>3
  <1> QED
    BY <1>8, <1>9, <1>10, <1>11, <1>12, <1>13, <1>14, <1>15, <1>16 DEF Tree

\* The invariant holds in the beginning.
LEMMA TreeInit == Init => TInv
  <1> SUFFICES ASSUME Init
               PROVE  TInv
    OBVIOUS
  <1>1. /\ IInv /\ ROOTINO = 1
        /\ \A p \in Proc : Eff(th[p]) = "idle" /\ th[p].at = "idle"
        /\ \A p \in Proc : \A v \in LocalVar \ {"cwd"} : In(p, v) = 0
        /\ \A p \in Proc : In(p, "cwd") = 1
        /\ \A p \in Proc, i \in Inum : ~Claims(p, i)
    BY FirstRefs
  <1>2. Tree
    BY FirstTree
  <1>3. Exclusive
    BY <1>1 DEF Exclusive
  <1>4. dinode[1].type = "dir" /\ Folder(1)
    BY <1>1, <1>2, DirTypes DEF Tree, Rooted, Folder, Dotted, IsDir
  <1>5. Allocated
    BY <1>1, <1>4 DEF Allocated
  <1>6. Locking
    <2>1. \A s \in Slot : itable[s].lock = None
      BY DEF Init
    <2> QED
      BY <2>1, Sizes DEF Locking
  <1>7. ASSUME NEW p \in Proc
        PROVE  Stands(p)
    <2>1. In(p, "cwd") = 1 /\ In(p, "dp") = 0 /\ In(p, "tgt") = 0 /\ Eff(th[p]) = "idle" /\ th[p].at = "idle"
      BY <1>1 DEF LocalVar
    <2>2. Homes(p)
      BY <1>4, <2>1 DEF Homes
    <2>3. Seeks(p) /\ Unlinks(p) /\ Makes(p) /\ Lets(p)
      BY <2>1 DEF Seeks, Unlinks, Makes, Lets, Looking, Making, Freeing
    <2> QED
      BY <2>2, <2>3 DEF Stands
  <1> QED
    BY <1>2, <1>3, <1>5, <1>6, <1>7 DEF TInv
-----------------------------------------------------------------------------
(* Every step *)

\* Nothing changes.
LEMMA TreeStutter ==
  ASSUME IInv, TInv, UNCHANGED vars
  PROVE  TInv'
  <1>1. /\ dinode' = dinode /\ dir' = dir /\ used' = used /\ itable' = itable /\ ftable' = ftable
        /\ ofile' = ofile /\ cwd' = cwd /\ th' = th /\ ncalls' = ncalls /\ lost' = lost
    BY DEF vars, disk, files
  <1>2. \A p, v : Ref(p, v)' = Ref(p, v)
    BY <1>1 DEF Ref, Held1, At
  <1>3. \A p, v : In(p, v)' = In(p, v)
    BY <1>1, <1>2 DEF In, Ino
  <1>4. /\ \A p, i : (Claims(p, i)' <=> Claims(p, i)) /\ (Owes(p, i)' <=> Owes(p, i))
        /\ \A p : New(p)' = New(p) /\ ClaimVar(p)' = ClaimVar(p) /\ (Freeing(p)' <=> Freeing(p))
    BY <1>1, <1>3 DEF Claims, Owes, New, ClaimVar, Freeing, Eff
  <1>5. Tree'
    <2>1. InitProc \in Proc
      BY FileSystemAssumption
    <2>2. Kept(InitProc)
      BY <1>1 DEF Kept
    <2> QED
      BY <1>4, <2>1, <2>2, TreeKept
  <1>6. Exclusive' /\ Allocated'
    BY <1>1, <1>3, <1>4 DEF TInv, Exclusive, Allocated, Alone, Ino
  <1>7. Locking'
    BY <1>1 DEF TInv, Locking
  <1>8. \A p \in Proc : Stands(p)'
    <2> TAKE p \in Proc
    <2>1. Stands(p)
      BY DEF TInv
    <2>2. Homes(p)' /\ Seeks(p)' /\ Unlinks(p)'
      BY <1>1, <1>3, <2>1 DEF Stands, Homes, Seeks, Unlinks, Folder, IsDir, Dotted, Eff, IsDirEmpty
    <2>3. Makes(p)'
      BY <1>1, <1>3, <1>4, <2>1 DEF Stands, Makes, Eff, IsDirEmpty, IsMkdir
    <2>4. Lets(p)'
      BY <1>1, <1>3, <1>4, <2>1 DEF Stands, Lets, At
    <2> QED
      BY <2>2, <2>3, <2>4 DEF Stands
  <1> QED
    BY <1>5, <1>6, <1>7, <1>8 DEF TInv

\* Every step keeps the tree, unless a path asks a removed directory for its parent.
LEMMA TreeNext == IInv /\ TInv /\ [Next]_vars /\ StaysInTree => TInv'
  <1> SUFFICES ASSUME IInv, TInv, [Next]_vars, StaysInTree
               PROVE  TInv'
    OBVIOUS
  <1>1. CASE UNCHANGED vars
    BY <1>1, TreeStutter
  <1>2. CASE Next
    <2>1. PICK p \in Proc : Step(p)
      BY <1>2 DEF Next
    <2>2. ASSUME NEW c \in Calls, Begin(p, c)
          PROVE  TInv'
      BY <2>2, BeginTree
    <2>3. CASE Namex(p) \/ Walk(p)
      BY <2>3, NamexTree, WalkTree
    <2>4. CASE IPut(p) \/ IPutTrunc(p) \/ IPutFree(p) \/ IPutDrop(p) \/ DropIp(p) \/ DropDp(p)
      BY <2>4, IPutTree, IPutTruncTree, IPutFreeTree, IPutDropTree, DropIpTree, DropDpTree
    <2>5. CASE CreateDp(p) \/ CreateFound(p) \/ Ialloc(p) \/ IallocGet(p)
      BY <2>5, CreateDpTree, CreateFoundTree, IallocTree, IallocGetTree
    <2>6. CASE CreateIp(p) \/ CreateLink(p) \/ CreateFail(p)
      BY <2>6, CreateIpTree, CreateLinkTree, CreateFailTree
    <2>7. CASE UnlinkDp(p) \/ UnlinkIp(p) \/ UnlinkDec(p)
      BY <2>7, UnlinkDpTree, UnlinkIpTree, UnlinkDecTree
    <2>8. CASE LinkInc(p) \/ LinkDp(p) \/ LinkBad(p) \/ ChdirIp(p)
      BY <2>8, LinkIncTree, LinkDpTree, LinkBadTree, ChdirIpTree
    <2>9. CASE OpenIp(p) \/ OpenFile(p) \/ OpenTrunc(p) \/ WriteI(p)
      BY <2>9, OpenIpTree, OpenFileTree, OpenTruncTree, WriteITree
    <2>10. ASSUME NEW d \in Fd, Write(p, d) \/ Close(p, d) \/ Dup(p, d) \/ ExitClose(p, d)
           PROVE  TInv'
      BY <2>10, WriteTree, CloseTree, DupTree, ExitCloseTree
    <2>11. ASSUME NEW np \in Proc, Fork(p, np)
           PROVE  TInv'
      BY <2>11, ForkTree
    <2>12. CASE ExitCwd(p)
      BY <2>12, ExitCwdTree
    <2> QED
      BY <2>1, <2>2, <2>3, <2>4, <2>5, <2>6, <2>7, <2>8, <2>9, <2>10, <2>11, <2>12 DEF Step
  <1> QED
    BY <1>1, <1>2
-----------------------------------------------------------------------------
(* Link counts *)

\* What is mapped one to one onto a set has as many elements.
LEMMA OneToOne ==
  ASSUME NEW S, NEW T, IsFiniteSet(S), NEW f \in [S -> T],
         \A x, y \in S : f[x] = f[y] => x = y, \A t \in T : \E x \in S : f[x] = t
  PROVE  Cardinality(S) = Cardinality(T)
  <1>1. f \in Injection(S, T)
    BY DEF Injection, IsInjective
  <1>2. f \in Surjection(S, T)
    BY DEF Surjection
  <1>3. IsFiniteSet(T) /\ (Cardinality(T) = Cardinality(S) <=> f \in Injection(S, T))
    BY <1>2, FS_Surjection
  <1> QED
    BY <1>1, <1>3

\* What is mapped one to one into a finite set has no more elements.
LEMMA OneToOneInto ==
  ASSUME NEW S, NEW T, IsFiniteSet(T), NEW f \in [S -> T], \A x, y \in S : f[x] = f[y] => x = y
  PROVE  Cardinality(S) <= Cardinality(T)
  <1>1. f \in Injection(S, T)
    BY DEF Injection, IsInjective
  <1> QED
    BY <1>1, FS_Injection

\* Between calls nobody has links that are no names.
LEMMA QuietOwesNothing ==
  ASSUME IInv, Quiet, NEW i \in Inum
  PROVE  Owers(i) = {}
  <1> SUFFICES ASSUME NEW p \in Proc, Owes(p, i)
               PROVE  FALSE
    BY DEF Owers
  <1>1. th[p].at \in {"idle", "exit"} /\ th[p].at \notin Putting
    BY DEF Quiet, Putting
  <1>2. Eff(th[p]) = th[p].at /\ th[p].tgt = 0
    BY <1>1, Standing DEF Continues, Linking
  <1>3. Ref(p, "tgt") = 0 /\ 0 \notin Inum
    BY <1>2, Sizes DEF Ref, Held1, Inum
  <1> QED
    BY <1>1, <1>2, <1>3 DEF Owes, Owing, In

\* The entries that name directories are as many as the directories whose ".." it is.
LEMMA SubdirsAreEntries ==
  ASSUME IInv, TInv, Quiet, NEW i \in Inum \ lost
  PROVE  Cardinality(SubEntries(i)) = Cardinality(Subdirs(i))
  <1>1. \A j \in Inum, n \in Name : dir[j][n] \in Inum \cup {0}
    BY DirTypes
  <1>2. ASSUME NEW n \in SubEntries(i), NEW d, d = dir[i][n]
        PROVE  /\ d \in Inum /\ IsDir(d) /\ <<i, n>> \in Names(d) /\ Names(d) = {<<i, n>>}
               /\ dir[d][".."] = i /\ d # ROOTINO
    <2>1. n \in Name \ Dots /\ d \in Inum /\ IsDir(d) /\ d # 0
      BY <1>1, <1>2 DEF SubEntries
    <2>2. IsDir(i)
      BY <1>2, <2>1 DEF TInv, Tree, Blank
    <2>3. <<i, n>> \in Names(d)
      BY <1>2, <2>1, <2>2 DEF Names, IsDir
    <2>4. PICK l : l = <<i, n>>
      OBVIOUS
    <2>5. Names(d) = {l} /\ dir[d][".."] = l[1] /\ d # ROOTINO
      BY <2>1, <2>3, <2>4 DEF TInv, Tree, OneName
    <2> QED
      BY <2>1, <2>3, <2>4, <2>5
  <1>3. ASSUME NEW n \in SubEntries(i), NEW d, d = dir[i][n]
        PROVE  d \in Subdirs(i)
    <2>1. d \in Inum /\ IsDir(d) /\ <<i, n>> \in Names(d) /\ dir[d][".."] = i /\ d # ROOTINO
      BY <1>2, <1>3
    <2>2. d \notin lost
      <3>1. PICK l : l = <<i, n>>
        OBVIOUS
      <3>2. l \in Names(d) /\ l[1] = i
        BY <2>1, <3>1
      <3> QED
        BY <2>1, <3>2 DEF TInv, Tree, LostWithin
    <2>3. dinode[d].nlink > 0
      <3>1. dinode[d].nlink \in Nat /\ dinode[d].nlink # 0
        BY <2>1, LinkCounts
      <3> QED
        BY <3>1
    <2> QED
      BY <2>1, <2>2, <2>3 DEF Subdirs, IsDir
  <1>4. ASSUME NEW d \in Subdirs(i)
        PROVE  \E n \in SubEntries(i) : dir[i][n] = d
    <2>1. d \in Inum \ (lost \cup {ROOTINO}) /\ IsDir(d) /\ dinode[d].nlink > 0 /\ dir[d][".."] = i
      BY <1>4 DEF Subdirs, IsDir
    <2>2. Names(d) # {}
      <3> SUFFICES ASSUME Names(d) = {}
                   PROVE  FALSE
        OBVIOUS
      <3>1. SubEntries(d) = {}
        BY <2>1 DEF TInv, Tree, Attached
      <3>2. Owers(d) = {}
        BY <2>1, QuietOwesNothing
      <3>3. Links(d) = 0
        BY <2>1, <3>1, <3>2, FS_EmptySet DEF Links
      <3>4. dinode[d].nlink = Links(d)
        BY <2>1 DEF TInv, Tree, Counting
      <3> QED
        BY <2>1, <3>3, <3>4
    <2>3. PICK l : l \in Names(d)
      BY <2>2
    <2>4. l[1] = i
      BY <2>1, <2>3 DEF TInv, Tree, OneName
    <2>5. l[2] \in Name \ Dots /\ dir[l[1]][l[2]] = d
      BY <2>3 DEF Names
    <2>6. d # 0
      BY <2>1, DirTypes
    <2>7. l[2] \in SubEntries(i)
      BY <2>1, <2>4, <2>5, <2>6 DEF SubEntries
    <2> QED
      BY <2>4, <2>5, <2>7
  <1>5. PICK f : f = [n \in SubEntries(i) |-> dir[i][n]]
    OBVIOUS
  <1>6. f \in [SubEntries(i) -> Subdirs(i)]
    BY <1>3, <1>5
  <1>7. ASSUME NEW n \in SubEntries(i), NEW m \in SubEntries(i), f[n] = f[m]
        PROVE  n = m
    <2>1. PICK d : d = dir[i][n]
      OBVIOUS
    <2>2. d = dir[i][m]
      BY <1>5, <1>7, <2>1
    <2>3. Names(d) = {<<i, n>>} /\ Names(d) = {<<i, m>>}
      BY <1>2, <2>1, <2>2
    <2>4. <<i, n>> \in {<<i, m>>}
      BY <2>3
    <2> QED
      BY <2>4
  <1>8. \A d \in Subdirs(i) : \E n \in SubEntries(i) : f[n] = d
    BY <1>4, <1>5
  <1>9. IsFiniteSet(SubEntries(i))
    BY LinkSets
  <1> QED
    BY <1>6, <1>7, <1>8, <1>9, OneToOne

\* Link counts are the numbers of names.
LEMMA NamesAreCounted ==
  ASSUME IInv, TInv
  PROVE  LinksAreNames
  <1> SUFFICES ASSUME Quiet, NEW i \in Inum \ lost
               PROVE  dinode[i].nlink = Cardinality(Names(i)) + Cardinality(Subdirs(i)) + (IF i = ROOTINO THEN 1 ELSE 0)
    BY DEF LinksAreNames
  <1>1. PICK a, b, c : a = Cardinality(Names(i)) /\ b = Cardinality(SubEntries(i)) /\ c = Cardinality(Owers(i))
    OBVIOUS
  <1>2. a \in Nat /\ b \in Nat /\ c = 0
    BY <1>1, LinkSets, QuietOwesNothing, FS_EmptySet
  <1>3. dinode[i].nlink = a + b + c + (IF i = ROOTINO THEN 1 ELSE 0)
    BY <1>1 DEF TInv, Tree, Counting, Links
  <1>4. b = Cardinality(Subdirs(i))
    BY <1>1, SubdirsAreEntries
  <1>5. dinode[i].nlink = a + b + (IF i = ROOTINO THEN 1 ELSE 0)
    BY <1>2, <1>3
  <1> QED
    BY <1>1, <1>4, <1>5
-----------------------------------------------------------------------------
(* Locks *)

\* Places where a path locks an inode.
Wanting == {"linkbad", "walk", "createdp", "createfound", "createip", "unlinkdp", "unlinkip",
            "linkinc", "linkdp", "chdirip", "openip", "writei"}

\* What a path locks next is in use and allocated, and it has a directory locked only in unlink
\* and while it makes an inode.
LEMMA WantedFacts ==
  ASSUME IInv, TInv, NEW p \in Proc, Wanted(p) # 0
  PROVE  /\ th[p].at \in Wanting /\ th[p].puts = <<>> /\ Eff(th[p]) = th[p].at
         /\ Wanted(p) \in Slot /\ itable[Wanted(p)].ref > 0
         /\ dinode[Ino(Wanted(p))].type # "none"
         /\ \A s \in Slot : itable[s].lock = p => th[p].at \in {"createip", "unlinkip"} /\ s = th[p].dp
  <1>1. th[p].at \in Wanting /\ th[p].at \notin Putting
    BY DEF Wanted, At, Wanting, Putting
  <1>2. /\ th[p].puts = <<>> /\ Eff(th[p]) = th[p].at /\ \A s \in Slot : ~Frees(th[p], s)
    BY <1>1, Standing
  <1>3. ASSUME At(p, "linkbad")
        PROVE  Wanted(p) \in Slot /\ itable[Wanted(p)].ref > 0 /\ dinode[Ino(Wanted(p))].type # "none"
    <2>1. Wanted(p) = th[p].tgt /\ Ref(p, "tgt") = th[p].tgt
      BY <1>3 DEF Wanted, Ref, Held1
    <2>2. th[p].tgt \in Slot /\ itable[th[p].tgt].ref > 0
      BY <2>1, InUse
    <2>3. In(p, "tgt") = Ino(Wanted(p)) /\ "tgt" \in LocalVar
      BY <2>1 DEF In, LocalVar
    <2>4. Ino(Wanted(p)) # 0
      <3>1. itable[th[p].tgt].inum \in Inum
        BY <2>2, InUse
      <3> QED
        BY <2>1, <3>1, DirTypes DEF Ino
    <2>5. dinode[Ino(Wanted(p))].type # "none"
      BY <2>3, <2>4 DEF TInv, Allocated
    <2> QED
      BY <2>1, <2>2, <2>5
  <1>4. ASSUME At(p, "writei")
        PROVE  Wanted(p) \in Slot /\ itable[Wanted(p)].ref > 0 /\ dinode[Ino(Wanted(p))].type # "none"
    <2>1. Wanted(p) = th[p].ip
      BY <1>4 DEF Wanted, At
    <2>2. AtHand(p, Ino(th[p].ip))
      BY <1>4, UserFile DEF At
    <2>3. th[p].ip \in Slot /\ itable[th[p].ip].ref > 0
      BY <2>1, InUse
    <2> QED
      BY <2>1, <2>2, <2>3 DEF AtHand
  <1>5. ASSUME ~At(p, "linkbad") /\ ~At(p, "writei")
        PROVE  Wanted(p) \in Slot /\ itable[Wanted(p)].ref > 0 /\ dinode[Ino(Wanted(p))].type # "none"
    <2>1. Wanted(p) = th[p].ip
      BY <1>5 DEF Wanted
    <2>2. th[p].at \in HasIp \ {"writei", "opentrunc"}
      BY <1>1, <1>5 DEF At, Wanting, HasIp
    <2>3. th[p].ip \in Slot /\ itable[th[p].ip].ref > 0 /\ In(p, "ip") = Ino(th[p].ip) /\ In(p, "ip") \in Inum
      BY <1>2, <2>2, Stood
    <2>4. In(p, "ip") # 0 /\ "ip" \in LocalVar
      BY <2>3, Sizes DEF Inum, LocalVar
    <2>5. dinode[In(p, "ip")].type # "none"
      BY <2>4 DEF TInv, Allocated
    <2> QED
      BY <2>1, <2>3, <2>5
  <1>6. ASSUME NEW s \in Slot, itable[s].lock = p
        PROVE  th[p].at \in {"createip", "unlinkip"} /\ s = th[p].dp
    <2>1. KeepsLocked(th[p], s)
      BY <1>2, <1>6 DEF TInv, Locking
    <2> QED
      BY <1>1, <1>2, <2>1 DEF KeepsLocked, Keeping, HasDp, Wanting
  <1> QED
    BY <1>1, <1>2, <1>3, <1>4, <1>5, <1>6

\* What create() makes is locked by nobody.
LEMMA NewIsUnlocked ==
  ASSUME IInv, TInv, NEW p \in Proc, At(p, "createip"), NEW r \in Proc, Wanted(r) # 0
  PROVE  itable[th[p].ip].lock # r
  <1> SUFFICES ASSUME itable[th[p].ip].lock = r
               PROVE  FALSE
    OBVIOUS
  <1>1. th[p].at = "createip" /\ th[p].at \notin Putting
    BY DEF At, Putting
  <1>2. Eff(th[p]) = "createip"
    BY <1>1, Standing
  <1>3. th[p].ip \in Slot /\ In(p, "ip") = Ino(th[p].ip) /\ In(p, "ip") \in Inum
    BY <1>2, Stood DEF HasIp
  <1>4. Claims(p, In(p, "ip")) /\ ClaimVar(p) = "ip"
    BY <1>1, <1>2 DEF Claims, Making, New, ClaimVar, Freeing
  <1>5. Alone(p, In(p, "ip")) /\ \A v \in LocalVar : In(p, v) = In(p, "ip") => v = "ip"
    BY <1>3, <1>4 DEF TInv, Exclusive
  <1>6. Eff(th[r]) \in HasDp /\ th[p].ip = th[r].dp
    BY <1>3, WantedFacts DEF HasDp
  <1>7. In(r, "dp") = Ino(th[r].dp)
    BY <1>6, Stood
  <1>8. In(r, "dp") = In(p, "ip") /\ "dp" \in LocalVar /\ "dp" # "ip"
    BY <1>3, <1>6, <1>7 DEF LocalVar
  <1>9. CASE r = p
    BY <1>5, <1>8, <1>9
  <1>10. CASE r # p
    BY <1>5, <1>8, <1>10 DEF Alone
  <1> QED
    BY <1>9, <1>10

\* No processes wait for one another: what a path has locked is a directory with what it waits for in it.
LEMMA NoLockCycle ==
  ASSUME IInv, TInv
  PROVE  NoInodeLockCycle
  <1> SUFFICES ASSUME NEW S \in (SUBSET Proc) \ {{}}, \A p \in S : Wanted(p) # 0 /\ itable[Wanted(p)].lock \in S
               PROVE  FALSE
    BY DEF NoInodeLockCycle
  <1>1. PICK H : H = {q \in S : \E p \in S : itable[Wanted(p)].lock = q}
    OBVIOUS
  <1>2. ASSUME NEW q \in H
        PROVE  /\ q \in S /\ q \in Proc /\ th[q].at = "unlinkip" /\ Eff(th[q]) = "unlinkip" /\ Wanted(q) = th[q].ip
               /\ In(q, "dp") = Ino(th[q].dp) /\ In(q, "dp") \in Inum
               /\ In(q, "ip") = Ino(th[q].ip) /\ In(q, "ip") \in Inum
               /\ Lists(In(q, "dp"), In(q, "ip"))
               /\ \E r \in H : In(r, "dp") = In(q, "ip")
    <2>1. PICK p \in S : q \in S /\ itable[Wanted(p)].lock = q
      BY <1>1, <1>2
    <2>2. Wanted(p) # 0 /\ Wanted(q) # 0 /\ p \in Proc /\ q \in Proc
      BY <2>1
    <2>3. Wanted(p) \in Slot
      BY <2>2, WantedFacts
    <2>4. th[q].at \in {"createip", "unlinkip"} /\ Eff(th[q]) = th[q].at /\ th[q].puts = <<>>
      BY <2>1, <2>2, <2>3, WantedFacts
    <2>5. Wanted(q) = th[q].ip
      BY <2>4 DEF Wanted, At
    <2>6. PICK r \in S : r = itable[th[q].ip].lock
      BY <2>1, <2>5
    <2>7. r \in H /\ r \in Proc /\ Wanted(r) # 0
      BY <1>1, <2>1, <2>5, <2>6
    <2>8. th[q].at = "unlinkip"
      BY <2>2, <2>4, <2>6, <2>7, NewIsUnlocked DEF At
    <2>9. /\ In(q, "dp") = Ino(th[q].dp) /\ In(q, "dp") \in Inum
          /\ In(q, "ip") = Ino(th[q].ip) /\ In(q, "ip") \in Inum
      BY <2>2, <2>4, <2>8, Stood DEF HasIp, HasDp
    <2>10. Lists(In(q, "dp"), In(q, "ip"))
      <3>1. LastOf(th[q].path) \notin Dots /\ dir[In(q, "dp")][LastOf(th[q].path)] = In(q, "ip")
        BY <2>2, <2>4, <2>8 DEF TInv, Stands, Unlinks
      <3>2. LastOf(th[q].path) \in Name
        BY <2>2, <2>4, <2>8, SoughtIsName DEF Naming
      <3> QED
        BY <3>1, <3>2 DEF Lists
    <2>11. th[q].ip = th[r].dp /\ th[r].at \in {"createip", "unlinkip"} /\ Eff(th[r]) = th[r].at
      <3>1. th[q].ip \in Slot
        BY <2>2, <2>5, WantedFacts
      <3> QED
        BY <2>6, <2>7, <3>1, WantedFacts
    <2>12. In(r, "dp") = Ino(th[r].dp)
      BY <2>7, <2>11, Stood DEF HasDp
    <2>13. In(r, "dp") = In(q, "ip")
      BY <2>9, <2>11, <2>12
    <2> QED
      BY <2>1, <2>2, <2>4, <2>5, <2>7, <2>8, <2>9, <2>10, <2>13
  <1>3. PICK D : D = {i \in Inum : \E q \in H : In(q, "dp") = i}
    OBVIOUS
  <1>4. D \in (SUBSET Inum) \ {{}}
    <2>1. PICK p \in S : TRUE
      OBVIOUS
    <2>2. itable[Wanted(p)].lock \in H
      BY <1>1, <2>1
    <2>3. \E i \in D : TRUE
      BY <1>2, <1>3, <2>2
    <2> QED
      BY <1>3, <2>3
  <1>5. PICK i \in D : \A j \in D : ~Lists(i, j)
    BY <1>4 DEF TInv, Tree, Acyclic
  <1>6. PICK q \in H : In(q, "dp") = i
    BY <1>3, <1>5
  <1>7. In(q, "ip") \in D /\ Lists(i, In(q, "ip"))
    BY <1>2, <1>3, <1>6
  <1> QED
    BY <1>5, <1>7
-----------------------------------------------------------------------------
(* The inode table *)

\* There is always an entry: for every inode of the disk, or for every reference there can be.
TableIsLarge == NINODE >= NINODES \/ NINODE >= 6 * Cardinality(Proc) + NFILE

\* The slots are as many as NINODE says, and the variables that may refer to them no more than these.
LEMMA HowMany ==
  /\ IsFiniteSet(Slot) /\ Cardinality(Slot) = NINODE /\ IsFiniteSet(Inum) /\ Cardinality(Inum) = NINODES
  /\ IsFiniteSet(Holder) /\ Cardinality(Holder) = 6 * Cardinality(Proc) + NFILE
  <1>1. IsFiniteSet(Slot) /\ Cardinality(Slot) = NINODE /\ IsFiniteSet(Inum) /\ Cardinality(Inum) = NINODES
    BY Sizes, FS_Interval DEF Slot, Inum
  <1>2. IsFiniteSet(File) /\ Cardinality(File) = NFILE
    BY Sizes, FS_Interval DEF File
  <1>3. IsFiniteSet(LocalVar) /\ Cardinality(LocalVar) = 6
    <2>1. IsFiniteSet({"cwd"}) /\ Cardinality({"cwd"}) = 1
      BY FS_Singleton
    <2>2. PICK s2 : s2 = {"cwd"} \cup {"ip"}
      OBVIOUS
    <2>3. IsFiniteSet(s2) /\ Cardinality(s2) = 2
      BY <2>1, <2>2, FS_AddElement
    <2>4. PICK s3 : s3 = s2 \cup {"dp"}
      BY Zenon
    <2>5. IsFiniteSet(s3) /\ Cardinality(s3) = 3
      BY <2>2, <2>3, <2>4, FS_AddElement
    <2>6. PICK s4 : s4 = s3 \cup {"tgt"}
      BY Zenon
    <2>7. IsFiniteSet(s4) /\ Cardinality(s4) = 4
      BY <2>2, <2>4, <2>5, <2>6, FS_AddElement
    <2>8. PICK s5 : s5 = s4 \cup {"put1"}
      BY Zenon
    <2>9. IsFiniteSet(s5) /\ Cardinality(s5) = 5
      BY <2>2, <2>4, <2>6, <2>7, <2>8, FS_AddElement
    <2>10. PICK s6 : s6 = s5 \cup {"put2"}
      BY Zenon
    <2>11. IsFiniteSet(s6) /\ Cardinality(s6) = 6
      BY <2>2, <2>4, <2>6, <2>8, <2>9, <2>10, FS_AddElement
    <2>12. s6 = LocalVar
      BY <2>2, <2>4, <2>6, <2>8, <2>10 DEF LocalVar
    <2> QED
      BY <2>11, <2>12
  <1>4. PICK n \in Nat : n = Cardinality(Proc)
    BY Sizes, FS_CardinalityType
  <1>5. IsFiniteSet(Proc \X LocalVar) /\ Cardinality(Proc \X LocalVar) = n * 6
    BY <1>3, <1>4, Sizes, FS_Product
  <1>6. IsFiniteSet(File \X {"file"}) /\ Cardinality(File \X {"file"}) = NFILE
    BY <1>2, Tagged
  <1>7. (Proc \X LocalVar) \cap (File \X {"file"}) = {}
    BY DEF LocalVar
  <1>8. IsFiniteSet(Holder) /\ Cardinality(Holder) = n * 6 + NFILE
    BY <1>5, <1>6, <1>7, Apart DEF Holder
  <1> QED
    BY <1>1, <1>4, <1>8

\* In a table where every entry is in use, with none for i, there are fewer entries than inodes.
LEMMA EntriesPerInode ==
  ASSUME IInv, NEW i \in Inum, Unused(itable) = {}, Cached(itable, i) = {}
  PROVE  NINODE < NINODES
  <1>1. \A s \in Slot : itable[s].ref > 0 /\ itable[s].inum \in Inum \ {i}
    <2> TAKE s \in Slot
    <2>1. itable[s].ref \in Nat /\ itable[s].inum \in Inum
      BY VarsAreCounted DEF IInv, TypeOK, Entry
    <2>2. itable[s].ref # 0
      BY DEF Unused
    <2>3. itable[s].inum # i
      BY <2>1, <2>2 DEF Cached
    <2> QED
      BY <2>1, <2>2, <2>3
  <1>2. PICK f : f = [s \in Slot |-> itable[s].inum]
    OBVIOUS
  <1>3. f \in [Slot -> Inum \ {i}]
    BY <1>1, <1>2
  <1>4. \A s, t \in Slot : f[s] = f[t] => s = t
    BY <1>1, <1>2 DEF IInv, CacheInv
  <1>5. IsFiniteSet(Inum \ {i}) /\ Cardinality(Inum \ {i}) = NINODES - 1
    BY HowMany, FS_RemoveElement
  <1>6. Cardinality(Slot) <= Cardinality(Inum \ {i})
    BY <1>3, <1>4, <1>5, OneToOneInto
  <1> QED
    BY <1>5, <1>6, HowMany, Sizes

\* Where every entry is in use and some variable refers to none, there are fewer entries than variables.
LEMMA EntriesPerVariable ==
  ASSUME IInv, NEW a \in Holder, Holds[a] = 0, Unused(itable) = {}
  PROVE  NINODE < 6 * Cardinality(Proc) + NFILE
  <1>1. ASSUME NEW s \in Slot
        PROVE  \E h \in Holder \ {a} : Holds[h] = s
    <2>1. itable[s].ref = Count(Holds, s) /\ itable[s].ref # 0 /\ s # 0
      BY Sizes DEF IInv, RefInv, Unused, Slot
    <2>2. {h \in Holder : Holds[h] = s} # {}
      BY <2>1, FS_EmptySet DEF Count
    <2> QED
      BY <2>1, <2>2
  <1>2. PICK f : f = [s \in Slot |-> CHOOSE h \in Holder \ {a} : Holds[h] = s]
    OBVIOUS
  <1>3. \A s \in Slot : f[s] \in Holder \ {a} /\ Holds[f[s]] = s
    BY <1>1, <1>2
  <1>4. f \in [Slot -> Holder \ {a}]
    BY <1>2, <1>3
  <1>5. \A s, t \in Slot : f[s] = f[t] => s = t
    BY <1>3
  <1>6. PICK n \in Nat : n = Cardinality(Proc)
    BY Sizes, FS_CardinalityType
  <1>7. IsFiniteSet(Holder \ {a}) /\ Cardinality(Holder \ {a}) = 6 * n + NFILE - 1
    <2>1. IsFiniteSet(Holder) /\ Cardinality(Holder) = 6 * n + NFILE
      BY <1>6, HowMany
    <2>2. PICK m \in Nat : m = Cardinality(Holder)
      BY <2>1, FS_CardinalityType
    <2>3. IsFiniteSet(Holder \ {a}) /\ Cardinality(Holder \ {a}) = m - 1
      BY <2>1, <2>2, FS_RemoveElement
    <2>4. m = 6 * n + NFILE
      BY <2>1, <2>2
    <2> QED
      BY <2>3, <2>4, Sizes
  <1>8. Cardinality(Slot) <= Cardinality(Holder \ {a})
    BY <1>4, <1>5, <1>7, OneToOneInto
  <1>9. NINODE <= 6 * n + NFILE - 1
    BY <1>7, <1>8, HowMany
  <1> QED
    BY <1>6, <1>9, Sizes

\* "iget: no inodes": a path that asks for an entry drops no references, and there is one, for any inode.
EntriesSuffice == \A p \in Proc, i \in Inum : th[p].at \notin Putting => HasEntry(itable, i)

\* Where the table is large enough.
LEMMA HasEntries ==
  ASSUME IInv, TableIsLarge
  PROVE  EntriesSuffice
  <1> SUFFICES ASSUME NEW p \in Proc, NEW i \in Inum, th[p].at \notin Putting
               PROVE  HasEntry(itable, i)
    BY DEF EntriesSuffice
  <1>1. Held1(p, "put1") = 0
    BY Standing
  <1>2. PICK a : a = <<p, "put1">>
    OBVIOUS
  <1>3. a \in Holder /\ Holds[a] = 0
    BY <1>1, <1>2, HoldsAt DEF HoldsFacts, LocalVar
  <1>4. ASSUME Unused(itable) = {}, Cached(itable, i) = {}
        PROVE  FALSE
    <2>1. NINODE < NINODES
      BY <1>4, EntriesPerInode
    <2>2. NINODE < 6 * Cardinality(Proc) + NFILE
      BY <1>3, <1>4, EntriesPerVariable
    <2>3. PICK n \in Nat : n = Cardinality(Proc)
      BY Sizes, FS_CardinalityType
    <2>4. NINODE < 6 * n + NFILE /\ (NINODE >= NINODES \/ NINODE >= 6 * n + NFILE)
      BY <2>2, <2>3 DEF TableIsLarge
    <2> QED
      BY <2>1, <2>4, Sizes
  <1> QED
    BY <1>4 DEF HasEntry

\* What ialloc() has taken is in range.
LEMMA NewHasEntry ==
  ASSUME IInv, TInv, TableIsLarge, NEW p \in Proc, At(p, "iallocget")
  PROVE  HasEntry(itable, th[p].inum)
  <1>1. th[p].at = "iallocget" /\ th[p].at \notin Putting
    BY DEF At, Putting
  <1>2. Eff(th[p]) = "iallocget"
    BY <1>1, Standing
  <1>3. th[p].inum \in Inum
    BY <1>2 DEF TInv, Stands, Makes, Making, New
  <1> QED
    BY <1>1, <1>3, HasEntries DEF EntriesSuffice
-----------------------------------------------------------------------------
(* Panics *)

\* The variable "ip" or "dp" of a process that keeps an entry locked has it, or an open file has it.
LEMMA KeeperHolds ==
  ASSUME IInv, NEW q \in Proc, NEW s \in Slot, KeepsLocked(th[q], s)
  PROVE  Held1(q, "ip") = s \/ Held1(q, "dp") = s \/ OpenOn(s) # {}
  <1>1. CASE s = th[q].dp
    BY <1>1 DEF Held1
  <1>2. CASE s = th[q].ip /\ th[q].at \notin {"writei", "opentrunc"}
    BY <1>2 DEF Held1
  <1>3. CASE s = th[q].ip /\ th[q].at \in {"writei", "opentrunc"}
    <2>1. PICK d \in Fd : ofile[q][d] # 0 /\ ftable[ofile[q][d]].ip = s
      BY <1>3 DEF IInv, UserInv
    <2>2. ofile[q][d] \in File /\ ftable[ofile[q][d]].ref > 0
      BY <2>1, OpenFd DEF IInv
    <2> QED
      BY <2>1, <2>2 DEF OpenOn
  <1> QED
    BY <1>1, <1>2, <1>3 DEF KeepsLocked

\* iput() of the last reference: no other process can have ip locked.
LEMMA LastIsUnlocked ==
  ASSUME IInv, TInv, NEW p \in Proc, At(p, "iput"), NEW s, s = Head(th[p].puts), LastUnlinked(s)
  PROVE  itable[s].lock = None
  <1>1. th[p].at = "iput" /\ th[p].puts # <<>> /\ th[p].puts \in Seq(Slot)
    BY OfLocal DEF At, IInv, PathInv, Variables, Putting, TypeOK
  <1>2. Len(th[p].puts) >= 1 /\ s = th[p].puts[1]
    BY <1>1, EmptySeq, LenProperties
  <1>3. s \in Slot /\ Held1(p, "put1") = s
    BY <1>2, InUse DEF Held1
  <1>4. itable[s].ref = 1 /\ itable[s].lock \in Proc \cup {None}
    BY <1>3 DEF LastUnlinked, IInv, TypeOK, Entry
  <1>5. OpenOn(s) = {} /\ \A q \in Proc, v \in LocalVar : Held1(q, v) = s => q = p /\ v = "put1"
    <2>1. "put1" \in LocalVar \ {"cwd"} /\ "put1" \in LocalVar /\ RefInv
      BY DEF LocalVar, IInv
    <2>2. ~(itable[s].ref > 1)
      BY <1>4
    <2> QED
      BY <1>3, <2>1, <2>2, VarsAreCounted
  <1>6. ASSUME NEW q \in Proc, itable[s].lock = q
        PROVE  FALSE
    <2>1. CASE KeepsLocked(th[q], s)
      BY <1>3, <1>5, <2>1, KeeperHolds DEF LocalVar
    <2>2. CASE Frees(th[q], s)
      <3>1. th[q].at \in {"itrunc", "ifree"} /\ s = th[q].puts[1]
        BY <2>2 DEF Frees
      <3>2. Freeing(q)
        BY <3>1 DEF Freeing
      <3>3. Ref(q, "put1") = s
        BY <3>1, <3>2, Stood
      <3>4. Held1(q, "put1") = s
        BY <3>1, <3>3 DEF Ref, At
      <3>5. q = p
        BY <1>5, <3>4 DEF LocalVar
      <3> QED
        BY <1>1, <3>1, <3>5
    <2> QED
      BY <1>3, <1>6, <2>1, <2>2 DEF TInv, Locking
  <1> QED
    BY <1>4, <1>6

\* What unlink is about to remove has a name, and so a link.
LEMMA UnlinkedHasLink ==
  ASSUME IInv, TInv, NEW p \in Proc, At(p, "unlinkip"), itable[th[p].ip].lock = None
  PROVE  Loaded(th[p].ip).nlink >= 1
  <1>1. th[p].at = "unlinkip" /\ th[p].at \notin Putting
    BY DEF At, Putting
  <1>2. Eff(th[p]) = "unlinkip" /\ th[p].puts = <<>>
    BY <1>1, Standing
  <1>3. /\ th[p].ip \in Slot /\ itable[th[p].ip].ref > 0 /\ In(p, "ip") = Ino(th[p].ip) /\ In(p, "ip") \in Inum
        /\ In(p, "dp") \in Inum
    BY <1>2, Stood DEF HasIp, HasDp
  <1>4. Loaded(th[p].ip) = dinode[In(p, "ip")]
    BY <1>3 DEF Loaded, Ino, IInv, CacheInv
  <1>5. LastOf(th[p].path) \notin Dots /\ dir[In(p, "dp")][LastOf(th[p].path)] = In(p, "ip")
    BY <1>2 DEF TInv, Stands, Unlinks
  <1>6. LastOf(th[p].path) \in Name
    BY <1>1, <1>2, SoughtIsName DEF Naming
  <1>7. dinode[In(p, "dp")].type = "dir"
    <2>1. In(p, "dp") # 0
      BY <1>3, DirTypes
    <2> QED
      BY <2>1 DEF TInv, Stands, Homes, Folder, IsDir
  <1>8. <<In(p, "dp"), LastOf(th[p].path)>> \in Names(In(p, "ip"))
    BY <1>3, <1>5, <1>6, <1>7 DEF Names
  <1>9. dinode[In(p, "ip")].nlink \in Nat /\ dinode[In(p, "ip")].nlink # 0
    BY <1>3, <1>8, LinkCounts
  <1> QED
    BY <1>4, <1>9

\* No path is before a panic.
LEMMA NoPanic ==
  ASSUME IInv, TInv, TableIsLarge
  PROVE  NeverPanics
  <1>1. NoInodeLockCycle
    BY NoLockCycle
  <1>2. ASSUME NEW p \in Proc
        PROVE  /\ Wanted(p) # 0 /\ itable[Wanted(p)].lock = None => Loaded(Wanted(p)).type # "none"
               /\ At(p, "unlinkip") /\ itable[th[p].ip].lock = None => Loaded(th[p].ip).nlink >= 1
               /\ At(p, "itrunc") => itable[Head(th[p].puts)].d.addrs \subseteq used
               /\ At(p, "iallocget") => HasEntry(itable, th[p].inum)
               /\ At(p, "iput") /\ LastUnlinked(Head(th[p].puts)) => itable[Head(th[p].puts)].lock = None
    <2>1. Wanted(p) # 0 => Loaded(Wanted(p)).type # "none"
      <3> SUFFICES ASSUME Wanted(p) # 0
                   PROVE  Loaded(Wanted(p)).type # "none"
        OBVIOUS
      <3>1. Wanted(p) \in Slot /\ itable[Wanted(p)].ref > 0 /\ dinode[Ino(Wanted(p))].type # "none"
        BY WantedFacts
      <3> QED
        BY <3>1 DEF Loaded, Ino, IInv, CacheInv
    <2>2. At(p, "itrunc") => itable[Head(th[p].puts)].d.addrs \subseteq used
      <3> SUFFICES ASSUME At(p, "itrunc")
                   PROVE  itable[Head(th[p].puts)].d.addrs \subseteq used
        OBVIOUS
      <3>1. Freeing(p)
        BY DEF Freeing, At
      <3>2. PICK s : s = th[p].puts[1]
        OBVIOUS
      <3>3. s \in Slot /\ itable[s].ref > 0 /\ itable[s].valid
        BY <3>1, <3>2, Stood
      <3>4. Head(th[p].puts) = s
        BY <3>2 DEF Head
      <3>5. itable[s].d = dinode[itable[s].inum] /\ itable[s].inum \in Inum
        BY <3>3 DEF IInv, CacheInv, TypeOK, Entry
      <3>6. used = UNION {dinode[i].addrs : i \in Inum}
        BY DEF IInv, BlockInv, BlocksOwnedOnce
      <3> QED
        BY <3>4, <3>5, <3>6
    <2> QED
      BY <2>1, <2>2, UnlinkedHasLink, NewHasEntry, LastIsUnlocked
  <1> QED
    BY <1>1, <1>2 DEF NeverPanics
-----------------------------------------------------------------------------
\* The invariant of the tree, over every step but one that asks a removed directory for its
\* parent, whatever else the processes call and wherever they are preempted.
THEOREM TreeInvariant == Spec /\ [][StaysInTree]_vars => []TInv
  <1>1. Init => TInv
    BY TreeInit
  <1>2. IInv /\ TInv /\ [Next]_vars /\ [StaysInTree]_vars => TInv'
    BY TreeNext, TreeStutter
  <1>3. Spec => []IInv
    BY InodesInvariant
  <1> QED
    BY <1>1, <1>2, <1>3, PTL DEF Spec

\* create(), sys_link(), sys_unlink() and iput(): nlink is the number of links to the inode,
\* between calls.
THEOREM LinkCountsAreExact == Spec /\ [][StaysInTree]_vars => []LinksAreNames
  <1>1. Spec => []IInv
    BY InodesInvariant
  <1>2. IInv /\ TInv => LinksAreNames
    BY NamesAreCounted
  <1> QED
    BY <1>1, <1>2, TreeInvariant, PTL

\* ilock() in namex(), create() and sys_unlink(): no processes wait for one another's inodes,
\* whatever the sizes of the tables are.
THEOREM InodeLocksHaveNoCycle == Spec /\ [][StaysInTree]_vars => []NoInodeLockCycle
  <1>1. Spec => []IInv
    BY InodesInvariant
  <1>2. IInv /\ TInv => NoInodeLockCycle
    BY NoLockCycle
  <1> QED
    BY <1>1, <1>2, TreeInvariant, PTL

\* iget() always finds an entry, for any inode, in a table with one for every inode of the disk or
\* for every reference that processes and files can have.
THEOREM InodeTableSuffices ==
  ASSUME TableIsLarge
  PROVE  Spec => []EntriesSuffice
  <1>1. Spec => []IInv
    BY InodesInvariant
  <1>2. IInv => EntriesSuffice
    BY HasEntries
  <1> QED
    BY <1>1, <1>2, PTL

\* In such a table no path stands before a panic or in a cycle of locks.
THEOREM PathsNeverPanic ==
  ASSUME TableIsLarge
  PROVE  Spec /\ [][StaysInTree]_vars => []NeverPanics
  <1>1. Spec => []IInv
    BY InodesInvariant
  <1>2. IInv /\ TInv => NeverPanics
    BY NoPanic
  <1> QED
    BY <1>1, <1>2, TreeInvariant, PTL
=============================================================================
