-------------------------- MODULE FileSystemProofs --------------------------
(***************************************************************************)
(* The references of the inode table and of the file table are exact, and  *)
(* blocks have one owner: for any number of processes, any calls and any   *)
(* sizes of the disk and of the tables.                                    *)
(***************************************************************************)
EXTENDS FileSystem, FiniteSetTheorems, SequenceTheorems, WellFoundedInduction, NaturalsInduction, TLAPS
-----------------------------------------------------------------------------
(* The types *)

Inode == [type : {"none", "file", "dir"}, nlink : Int, addrs : SUBSET Block]
Entry == [inum : Inum, ref : Int, valid : BOOLEAN, lock : Proc \cup {None}, d : Inode]
OpenFileEntry == [ref : Int, ip : 0 .. NINODE, writable : BOOLEAN]

\* Places where a process drops references, and where it does something else.
Putting == {"iput", "itrunc", "ifree", "idrop"}
HasIp == {"walk", "openip", "chdirip", "linkinc", "createdp", "unlinkdp", "createfound", "openfile",
          "createip", "createlink", "createfail", "dropip", "unlinkip", "unlinkdec", "linkdp",
          "opentrunc", "writei"}
HasDp == {"ialloc", "iallocget", "createip", "createlink", "createfail", "dropdp", "unlinkip"}
Where == HasIp \cup HasDp \cup {"idle", "exit", "endop", "namex", "linkbad"}

AnyCall == Calls \cup {NoCall, [op |-> "close"], [op |-> "exit"]}
Local == [at : Where \cup Putting, call : AnyCall, path : Seq(Name \cup {"/"}), parent : BOOLEAN,
          ok : Where \cup {"none"}, fail : Where \cup {"none"}, then : Where \cup {"none"}, puts : Seq(Slot),
          ip : 0 .. NINODE, dp : 0 .. NINODE, tgt : 0 .. NINODE, inum : 0 .. NINODES]

Fields == {"at", "call", "path", "parent", "ok", "fail", "then", "puts", "ip", "dp", "tgt", "inum"}

TypeOK ==
  /\ dinode \in [Inum -> Inode] /\ dir \in [Inum -> [Name -> 0 .. NINODES]] /\ used \in SUBSET Block
  /\ itable \in [Slot -> Entry]
  /\ ftable \in [File -> OpenFileEntry] /\ ofile \in [Proc -> [Fd -> 0 .. NFILE]]
  /\ cwd \in [Proc -> 0 .. NINODE]
  /\ th \in [Proc -> Local]
  /\ ncalls \in 0 .. MaxCalls /\ lost \in SUBSET Inum
-----------------------------------------------------------------------------
(* The invariant *)

\* Where a path is, once the references on its list are dropped.
Eff(r) == IF r.puts = <<>> THEN r.at ELSE r.then

\* The local variables in use there.
Variables(r) ==
  /\ r.at \in Putting <=> r.puts # <<>>
  /\ Len(r.puts) <= 2
  /\ Eff(r) \in Where /\ r.at # "endop"
  /\ r.ip # 0 <=> Eff(r) \in HasIp
  /\ r.dp # 0 <=> Eff(r) \in HasDp
  /\ r.tgt # 0 <=> r.fail = "linkbad" /\ Eff(r) # "endop"
  /\ Eff(r) \in {"createlink", "createfail"} => r.ip # r.dp
  /\ Eff(r) = "iallocget" => r.inum # 0

\* Where it goes on.
Linking == {"namex", "walk", "dropdp", "linkdp", "linkbad"}
Failing == {"namex", "walk", "createdp", "ialloc", "iallocget", "createip", "createlink",
            "createfail", "dropdp", "unlinkdp", "unlinkip"}
Continues(r) ==
  /\ r.fail = "linkbad" => Eff(r) \in Linking \cup {"endop"}
  /\ Eff(r) \in {"linkdp", "linkbad"} => r.fail = "linkbad"
  /\ r.puts # <<>> => Eff(r) \notin {"writei", "opentrunc"}
  /\ Eff(r) \in Failing => r.fail \in {"endop", "linkbad"}
  /\ Eff(r) \in {"namex", "walk"} =>
       /\ r.ok \in IF r.fail = "linkbad" THEN {"linkdp"}
                   ELSE {"openip", "createdp", "unlinkdp", "linkinc", "chdirip"}
       /\ r.parent <=> r.ok \in {"linkdp", "createdp", "unlinkdp"}

\* The call it serves, and the names left of the path.
Creating == {"createdp", "createfound", "ialloc", "iallocget", "createip", "createlink", "createfail"}
Opening == {"openip", "openfile", "opentrunc"}
Serves(w, c) ==
  /\ w \in Opening => c \in Calls /\ c.op = "open"
  /\ w \in Creating => c \in Calls /\ c.op \in {"open", "mkdir"}
  /\ w = "linkinc" => c \in Calls /\ c.op = "link"
Naming == {"walk", "createdp", "unlinkdp", "linkdp", "ialloc", "iallocget", "createip", "createlink", "unlinkip"}
Asked(r) ==
  /\ Serves(IF Eff(r) \in {"namex", "walk"} THEN r.ok ELSE Eff(r), r.call)
  /\ Eff(r) = "namex" => IsPathname(r.path)
  /\ Eff(r) \in Naming => r.path \in Seq(Name) \ {<<>>}

PathInv(p) == Variables(th[p]) /\ Continues(th[p]) /\ Asked(th[p])

\* The entries a path keeps locked, and the one it lets go of.
Keeping == {"openfile", "dropip", "unlinkdec", "opentrunc", "createlink", "createfail"}
KeepsLocked(r, s) == (s = r.ip /\ Eff(r) \in Keeping) \/ (s = r.dp /\ Eff(r) \in HasDp)
Frees(r, s) == r.at \in {"itrunc", "ifree"} /\ s = r.puts[1]

LockInv(p) ==
  \A s \in Slot :
    /\ KeepsLocked(th[p], s) \/ Frees(th[p], s) => itable[s].lock = p /\ itable[s].valid
    /\ Frees(th[p], s) => /\ OpenOn(s) = {} /\ WorkingIn(s) = {} /\ ~KeepsLocked(th[p], s)
                          /\ At(p, "ifree") => itable[s].d.addrs = {}

\* What a process in user space has: a directory, and files if it has one.
UserInv(p) ==
  /\ cwd[p] = 0 => Eff(th[p]) \in {"idle", "endop"} /\ \A fd \in Fd : ofile[p][fd] = 0
  /\ th[p].at \in {"opentrunc", "writei"} =>
       \E fd \in Fd : ofile[p][fd] # 0 /\ ftable[ofile[p][fd]].ip = th[p].ip

\* Valid entries are what the disk says, and there is one for an inode.
CacheInv ==
  /\ \A s \in Slot : itable[s].ref > 0 /\ itable[s].valid =>
       itable[s].d = dinode[itable[s].inum] /\ itable[s].d.type # "none"
  /\ \A s, t \in Slot : itable[s].ref > 0 /\ itable[t].ref > 0 /\ itable[s].inum = itable[t].inum => s = t

\* The variables that may hold a reference, and what they hold.
LocalVar == {"cwd", "ip", "dp", "tgt", "put1", "put2"}
Holder == (Proc \X LocalVar) \cup (File \X {"file"})
Held1(p, v) ==
  CASE v = "cwd" -> cwd[p]
    [] v = "ip" -> IF th[p].at \in {"writei", "opentrunc"} THEN 0 ELSE th[p].ip
    [] v = "dp" -> th[p].dp
    [] v = "tgt" -> th[p].tgt
    [] v = "put1" -> IF Len(th[p].puts) >= 1 THEN th[p].puts[1] ELSE 0
    [] v = "put2" -> IF Len(th[p].puts) >= 2 THEN th[p].puts[2] ELSE 0
Holds == [h \in Holder |-> IF h[2] = "file" THEN IF ftable[h[1]].ref > 0 THEN ftable[h[1]].ip ELSE 0
                           ELSE Held1(h[1], h[2])]
Count(H, s) == Cardinality({h \in Holder : H[h] = s})

RefInv == \A s \in Slot : itable[s].ref = Count(Holds, s)
FileInv ==
  /\ \A f \in File : ftable[f].ref = Cardinality(Descriptors(f))
  /\ \A f \in File : ftable[f].ref > 0 => ftable[f].ip # 0

BlockInv == BlocksOwnedOnce /\ \A i \in Inum : dinode[i].type = "none" => dinode[i].addrs = {}

IInv ==
  /\ TypeOK
  /\ \A p \in Proc : PathInv(p)
  /\ \A p \in Proc : LockInv(p)
  /\ \A p \in Proc : UserInv(p)
  /\ CacheInv /\ InUseIsAllocated
  /\ RefInv /\ FileInv
  /\ BlockInv
-----------------------------------------------------------------------------
(* Numbers and records *)

\* A set of natural numbers has a least element.
LEMMA LeastNatural ==
  ASSUME NEW S \in SUBSET Nat, S # {}
  PROVE  Least(S) \in S
  <1> DEFINE R == OpToRel(<, Nat)
  <1>1. IsWellFoundedOn(R, Nat)
    BY NatLessThanWellFounded
  <1>2. \E m \in S : \A n \in S : ~(<<n, m>> \in R)
    <2> HIDE DEF R
    <2> QED BY <1>1, WFMin
  <1>3. \A m, n \in Nat : n < m => <<n, m>> \in R
    BY DEF OpToRel
  <1> HIDE DEF R
  <1>4. PICK m \in S : \A n \in S : ~(<<n, m>> \in R)
    BY <1>2
  <1>5. \A n \in S : ~(n < m)
    BY <1>3, <1>4
  <1>6. \A n \in S : m <= n
    BY <1>5
  <1> QED
    BY <1>6 DEF Least

\* The sizes are numbers, and None is no process.
LEMMA Sizes ==
  /\ NINODES \in Nat \ {0} /\ NBLOCKS \in Nat \ {0} /\ NINODE \in Nat \ {0}
  /\ NFILE \in Nat \ {0} /\ NOFILE \in Nat \ {0} /\ MaxCalls \in Nat \ {0}
  /\ Inum \subseteq Nat /\ Slot \subseteq Nat /\ Block \subseteq Nat /\ ROOTINO \in Inum
  /\ IsFiniteSet(Proc) /\ None \notin Proc
  BY FileSystemAssumption DEF Inum, Slot, Block, ROOTINO

\* What is known of the calls.
LEMMA CallFacts ==
  ASSUME NEW c \in Calls
  PROVE  /\ c.op \in {"open", "mkdir", "unlink", "link", "chdir"} /\ IsPathname(c.path)
         /\ c.op = "open" => {c.create, c.trunc, c.write} \subseteq BOOLEAN
         /\ c.op = "link" => IsPathname(c.new)
  BY FileSystemAssumption

\* Records of local variables, field by field.
LEMMA OfLocal ==
  ASSUME NEW r \in Local
  PROVE  /\ r = [f \in Fields |-> r[f]] /\ r.at \in Where \cup Putting /\ r.call \in AnyCall
         /\ r.path \in Seq(Name \cup {"/"}) /\ r.parent \in BOOLEAN /\ r.ok \in Where \cup {"none"}
         /\ r.fail \in Where \cup {"none"} /\ r.then \in Where \cup {"none"} /\ r.puts \in Seq(Slot)
         /\ r.ip \in 0 .. NINODE /\ r.dp \in 0 .. NINODE /\ r.tgt \in 0 .. NINODE /\ r.inum \in 0 .. NINODES
  BY DEF Local, Fields

\* A record with these fields is one of them.
LEMMA InLocal ==
  ASSUME NEW r, r = [f \in Fields |-> r[f]], r.at \in Where \cup Putting, r.call \in AnyCall,
         r.path \in Seq(Name \cup {"/"}), r.parent \in BOOLEAN, r.ok \in Where \cup {"none"},
         r.fail \in Where \cup {"none"}, r.then \in Where \cup {"none"}, r.puts \in Seq(Slot),
         r.ip \in 0 .. NINODE, r.dp \in 0 .. NINODE, r.tgt \in 0 .. NINODE, r.inum \in 0 .. NINODES
  PROVE  r \in Local
  BY DEF Local, Fields

\* Go changes the variables of one process.
LEMMA Goes ==
  ASSUME TypeOK, NEW p \in Proc, NEW r, Go(p, r)
  PROVE  /\ th'[p] = r \oplus th[p] /\ \A q \in Proc \ {p} : th'[q] = th[q]
         /\ th[p] = [f \in Fields |-> th[p][f]]
         /\ th'[p] \in Local => th' \in [Proc -> Local]
  <1>1. th' = [th EXCEPT ![p] = r \oplus th[p]]
    BY DEF Go
  <1>2. th \in [Proc -> Local]
    BY DEF TypeOK
  <1> QED
    BY <1>1, <1>2, OfLocal
-----------------------------------------------------------------------------
(* The inode table *)

Table == [Slot -> Entry]

\* Valid entries agree with disk D, and there is one for an inode.
Coherent(t, D) ==
  /\ \A s \in Slot : t[s].ref > 0 /\ t[s].valid => t[s].d = D[t[s].inum] /\ t[s].d.type # "none"
  /\ \A s, u \in Slot : t[s].ref > 0 /\ t[u].ref > 0 /\ t[s].inum = t[u].inum => s = u

\* Table t2 is t but for entry s.
But(t, t2, s) == t2 \in Table /\ \A x \in Slot \ {s} : t2[x] = t[x]

\* The fields of entry s after each operation, from those before.
LEMMA Ilocked ==
  ASSUME TypeOK, CacheInv, NEW p \in Proc, NEW s \in Slot, CanLock(s), itable[s].ref > 0
  PROVE  LET t == Ilock(p, s) IN
         /\ But(itable, t, s) /\ Coherent(t, dinode)
         /\ itable[s].lock = None /\ Loaded(s) = dinode[itable[s].inum] /\ Loaded(s).type # "none"
         /\ t[s].lock = p /\ t[s].valid /\ t[s].d = Loaded(s)
         /\ t[s].ref = itable[s].ref /\ t[s].inum = itable[s].inum
  <1> DEFINE t == Ilock(p, s)
  <1>1. itable \in Table /\ dinode \in [Inum -> Inode] /\ itable[s] \in Entry
    BY DEF TypeOK, Table
  <1>2. Loaded(s) = dinode[itable[s].inum] /\ Loaded(s) \in Inode
    BY <1>1 DEF Loaded, CacheInv, Entry
  <1>3. PICK d \in Inode : d = Loaded(s)
    BY <1>2
  <1>4. PICK e : e = [itable[s] EXCEPT !.lock = p, !.d = d, !.valid = TRUE]
    OBVIOUS
  <1>5. e.lock = p /\ e.valid /\ e.d = d /\ e.ref = itable[s].ref /\ e.inum = itable[s].inum /\ e \in Entry
    BY <1>1, <1>3, <1>4 DEF Entry
  <1>6. t = [itable EXCEPT ![s] = e]
    BY <1>3, <1>4 DEF Ilock
  <1>7. But(itable, t, s) /\ t[s] = e
    BY <1>1, <1>5, <1>6 DEF But, Table
  <1>8. /\ t[s].lock = p /\ t[s].valid /\ t[s].d = Loaded(s)
        /\ t[s].ref = itable[s].ref /\ t[s].inum = itable[s].inum
    <2> HIDE DEF t
    <2> QED BY <1>3, <1>5, <1>7
  <1>9. itable[s].lock = None /\ Loaded(s).type # "none"
    BY DEF CanLock
  <1>10. Coherent(t, dinode)
    <2> HIDE DEF t
    <2>1. \A x \in Slot : t[x].ref = itable[x].ref /\ t[x].inum = itable[x].inum
      BY <1>7, <1>8 DEF But
    <2>2. \A x \in Slot : t[x].ref > 0 /\ t[x].valid => t[x].d = dinode[t[x].inum] /\ t[x].d.type # "none"
      BY <1>2, <1>7, <1>8, <1>9 DEF But, CacheInv
    <2> QED BY <2>1, <2>2 DEF Coherent, CacheInv
  <1> QED
    BY <1>2, <1>7, <1>8, <1>9, <1>10

\* iunlock() frees the lock of an entry and leaves its other fields alone.
LEMMA Unlocked ==
  ASSUME NEW t \in Table, NEW s \in Slot
  PROVE  LET u == Unlock(t, s) IN
         /\ But(t, u, s) /\ \A D : Coherent(t, D) => Coherent(u, D)
         /\ u[s].lock = None /\ u[s].valid = t[s].valid /\ u[s].d = t[s].d
         /\ u[s].ref = t[s].ref /\ u[s].inum = t[s].inum
  <1> DEFINE u == Unlock(t, s)
  <1>1. t[s] \in Entry
    BY DEF Table
  <1>2. PICK e : e = [t[s] EXCEPT !.lock = None]
    OBVIOUS
  <1>3. e.lock = None /\ e.valid = t[s].valid /\ e.d = t[s].d /\ e.ref = t[s].ref /\ e.inum = t[s].inum /\ e \in Entry
    BY <1>1, <1>2 DEF Entry
  <1>4. u = [t EXCEPT ![s] = e]
    BY <1>2 DEF Unlock
  <1>5. But(t, u, s) /\ u[s] = e
    BY <1>3, <1>4 DEF But, Table
  <1> HIDE DEF u
  <1>6. /\ u[s].lock = None /\ u[s].valid = t[s].valid /\ u[s].d = t[s].d
        /\ u[s].ref = t[s].ref /\ u[s].inum = t[s].inum
    BY <1>3, <1>5
  <1>7. \A D : Coherent(t, D) => Coherent(u, D)
    BY <1>5, <1>6 DEF But, Coherent
  <1> QED
    BY <1>5, <1>6, <1>7 DEF u

\* Entry s of u has n references.
RefTo(t, u, s, n) == u = [t EXCEPT ![s].ref = n]

\* References more or less, to an entry that has some.
LEMMA Counted ==
  ASSUME NEW t \in Table, NEW s \in Slot, NEW n \in Int, t[s].ref > 0, NEW u, RefTo(t, u, s, n)
  PROVE  /\ But(t, u, s) /\ \A D : Coherent(t, D) => Coherent(u, D)
         /\ u[s].lock = t[s].lock /\ u[s].valid = t[s].valid /\ u[s].d = t[s].d
         /\ u[s].ref = n /\ u[s].inum = t[s].inum
  <1>1. t[s] \in Entry
    BY DEF Table
  <1>2. PICK e : e = [t[s] EXCEPT !.ref = n]
    OBVIOUS
  <1>3. e.lock = t[s].lock /\ e.valid = t[s].valid /\ e.d = t[s].d /\ e.ref = n /\ e.inum = t[s].inum /\ e \in Entry
    BY <1>1, <1>2 DEF Entry
  <1>4. u = [t EXCEPT ![s] = e]
    BY <1>2 DEF RefTo
  <1>5. But(t, u, s) /\ u[s] = e
    BY <1>3, <1>4 DEF But, Table
  <1>6. /\ u[s].lock = t[s].lock /\ u[s].valid = t[s].valid /\ u[s].d = t[s].d
        /\ u[s].ref = n /\ u[s].inum = t[s].inum
    BY <1>3, <1>5
  <1>7. \A D : Coherent(t, D) => Coherent(u, D)
    BY <1>5, <1>6 DEF But, Coherent
  <1> QED
    BY <1>5, <1>6, <1>7

\* One reference more of entry e, which is for i from now on.
LEMMA Reused ==
  ASSUME NEW t \in Table, NEW i \in Inum, NEW e \in Slot, NEW c \in BOOLEAN,
         c => t[e].ref > 0 /\ t[e].inum = i,
         ~c => t[e].ref = 0 /\ \A s \in Slot : t[s].ref > 0 => t[s].inum # i,
         NEW u \in Table, But(t, u, e), u[e].d = t[e].d, u[e].inum = i, u[e].valid = (t[e].valid /\ c),
         NEW D, Coherent(t, D)
  PROVE  Coherent(u, D)
  <1>1. u[e].valid => c /\ t[e].valid
    OBVIOUS
  <1>2. u[e].ref > 0 /\ u[e].valid => u[e].d = D[u[e].inum] /\ u[e].d.type # "none"
    <2>1. c => (t[e].ref > 0 /\ t[e].valid => t[e].d = D[t[e].inum] /\ t[e].d.type # "none")
      BY DEF Coherent
    <2> QED BY <1>1, <2>1
  <1>3. \A s \in Slot : u[s].ref > 0 /\ u[s].valid => u[s].d = D[u[s].inum] /\ u[s].d.type # "none"
    BY <1>2 DEF But, Coherent
  <1>4. \A s \in Slot \ {e} : u[s].ref > 0 => u[s].inum # i
    BY DEF But, Coherent
  <1>5. \A s, x \in Slot \ {e} : u[s].ref > 0 /\ u[x].ref > 0 /\ u[s].inum = u[x].inum => s = x
    BY DEF But, Coherent
  <1>6. \A s, x \in Slot : u[s].ref > 0 /\ u[x].ref > 0 /\ u[s].inum = u[x].inum => s = x
    BY <1>4, <1>5
  <1> QED
    BY <1>3, <1>6 DEF Coherent

\* iget(): one reference more, of an entry for i.
LEMMA Igot ==
  ASSUME NEW t \in Table, NEW i \in Inum, HasEntry(t, i), \A s \in Slot : t[s].ref >= 0
  PROVE  LET e == EntryFor(t, i)
             u == Iget(t, i)
         IN  /\ e \in Slot /\ But(t, u, e) /\ \A D : Coherent(t, D) => Coherent(u, D)
             /\ u[e].lock = t[e].lock /\ u[e].d = t[e].d /\ u[e].ref = t[e].ref + 1 /\ u[e].inum = i
             /\ t[e].ref > 0 => t[e].inum = i /\ u[e].valid = t[e].valid
  <1> DEFINE c == Cached(t, i) # {}
             u == Iget(t, i)
  <1>1. PICK e : e = EntryFor(t, i)
    OBVIOUS
  <1>2. Cached(t, i) \subseteq Slot /\ Unused(t) \subseteq Slot
    BY DEF Cached, Unused
  <1>3. c => e \in Cached(t, i)
    <2>1. c => e = Least(Cached(t, i))
      BY <1>1 DEF EntryFor
    <2> QED BY <1>2, <2>1, LeastNatural, Sizes
  <1>4. ~c => e \in Unused(t)
    <2>1. ~c => e = Least(Unused(t)) /\ Unused(t) # {}
      BY <1>1 DEF EntryFor, HasEntry
    <2> QED BY <1>2, <2>1, LeastNatural, Sizes
  <1>5. e \in Slot
    BY <1>2, <1>3, <1>4
  <1>6. c => t[e].ref > 0 /\ t[e].inum = i
    BY <1>3 DEF Cached
  <1>7. ~c => t[e].ref = 0 /\ \A s \in Slot : t[s].ref > 0 => t[s].inum # i
    BY <1>4 DEF Cached, Unused
  <1>8. u = [t EXCEPT ![e] = [t[e] EXCEPT !.ref = t[e].ref + 1, !.inum = i, !.valid = t[e].valid /\ c]]
    BY <1>1, Zenon DEF Iget
  <1>9. c \in BOOLEAN
    OBVIOUS
  <1> HIDE DEF c, u
  <1>10. t[e] \in Entry
    BY <1>5 DEF Table
  <1>11. PICK v \in BOOLEAN : v = (t[e].valid /\ c)
    BY <1>9
  <1>12. PICK f : f = [t[e] EXCEPT !.ref = t[e].ref + 1, !.inum = i, !.valid = v]
    OBVIOUS
  <1>13. /\ f.lock = t[e].lock /\ f.d = t[e].d /\ f.ref = t[e].ref + 1 /\ f.inum = i /\ f.valid = v
         /\ f \in Entry
    <2>1. t[e].ref + 1 \in Int
      BY <1>10 DEF Entry
    <2> QED BY <1>10, <1>12, <2>1 DEF Entry
  <1>14. u = [t EXCEPT ![e] = f]
    BY <1>8, <1>11, <1>12
  <1>15. But(t, u, e) /\ u[e] = f /\ u \in Table
    BY <1>5, <1>13, <1>14 DEF But, Table
  <1>16. /\ u[e].lock = t[e].lock /\ u[e].d = t[e].d /\ u[e].ref = t[e].ref + 1 /\ u[e].inum = i
         /\ u[e].valid = (t[e].valid /\ c)
    BY <1>11, <1>13, <1>15
  <1>17. \A D : Coherent(t, D) => Coherent(u, D)
    BY <1>5, <1>6, <1>7, <1>9, <1>15, <1>16, Reused
  <1>18. t[e].ref > 0 => t[e].inum = i /\ u[e].valid = t[e].valid
    <2>1. t[e].ref > 0 => c
      BY <1>7
    <2>2. t[e].valid \in BOOLEAN
      BY <1>10 DEF Entry
    <2> QED BY <1>6, <1>16, <2>1, <2>2
  <1> QED
    BY <1>1, <1>5, <1>15, <1>16, <1>17, <1>18 DEF u

\* iupdate(): the inode on the disk, and the copy in its entry.
LEMMA Iupdated ==
  ASSUME TypeOK, NEW t \in Table, NEW s \in Slot, NEW d \in Inode, Iupdate(t, s, d),
         t[s].ref > 0, Coherent(t, dinode), t[s].valid => d.type # "none"
  PROVE  /\ But(t, itable', s) /\ Coherent(itable', dinode') /\ t[s].inum \in Inum
         /\ itable'[s].lock = t[s].lock /\ itable'[s].valid = t[s].valid /\ itable'[s].d = d
         /\ itable'[s].ref = t[s].ref /\ itable'[s].inum = t[s].inum
         /\ dinode' \in [Inum -> Inode] /\ dinode'[t[s].inum] = d
         /\ \A i \in Inum \ {t[s].inum} : dinode'[i] = dinode[i]
         /\ t[s].valid => t[s].d = dinode[t[s].inum]
  <1>1. t[s] \in Entry
    BY DEF Table
  <1>2. PICK e : e = [t[s] EXCEPT !.d = d]
    OBVIOUS
  <1>3. /\ e.lock = t[s].lock /\ e.valid = t[s].valid /\ e.d = d /\ e.ref = t[s].ref /\ e.inum = t[s].inum
        /\ e \in Entry /\ t[s].inum \in Inum
    BY <1>1, <1>2 DEF Entry
  <1>4. itable' = [t EXCEPT ![s] = e]
    BY <1>2 DEF Iupdate
  <1>5. But(t, itable', s) /\ itable'[s] = e
    BY <1>3, <1>4 DEF But, Table
  <1>6. dinode' = [dinode EXCEPT ![t[s].inum] = d] /\ dinode \in [Inum -> Inode]
    BY DEF Iupdate, TypeOK
  <1>7. /\ dinode' \in [Inum -> Inode] /\ dinode'[t[s].inum] = d
        /\ \A i \in Inum \ {t[s].inum} : dinode'[i] = dinode[i]
    BY <1>3, <1>6
  <1>8. \A x \in Slot \ {s} : t[x].ref > 0 => t[x].inum \in Inum \ {t[s].inum}
    <2>1. \A x \in Slot : t[x].inum \in Inum
      BY DEF Table, Entry
    <2> QED BY <2>1 DEF Coherent
  <1>9. \A x \in Slot : /\ itable'[x].ref = t[x].ref /\ itable'[x].inum = t[x].inum
                        /\ itable'[x].valid = t[x].valid
    BY <1>3, <1>5 DEF But
  <1>10. \A x \in Slot : itable'[x].ref > 0 /\ itable'[x].valid =>
           itable'[x].d = dinode'[itable'[x].inum] /\ itable'[x].d.type # "none"
    <2>1. ASSUME NEW x \in Slot \ {s}, itable'[x].ref > 0, itable'[x].valid
          PROVE  itable'[x].d = dinode'[itable'[x].inum] /\ itable'[x].d.type # "none"
      BY <1>5, <1>7, <1>8, <2>1 DEF But, Coherent
    <2>2. itable'[s].valid => itable'[s].d = dinode'[itable'[s].inum] /\ itable'[s].d.type # "none"
      BY <1>3, <1>5, <1>7
    <2> QED BY <2>1, <2>2
  <1>11. Coherent(itable', dinode')
    BY <1>9, <1>10 DEF Coherent
  <1> QED
    BY <1>3, <1>5, <1>7, <1>11 DEF Coherent

\* The invariant of the cache, as a property of the table.
LEMMA CacheIsCoherent == (CacheInv <=> Coherent(itable, dinode)) /\ (TypeOK => itable \in Table)
  BY DEF CacheInv, Coherent, TypeOK, Table
-----------------------------------------------------------------------------
(* Blocks *)

\* One inode has other blocks: those it had are free, unless it keeps them, and those
\* it has now were its own or free.
LEMMA BlocksChange ==
  ASSUME TypeOK, BlockInv, NEW i \in Inum, dinode' \in [Inum -> Inode],
         \A j \in Inum \ {i} : dinode'[j] = dinode[j],
         NEW A, dinode'[i].addrs = A, dinode'[i].type = "none" => A = {},
         used' = (used \ dinode[i].addrs) \cup A, A \cap (used \ dinode[i].addrs) = {}
  PROVE  BlockInv'
  <1>1. used = UNION {dinode[j].addrs : j \in Inum}
    BY DEF BlockInv, BlocksOwnedOnce
  <1>2. \A j \in Inum \ {i} : dinode[j].addrs \cap dinode[i].addrs = {} /\ dinode[j].addrs \subseteq used
    <2>1. \A j \in Inum : dinode[j].addrs \subseteq used
      BY <1>1
    <2>2. \A j \in Inum \ {i} : dinode[j].addrs \cap dinode[i].addrs = {}
      BY DEF BlockInv, BlocksOwnedOnce
    <2> QED BY <2>1, <2>2
  <1>3. used \ dinode[i].addrs = UNION {dinode[j].addrs : j \in Inum \ {i}}
    BY <1>1, <1>2
  <1>4. {dinode'[j].addrs : j \in Inum} = {dinode[j].addrs : j \in Inum \ {i}} \cup {A}
    OBVIOUS
  <1>5. used' = UNION {dinode'[j].addrs : j \in Inum}
    BY <1>3, <1>4
  <1>6. \A j \in Inum \ {i} : dinode'[j].addrs \cap dinode'[i].addrs = {}
    BY <1>2
  <1>7. \A j, k \in Inum : j # k => dinode'[j].addrs \cap dinode'[k].addrs = {}
    <2>1. \A j, k \in Inum \ {i} : j # k => dinode'[j].addrs \cap dinode'[k].addrs = {}
      BY DEF BlockInv, BlocksOwnedOnce
    <2> QED BY <1>6, <2>1
  <1>8. \A j \in Inum : dinode'[j].type = "none" => dinode'[j].addrs = {}
    BY DEF BlockInv
  <1> QED
    BY <1>5, <1>7, <1>8 DEF BlockInv, BlocksOwnedOnce

\* As much for an inode whose blocks stay, or grow by one.
LEMMA BlocksGrow ==
  ASSUME TypeOK, BlockInv, NEW i \in Inum, dinode' \in [Inum -> Inode],
         \A j \in Inum \ {i} : dinode'[j] = dinode[j], dinode'[i].type # "none",
         NEW new, new \cap used = {}, dinode'[i].addrs = dinode[i].addrs \cup new, used' = used \cup new
  PROVE  BlockInv'
  <1>1. dinode[i].addrs \subseteq used
    BY DEF BlockInv, BlocksOwnedOnce
  <1>2. /\ used' = (used \ dinode[i].addrs) \cup dinode'[i].addrs
        /\ dinode'[i].addrs \cap (used \ dinode[i].addrs) = {}
    BY <1>1
  <1> QED
    BY <1>2, BlocksChange

\* Steps that leave the inodes of the disk and the bitmap alone move no block.
LEMMA BlocksStay ==
  ASSUME BlockInv, UNCHANGED <<dinode, used>>
  PROVE  BlockInv'
  BY DEF BlockInv, BlocksOwnedOnce

\* The blocks balloc() adds are free ones.
LEMMA NewBlocksAreFree ==
  ASSUME TypeOK, NEW i, NEW d, ~NoSpace(i, d)
  PROVE  NewBlocks(i, d) \subseteq Block \ used
  <1>1. CASE HasRoom(i, d)
    BY <1>1 DEF NewBlocks
  <1>2. CASE ~HasRoom(i, d)
    <2>1. Block \ used # {} /\ Block \ used \subseteq Nat
      BY <1>2, Sizes DEF NoSpace, TypeOK
    <2>2. Least(Block \ used) \in Block \ used
      BY <2>1, LeastNatural
    <2> QED BY <1>2, <2>2 DEF NewBlocks
  <1> QED
    BY <1>1, <1>2
-----------------------------------------------------------------------------
(* Counting references *)

One(x, s) == IF x = s THEN 1 ELSE 0

\* The variables that may hold a reference are finitely many.
LEMMA HolderFinite == IsFiniteSet(Holder) /\ \A S : S \subseteq Holder => IsFiniteSet(S) /\ Cardinality(S) \in Nat
  <1>1. IsFiniteSet(Proc) /\ IsFiniteSet(LocalVar) /\ IsFiniteSet(File) /\ IsFiniteSet({"file"})
    <2>1. IsFiniteSet(LocalVar)
      <3>1. LocalVar = ({"cwd"} \cup {"ip"}) \cup (({"dp"} \cup {"tgt"}) \cup ({"put1"} \cup {"put2"}))
        BY DEF LocalVar
      <3>2. \A x : IsFiniteSet({x})
        BY FS_Singleton
      <3>3. \A S, T : IsFiniteSet(S) /\ IsFiniteSet(T) => IsFiniteSet(S \cup T)
        BY FS_Union
      <3> QED BY <3>1, <3>2, <3>3, Zenon
    <2>2. IsFiniteSet(File)
      BY Sizes, FS_Interval DEF File
    <2>3. IsFiniteSet({"file"})
      BY FS_Singleton
    <2> QED BY Sizes, <2>1, <2>2, <2>3
  <1>2. IsFiniteSet(Proc \X LocalVar) /\ IsFiniteSet(File \X {"file"})
    BY <1>1, FS_Product
  <1>3. IsFiniteSet(Holder)
    BY <1>2, FS_Union DEF Holder
  <1> QED
    BY <1>3, FS_Subset, FS_CardinalityType

\* At most the variable a holds something else in G than in H.
AllBut(H, G, a) == \A h \in Holder \ {a} : G[h] = H[h]
AllButTwo(H, G, a, b) == /\ a \in Holder /\ b \in Holder /\ a # b
                         /\ \A h \in Holder \ {a, b} : G[h] = H[h]

\* One variable changes.
LEMMA CountOne ==
  ASSUME NEW H, NEW G, NEW a \in Holder, AllBut(H, G, a), NEW s
  PROVE  Count(G, s) = Count(H, s) - One(H[a], s) + One(G[a], s)
  <1> DEFINE R == {h \in Holder \ {a} : H[h] = s}
             SG == {h \in Holder : G[h] = s}
             SH == {h \in Holder : H[h] = s}
  <1>1. IsFiniteSet(R) /\ a \notin R /\ Cardinality(R) \in Nat
    <2>1. R \subseteq Holder
      OBVIOUS
    <2> QED BY <2>1, HolderFinite
  <1>2. SH = (IF H[a] = s THEN R \cup {a} ELSE R) /\ SG = (IF G[a] = s THEN R \cup {a} ELSE R)
    BY DEF AllBut
  <1> HIDE DEF R, SG, SH
  <1>3. Cardinality(R \cup {a}) = Cardinality(R) + 1
    BY <1>1, FS_AddElement
  <1>4. Cardinality(SH) = Cardinality(R) + One(H[a], s) /\ Cardinality(SG) = Cardinality(R) + One(G[a], s)
    BY <1>1, <1>2, <1>3 DEF One
  <1> QED
    BY <1>1, <1>4 DEF Count, One, SG, SH

\* Two variables change.
LEMMA CountTwo ==
  ASSUME NEW H, NEW G, NEW a, NEW b, AllButTwo(H, G, a, b), NEW s
  PROVE  Count(G, s) = Count(H, s) - One(H[a], s) + One(G[a], s) - One(H[b], s) + One(G[b], s)
  <1>1. a \in Holder /\ b \in Holder
    BY DEF AllButTwo
  <1>2. PICK M : M = [h \in Holder |-> IF h = a THEN G[a] ELSE H[h]]
    OBVIOUS
  <1>3. AllBut(H, M, a) /\ M[a] = G[a]
    BY <1>2, <1>1 DEF AllBut
  <1>4. AllBut(M, G, b) /\ M[b] = H[b]
    BY <1>2, <1>1 DEF AllBut, AllButTwo
  <1>5. Count(M, s) = Count(H, s) - One(H[a], s) + One(M[a], s)
    BY <1>3, <1>1, CountOne
  <1>6. Count(G, s) = Count(M, s) - One(M[b], s) + One(G[b], s)
    BY <1>4, <1>1, CountOne
  <1>7. Count(H, s) \in Nat /\ Count(M, s) \in Nat /\ Count(G, s) \in Nat
    BY HolderFinite DEF Count
  <1> QED
    BY <1>3, <1>4, <1>5, <1>6, <1>7 DEF One
-----------------------------------------------------------------------------
(* Who holds a reference *)

HoldsFacts ==
  /\ \A p \in Proc, v \in LocalVar : <<p, v>> \in Holder /\ Holds[<<p, v>>] = Held1(p, v)
  /\ \A f \in File : /\ <<f, "file">> \in Holder
                     /\ Holds[<<f, "file">>] = (IF ftable[f].ref > 0 THEN ftable[f].ip ELSE 0)

\* What each variable holds.
LEMMA HoldsAt == HoldsFacts
  <1>1. ASSUME NEW p \in Proc, NEW v \in LocalVar
        PROVE  <<p, v>> \in Holder /\ Holds[<<p, v>>] = Held1(p, v)
    <2>1. <<p, v>> \in Holder /\ <<p, v>>[1] = p /\ <<p, v>>[2] = v /\ v # "file"
      BY DEF Holder, LocalVar
    <2> QED BY <2>1 DEF Holds
  <1>2. ASSUME NEW f \in File
        PROVE  /\ <<f, "file">> \in Holder
               /\ Holds[<<f, "file">>] = (IF ftable[f].ref > 0 THEN ftable[f].ip ELSE 0)
    <2>1. <<f, "file">> \in Holder /\ <<f, "file">>[1] = f /\ <<f, "file">>[2] = "file"
      BY DEF Holder
    <2> QED BY <2>1 DEF Holds
  <1> QED
    BY <1>1, <1>2 DEF HoldsFacts

\* What is held has a reference, and what is held twice has two.
LEMMA HeldIsCounted ==
  ASSUME RefInv, NEW s \in Slot
  PROVE  /\ itable[s].ref \in Nat
         /\ \A h \in Holder : Holds[h] = s => itable[s].ref > 0
         /\ \A h, g \in Holder : h # g /\ Holds[h] = s /\ Holds[g] = s => itable[s].ref > 1
  <1> DEFINE S == {h \in Holder : Holds[h] = s}
  <1>1. IsFiniteSet(S) /\ itable[s].ref = Cardinality(S) /\ Cardinality(S) \in Nat
    BY HolderFinite DEF RefInv, Count
  <1>2. ASSUME NEW h \in S PROVE Cardinality(S) > 0
    <2>1. Cardinality(S) # 0
      BY <1>1, <1>2, FS_EmptySet
    <2> QED BY <1>1, <2>1
  <1>3. ASSUME NEW h \in S, NEW g \in S, h # g PROVE Cardinality(S) > 1
    <2>1. Cardinality(S \ {g}) = Cardinality(S) - 1 /\ IsFiniteSet(S \ {g}) /\ h \in S \ {g}
      BY <1>1, <1>3, FS_RemoveElement
    <2>2. Cardinality(S \ {g}) # 0
      BY <2>1, FS_EmptySet
    <2>3. Cardinality(S \ {g}) \in Nat
      BY <2>1, FS_CardinalityType
    <2> QED BY <1>1, <2>1, <2>2, <2>3
  <1> QED
    BY <1>1, <1>2, <1>3

\* The same for the variables of a process and for files.
LEMMA VarsAreCounted ==
  ASSUME RefInv, NEW s \in Slot
  PROVE  /\ itable[s].ref \in Nat
         /\ \A p \in Proc, v \in LocalVar : Held1(p, v) = s => itable[s].ref > 0
         /\ \A p, q \in Proc, v, w \in LocalVar :
              (p # q \/ v # w) /\ Held1(p, v) = s /\ Held1(q, w) = s => itable[s].ref > 1
         /\ OpenOn(s) # {} \/ WorkingIn(s) # {} => itable[s].ref > 0
         /\ \A p \in Proc, v \in LocalVar \ {"cwd"} :
              Held1(p, v) = s /\ (OpenOn(s) # {} \/ WorkingIn(s) # {}) => itable[s].ref > 1
  <1>1. itable[s].ref \in Nat
    BY HeldIsCounted
  <1>2. ASSUME NEW p \in Proc, NEW v \in LocalVar, Held1(p, v) = s PROVE itable[s].ref > 0
    BY <1>2, HoldsAt, HeldIsCounted DEF HoldsFacts
  <1>3. ASSUME NEW p \in Proc, NEW q \in Proc, NEW v \in LocalVar, NEW w \in LocalVar, p # q \/ v # w,
               Held1(p, v) = s, Held1(q, w) = s
        PROVE  itable[s].ref > 1
    <2>1. <<p, v>> # <<q, w>>
      BY <1>3
    <2> QED BY <1>3, <2>1, HoldsAt, HeldIsCounted DEF HoldsFacts
  <1>4. ASSUME OpenOn(s) # {} \/ WorkingIn(s) # {}
        PROVE  \/ \E f \in File : Holds[<<f, "file">>] = s
               \/ \E q \in Proc : Held1(q, "cwd") = s
    <2>1. ASSUME NEW f \in OpenOn(s) PROVE f \in File /\ Holds[<<f, "file">>] = s
      BY <2>1, HoldsAt DEF OpenOn, HoldsFacts
    <2>2. ASSUME NEW q \in WorkingIn(s) PROVE q \in Proc /\ Held1(q, "cwd") = s
      BY <2>2 DEF WorkingIn, Held1
    <2> QED BY <1>4, <2>1, <2>2
  <1>5. OpenOn(s) # {} \/ WorkingIn(s) # {} => itable[s].ref > 0
    <2>1. "cwd" \in LocalVar
      BY DEF LocalVar
    <2> QED BY <1>2, <1>4, <2>1, HoldsAt, HeldIsCounted DEF HoldsFacts
  <1>6. ASSUME NEW p \in Proc, NEW v \in LocalVar \ {"cwd"}, Held1(p, v) = s, OpenOn(s) # {} \/ WorkingIn(s) # {}
        PROVE  itable[s].ref > 1
    <2>1. CASE \E f \in File : Holds[<<f, "file">>] = s
      <3>1. PICK f \in File : Holds[<<f, "file">>] = s
        BY <2>1
      <3>2. <<f, "file">> # <<p, v>>
        BY DEF LocalVar
      <3> QED BY <1>6, <3>1, <3>2, HoldsAt, HeldIsCounted DEF HoldsFacts
    <2>2. CASE \E q \in Proc : Held1(q, "cwd") = s
      <3>1. "cwd" \in LocalVar
        BY DEF LocalVar
      <3> QED BY <1>3, <1>6, <2>2, <3>1
    <2> QED BY <1>4, <1>6, <2>1, <2>2
  <1> QED
    BY <1>1, <1>2, <1>3, <1>5, <1>6

\* References stay exact when p changes two of its variables, and the table follows.
LEMMA RefStep ==
  ASSUME RefInv, NEW p \in Proc, \A q \in Proc \ {p} : th'[q] = th[q], UNCHANGED <<cwd, ftable>>,
         NEW v \in LocalVar, NEW w \in LocalVar, v # w,
         \A u \in LocalVar \ {v, w} : Held1(p, u)' = Held1(p, u),
         \A s \in Slot : itable'[s].ref = itable[s].ref - One(Held1(p, v), s) + One(Held1(p, v)', s)
                                                        - One(Held1(p, w), s) + One(Held1(p, w)', s)
  PROVE  RefInv'
  <1>1. PICK H : H = Holds
    OBVIOUS
  <1>2. PICK G : G = Holds'
    OBVIOUS
  <1>3. HoldsFacts /\ HoldsFacts'
    BY HoldsAt, PTL
  <1>4. \A q \in Proc \ {p}, u \in LocalVar : Held1(q, u)' = Held1(q, u)
    BY DEF Held1, LocalVar
  <1>5. ASSUME NEW h \in Holder \ {<<p, v>>, <<p, w>>} PROVE G[h] = H[h]
    <2>1. CASE h \in Proc \X LocalVar
      <3>1. PICK q \in Proc, u \in LocalVar : h = <<q, u>>
        BY <2>1
      <3>2. Held1(q, u)' = Held1(q, u)
        BY <1>4, <1>5, <3>1
      <3> QED BY <1>3, <1>1, <1>2, <3>1, <3>2 DEF HoldsFacts
    <2>2. CASE h \in File \X {"file"}
      <3>1. PICK f \in File : h = <<f, "file">>
        BY <2>2
      <3> QED BY <1>3, <1>1, <1>2, <3>1 DEF HoldsFacts
    <2> QED BY <2>1, <2>2 DEF Holder
  <1>6. PICK a \in Holder, b \in Holder : a = <<p, v>> /\ b = <<p, w>>
    BY <1>3 DEF HoldsFacts
  <1>7. a # b /\ H[a] = Held1(p, v) /\ H[b] = Held1(p, w) /\ G[a] = Held1(p, v)' /\ G[b] = Held1(p, w)'
    BY <1>3, <1>1, <1>2, <1>6 DEF HoldsFacts
  <1>8. ASSUME NEW s \in Slot PROVE itable'[s].ref = Count(G, s)
    <2>1. Count(G, s) = Count(H, s) - One(H[a], s) + One(G[a], s) - One(H[b], s) + One(G[b], s)
      <3>1. AllButTwo(H, G, a, b)
        BY <1>5, <1>6, <1>7 DEF AllButTwo
      <3> QED BY <3>1, CountTwo
    <2>2. itable[s].ref = Count(H, s)
      BY <1>1 DEF RefInv
    <2> QED BY <1>7, <2>1, <2>2
  <1> QED
    BY <1>2, <1>8 DEF RefInv
-----------------------------------------------------------------------------
(* What a step leaves alone *)

\* Table t differs from the inode table in entries only that are free, or that nobody
\* but p has locked.
KeptIn(t, p) ==
  \A s \in Slot : itable[s].ref > 0 =>
    /\ t[s].inum = itable[s].inum
    /\ itable[s].lock \notin {None, p} =>
         t[s].lock = itable[s].lock /\ t[s].valid = itable[s].valid /\ t[s].d = itable[s].d

\* A descriptor's file is open.
LEMMA OpenFd ==
  ASSUME TypeOK, FileInv, NEW q \in Proc, NEW fd \in Fd, ofile[q][fd] # 0
  PROVE  ofile[q][fd] \in File /\ ftable[ofile[q][fd]].ref > 0 /\ ftable[ofile[q][fd]].ip \in Slot
  <1>1. PICK f : f = ofile[q][fd]
    OBVIOUS
  <1>2. f \in File
    BY <1>1 DEF TypeOK, File
  <1>3. <<q, fd>> \in Descriptors(f)
    BY <1>1 DEF Descriptors
  <1>4. IsFiniteSet(Proc \X Fd)
    <2>1. IsFiniteSet(Fd)
      BY Sizes, FS_Interval DEF Fd
    <2> QED BY <2>1, Sizes, FS_Product
  <1>5. Descriptors(f) \subseteq Proc \X Fd
    BY DEF Descriptors
  <1>6. IsFiniteSet(Descriptors(f)) /\ Cardinality(Descriptors(f)) \in Nat
    BY <1>4, <1>5, FS_Subset, FS_CardinalityType
  <1>7. Cardinality(Descriptors(f)) > 0
    BY <1>3, <1>6, FS_EmptySet
  <1>8. ftable[f].ref > 0 /\ ftable[f].ip # 0
    BY <1>2, <1>7 DEF FileInv
  <1>9. ftable[f].ip \in 0 .. NINODE
    BY <1>2 DEF TypeOK, OpenFileEntry
  <1> QED
    BY <1>1, <1>2, <1>8, <1>9, Sizes DEF Slot

\* What is locked has a reference.
LEMMA LockedIsCounted ==
  ASSUME IInv, NEW q \in Proc, NEW s \in Slot, KeepsLocked(th[q], s) \/ Frees(th[q], s)
  PROVE  itable[s].ref > 0 /\ itable[s].lock = q /\ itable[s].valid
  <1>1. RefInv /\ FileInv /\ PathInv(q) /\ UserInv(q) /\ LockInv(q) /\ TypeOK
    BY DEF IInv
  <1>2. s # 0 /\ {"ip", "dp", "put1"} \subseteq LocalVar
    BY Sizes DEF Slot, LocalVar
  <1>3. CASE s = th[q].dp
    <2>1. Held1(q, "dp") = s
      BY <1>3 DEF Held1
    <2> QED BY <1>1, <1>2, <2>1, VarsAreCounted DEF LockInv
  <1>4. CASE s = th[q].ip /\ th[q].at \notin {"writei", "opentrunc"}
    <2>1. Held1(q, "ip") = s
      BY <1>4 DEF Held1
    <2> QED BY <1>1, <1>2, <2>1, VarsAreCounted DEF LockInv
  <1>5. CASE s = th[q].ip /\ th[q].at \in {"writei", "opentrunc"}
    <2>1. PICK fd \in Fd : ofile[q][fd] # 0 /\ ftable[ofile[q][fd]].ip = s
      BY <1>1, <1>5 DEF UserInv
    <2>2. ofile[q][fd] \in OpenOn(s)
      BY <1>1, <2>1, OpenFd DEF OpenOn
    <2>3. itable[s].ref > 0
      BY <1>1, <2>2, VarsAreCounted
    <2> QED BY <1>1, <2>3 DEF LockInv
  <1>6. CASE Frees(th[q], s)
    <2>1. Len(th[q].puts) >= 1
      <3>1. th[q].puts # <<>> /\ th[q].puts \in Seq(Slot)
        BY <1>1, <1>6, OfLocal DEF Frees, PathInv, Variables, Putting, TypeOK
      <3> QED BY <3>1
    <2>2. Held1(q, "put1") = s
      BY <1>6, <2>1 DEF Frees, Held1
    <2>3. itable[s].ref > 0
      BY <1>1, <1>2, <2>2, VarsAreCounted
    <2> QED BY <1>1, <2>3 DEF LockInv
  <1> QED
    BY <1>1, <1>3, <1>4, <1>5, <1>6 DEF KeepsLocked

\* What the other processes have locked stays as it is.
LEMMA OthersLocks ==
  ASSUME IInv, NEW p \in Proc, \A q \in Proc \ {p} : th'[q] = th[q], KeptIn(itable', p),
         \A q \in Proc \ {p}, s \in Slot : Frees(th[q], s) => OpenOn(s)' = {} /\ WorkingIn(s)' = {}
  PROVE  \A q \in Proc \ {p} : LockInv(q)'
  <1> SUFFICES ASSUME NEW q \in Proc \ {p}, NEW s \in Slot
               PROVE  /\ KeepsLocked(th'[q], s) \/ Frees(th'[q], s) => itable'[s].lock = q /\ itable'[s].valid
                      /\ Frees(th'[q], s) =>
                           /\ OpenOn(s)' = {} /\ WorkingIn(s)' = {} /\ ~KeepsLocked(th'[q], s)
                           /\ At(q, "ifree")' => itable'[s].d.addrs = {}
    BY DEF LockInv
  <1>1. th'[q] = th[q] /\ LockInv(q)
    BY DEF IInv
  <1>2. ASSUME KeepsLocked(th[q], s) \/ Frees(th[q], s)
        PROVE  itable'[s].lock = q /\ itable'[s].valid /\ itable'[s].d = itable[s].d
    <2>1. itable[s].ref > 0 /\ itable[s].lock = q /\ itable[s].valid
      BY <1>2, LockedIsCounted
    <2>2. q \notin {None, p}
      BY Sizes
    <2> QED BY <2>1, <2>2 DEF KeptIn
  <1> QED
    BY <1>1, <1>2 DEF LockInv, At

\* A step that leaves the files alone: what is left to show.
LEMMA QuietStep ==
  ASSUME IInv, NEW p \in Proc, \A q \in Proc \ {p} : th'[q] = th[q], UNCHANGED files, KeptIn(itable', p),
         TypeOK', PathInv(p)', LockInv(p)', UserInv(p)', CacheInv', RefInv', BlockInv',
         \A i \in Inum : dinode'[i].type = "none" =>
           dinode[i].type = "none" \/ \E s \in Slot : Frees(th[p], s) /\ itable[s].inum = i
  PROVE  IInv'
  <1>1. ftable' = ftable /\ ofile' = ofile /\ cwd' = cwd
    BY DEF files
  <1>2. \A s \in Slot : OpenOn(s)' = OpenOn(s) /\ WorkingIn(s)' = WorkingIn(s)
    BY <1>1 DEF OpenOn, WorkingIn
  <1>3. \A q \in Proc : PathInv(q)'
    BY DEF IInv, PathInv
  <1>4. \A q \in Proc : LockInv(q)'
    <2>1. \A q \in Proc \ {p}, s \in Slot : Frees(th[q], s) => OpenOn(s)' = {} /\ WorkingIn(s)' = {}
      BY <1>2 DEF IInv, LockInv
    <2>2. \A q \in Proc \ {p} : LockInv(q)'
      BY <2>1, OthersLocks
    <2> QED BY <2>2
  <1>5. \A q \in Proc : UserInv(q)'
    BY <1>1 DEF IInv, UserInv
  <1>6. InUseIsAllocated'
    <2> SUFFICES ASSUME NEW s \in Slot, OpenOn(s) # {} \/ WorkingIn(s) # {}
                 PROVE  dinode'[itable'[s].inum].type # "none"
      BY <1>2 DEF InUseIsAllocated
    <2>1. itable[s].ref > 0 /\ dinode[itable[s].inum].type # "none"
      BY VarsAreCounted DEF IInv, InUseIsAllocated
    <2>2. itable'[s].inum = itable[s].inum
      BY <2>1 DEF KeptIn
    <2>3. ASSUME NEW u \in Slot, Frees(th[p], u), itable[u].inum = itable[s].inum PROVE FALSE
      <3>1. itable[u].ref > 0
        BY <2>3, LockedIsCounted
      <3>2. u = s
        BY <2>1, <2>3, <3>1 DEF IInv, CacheInv
      <3> QED BY <2>3, <3>2 DEF IInv, LockInv
    <2>4. itable[s].inum \in Inum
      BY DEF IInv, TypeOK, Entry
    <2> QED BY <2>1, <2>2, <2>3, <2>4
  <1>7. FileInv'
    BY <1>1 DEF IInv, FileInv, Descriptors
  <1> QED
    BY <1>3, <1>4, <1>5, <1>6, <1>7 DEF IInv

\* A step that changes the table, and neither the disk nor the files.
LEMMA TableStep ==
  ASSUME IInv, NEW p \in Proc, \A q \in Proc \ {p} : th'[q] = th[q], th' \in [Proc -> Local],
         UNCHANGED <<disk, files, lost>>, ncalls' \in 0 .. MaxCalls,
         itable' \in Table, Coherent(itable', dinode), KeptIn(itable', p),
         PathInv(p)', LockInv(p)', UserInv(p)', RefInv'
  PROVE  IInv'
  <1>1. dinode' = dinode /\ dir' = dir /\ used' = used
    BY DEF disk
  <1>2. TypeOK'
    BY <1>1 DEF IInv, TypeOK, files, Table
  <1>3. CacheInv'
    BY <1>1 DEF Coherent, CacheInv
  <1>4. BlockInv'
    BY <1>1, BlocksStay DEF IInv
  <1>5. \A i \in Inum : dinode'[i].type = "none" => dinode[i].type = "none"
    BY <1>1
  <1> QED
    BY <1>2, <1>3, <1>4, <1>5, QuietStep

\* References do not move.
LEMMA RefSame ==
  ASSUME IInv, NEW p \in Proc, \A q \in Proc \ {p} : th'[q] = th[q], UNCHANGED <<cwd, ftable>>,
         \A u \in LocalVar : Held1(p, u)' = Held1(p, u), \A s \in Slot : itable'[s].ref = itable[s].ref
  PROVE  RefInv'
  <1>1. "ip" \in LocalVar /\ "dp" \in LocalVar /\ "ip" # "dp"
    BY DEF LocalVar
  <1>2. \A s \in Slot : itable[s].ref \in Nat
    BY VarsAreCounted DEF IInv
  <1>3. \A s \in Slot : itable'[s].ref = itable[s].ref - One(Held1(p, "ip"), s) + One(Held1(p, "ip")', s)
                                                       - One(Held1(p, "dp"), s) + One(Held1(p, "dp")', s)
    BY <1>1, <1>2 DEF One
  <1> QED
    BY <1>1, <1>3, RefStep DEF IInv

\* p locks nothing more, and lets go of nothing.
KeepsNoMore(p) ==
  \A s \in Slot : /\ KeepsLocked(th'[p], s) => KeepsLocked(th[p], s)
                  /\ ~Frees(th'[p], s)

\* A step that changes local variables only.
LEMMA PathStep ==
  ASSUME IInv, NEW p \in Proc, \A q \in Proc \ {p} : th'[q] = th[q], th' \in [Proc -> Local],
         UNCHANGED <<disk, itable, files, lost>>, ncalls' \in 0 .. MaxCalls,
         PathInv(p)', UserInv(p)', KeepsNoMore(p), \A u \in LocalVar : Held1(p, u)' = Held1(p, u)
  PROVE  IInv'
  <1>1. itable' = itable /\ cwd' = cwd /\ ftable' = ftable
    BY DEF files
  <1>2. itable' \in Table /\ Coherent(itable', dinode)
    BY <1>1, CacheIsCoherent DEF IInv
  <1>3. KeptIn(itable', p)
    BY <1>1 DEF KeptIn
  <1>4. LockInv(p)'
    BY <1>1 DEF IInv, LockInv, KeepsNoMore
  <1>5. RefInv'
    BY <1>1, RefSame
  <1> QED
    BY <1>2, <1>3, <1>4, <1>5, TableStep
-----------------------------------------------------------------------------
(* begin_op() and filewrite() *)

\* Where calls go after the path.
LEMMA AfterFacts ==
  ASSUME NEW c \in Calls
  PROVE  /\ After(c) \in {"openip", "createdp", "unlinkdp", "linkinc", "chdirip"}
         /\ Parent(c) \in BOOLEAN
         /\ Parent(c) <=> After(c) \in {"linkdp", "createdp", "unlinkdp"}
         /\ Serves(After(c), c)
  <1>1. CASE c.op = "open"
    <2>1. c.create \in BOOLEAN
      BY <1>1, CallFacts
    <2> QED BY <1>1, <2>1 DEF After, Parent, Serves, Opening, Creating
  <1>2. CASE c.op = "mkdir"
    BY <1>2 DEF After, Parent, Serves, Opening, Creating
  <1>3. CASE c.op = "unlink"
    BY <1>3 DEF After, Parent, Serves, Opening, Creating
  <1>4. CASE c.op = "link"
    BY <1>4 DEF After, Parent, Serves, Opening, Creating
  <1>5. CASE c.op = "chdir"
    BY <1>5 DEF After, Parent, Serves, Opening, Creating
  <1> QED
    BY <1>1, <1>2, <1>3, <1>4, <1>5, CallFacts

\* A system call begins.
LEMMA BeginStep ==
  ASSUME IInv, NEW p \in Proc, NEW c \in Calls, Begin(p, c)
  PROVE  IInv'
  <1>1. TypeOK /\ PathInv(p) /\ UserInv(p)
    BY DEF IInv
  <1>2. PICK r : r = [at |-> "namex", call |-> c, path |-> c.path, parent |-> Parent(c), ok |-> After(c),
                      fail |-> "endop"]
    OBVIOUS
  <1>3. /\ th'[p] = r \oplus th[p] /\ \A q \in Proc \ {p} : th'[q] = th[q]
        /\ th[p] = [f \in Fields |-> th[p][f]]
        /\ th'[p] \in Local => th' \in [Proc -> Local]
    BY <1>1, <1>2, Goes DEF Begin
  <1>4. th'[p] = [f \in Fields |-> th'[p][f]]
    BY <1>2, <1>3 DEF \oplus, Fields
  <1>5. /\ th'[p].at = "namex" /\ th'[p].call = c /\ th'[p].path = c.path /\ th'[p].parent = Parent(c)
        /\ th'[p].ok = After(c) /\ th'[p].fail = "endop" /\ th'[p].then = th[p].then /\ th'[p].puts = th[p].puts
        /\ th'[p].ip = th[p].ip /\ th'[p].dp = th[p].dp /\ th'[p].tgt = th[p].tgt /\ th'[p].inum = th[p].inum
    BY <1>2, <1>3 DEF \oplus, Fields
  <1>6. th[p] \in Local /\ th[p].at = "idle" /\ cwd[p] # 0
    BY <1>1 DEF TypeOK, Begin, Idle, At
  <1>7. th[p].puts = <<>> /\ th[p].ip = 0 /\ th[p].dp = 0 /\ th[p].tgt = 0
    BY <1>1, <1>6 DEF PathInv, Variables, Continues, Eff, Putting, HasIp, HasDp, Linking
  <1>8. th'[p] \in Local
    <2>1. c \in AnyCall /\ c.path \in Seq(Name \cup {"/"})
      BY CallFacts DEF AnyCall, IsPathname
    <2>2. After(c) \in {"openip", "createdp", "unlinkdp", "linkinc", "chdirip"} /\ Parent(c) \in BOOLEAN
      BY AfterFacts
    <2>3. After(c) \in Where \cup {"none"} /\ "namex" \in Where /\ "endop" \in Where
      BY <2>2 DEF Where, HasIp
    <2> QED BY <1>4, <1>5, <1>6, <2>1, <2>2, <2>3, OfLocal, InLocal
  <1>9. PathInv(p)'
    <2>1. Variables(th'[p])
      BY <1>5, <1>7 DEF Variables, Eff, Putting, HasIp, HasDp, Where
    <2>2. Continues(th'[p])
      BY <1>5, <1>7, AfterFacts DEF Continues, Eff, Linking, Failing
    <2>3. Asked(th'[p])
      BY <1>5, <1>7, AfterFacts, CallFacts DEF Asked, Eff, Naming
    <2> QED BY <2>1, <2>2, <2>3 DEF PathInv
  <1>10. UserInv(p)'
    BY <1>5, <1>6 DEF UserInv, Begin, files
  <1>11. KeepsNoMore(p)
    BY <1>5, <1>7 DEF KeepsNoMore, KeepsLocked, Frees, Eff, Keeping, HasDp
  <1>12. \A u \in LocalVar : Held1(p, u)' = Held1(p, u)
    BY <1>5, <1>6 DEF Held1, Begin, files
  <1>13. ncalls' \in 0 .. MaxCalls
    BY <1>1, Sizes DEF Begin, Calling, TypeOK
  <1> QED
    BY <1>3, <1>8, <1>9, <1>10, <1>11, <1>12, <1>13, PathStep DEF Begin
-----------------------------------------------------------------------------
(* Locking an inode and letting it go *)

\* An inode is read under its lock: ilock(), iunlock().
LEMMA Peeked ==
  ASSUME IInv, NEW p \in Proc, NEW s \in Slot, CanLock(s), itable[s].ref > 0,
         NEW t, t = Unlock(Ilock(p, s), s)
  PROVE  /\ t \in Table /\ Coherent(t, dinode) /\ KeptIn(t, p)
         /\ \A x \in Slot : t[x].ref = itable[x].ref /\ t[x].inum = itable[x].inum
         /\ \A x \in Slot \ {s} : t[x] = itable[x]
         /\ t[s].lock = None /\ t[s].valid /\ t[s].d = Loaded(s)
         /\ itable[s].lock = None /\ Loaded(s) = dinode[itable[s].inum] /\ Loaded(s).type # "none"
  <1>1. PICK u : u = Ilock(p, s)
    OBVIOUS
  <1>2. TypeOK /\ CacheInv
    BY DEF IInv
  <1>3. /\ But(itable, u, s) /\ Coherent(u, dinode)
        /\ itable[s].lock = None /\ Loaded(s) = dinode[itable[s].inum] /\ Loaded(s).type # "none"
        /\ u[s].lock = p /\ u[s].valid /\ u[s].d = Loaded(s)
        /\ u[s].ref = itable[s].ref /\ u[s].inum = itable[s].inum
    BY <1>1, <1>2, Ilocked
  <1>4. u \in Table /\ t = Unlock(u, s)
    BY <1>1, <1>3 DEF But
  <1>5. /\ But(u, t, s) /\ Coherent(t, dinode)
        /\ t[s].lock = None /\ t[s].valid = u[s].valid /\ t[s].d = u[s].d
        /\ t[s].ref = u[s].ref /\ t[s].inum = u[s].inum
    BY <1>3, <1>4, Unlocked
  <1>6. \A x \in Slot \ {s} : t[x] = itable[x]
    BY <1>3, <1>5 DEF But
  <1>7. \A x \in Slot : t[x].ref = itable[x].ref /\ t[x].inum = itable[x].inum
    BY <1>3, <1>5, <1>6
  <1>8. KeptIn(t, p)
    BY <1>3, <1>6, <1>7 DEF KeptIn
  <1> QED
    BY <1>3, <1>5, <1>6, <1>7, <1>8 DEF But

\* A path gives up on what it found: iunlockput().
LEMMA GiveUpStep ==
  ASSUME IInv, NEW p \in Proc, NEW s \in Slot, s = th[p].ip, CanLock(s), th[p].puts = <<>>,
         th[p].at \in HasIp \ {"writei", "opentrunc"}, NEW w \in {"endop", "dropdp", "linkbad"},
         w = "dropdp" <=> th[p].at \in HasDp, w = "endop" => th[p].fail # "linkbad",
         w = "linkbad" => th[p].fail = "linkbad", w = "dropdp" => th[p].at \in Failing,
         GiveUp(p, s, w), UNCHANGED <<disk, files, ncalls, lost>>
  PROVE  IInv'
  <1>1. TypeOK /\ PathInv(p) /\ UserInv(p) /\ LockInv(p) /\ th[p] \in Local
    BY DEF IInv, TypeOK
  <1>2. PICK r : r = [ip |-> 0] \oplus [at |-> "iput", puts |-> <<s>>, then |-> w]
    OBVIOUS
  <1>3. /\ th'[p] = r \oplus th[p] /\ \A q \in Proc \ {p} : th'[q] = th[q]
        /\ th[p] = [f \in Fields |-> th[p][f]]
        /\ th'[p] \in Local => th' \in [Proc -> Local]
    BY <1>1, <1>2, Goes DEF GiveUp, PutThen
  <1>4. th'[p] = [f \in Fields |-> th'[p][f]]
    BY <1>2, <1>3 DEF \oplus, Fields
  <1>5. /\ th'[p].at = "iput" /\ th'[p].call = th[p].call /\ th'[p].path = th[p].path /\ th'[p].parent = th[p].parent
        /\ th'[p].ok = th[p].ok /\ th'[p].fail = th[p].fail /\ th'[p].then = w /\ th'[p].puts = <<s>>
        /\ th'[p].ip = 0 /\ th'[p].dp = th[p].dp /\ th'[p].tgt = th[p].tgt /\ th'[p].inum = th[p].inum
    BY <1>2, <1>3 DEF \oplus, Fields
  <1>6. th'[p] \in Local
    <2>1. w \in Where /\ "iput" \in Putting /\ 0 \in 0 .. NINODE /\ <<s>> \in Seq(Slot)
      BY Sizes DEF Where, HasDp, Putting
    <2> QED BY <1>1, <1>4, <1>5, <2>1, OfLocal, InLocal
  <1>7. Eff(th[p]) = th[p].at /\ Eff(th'[p]) = w /\ Len(th'[p].puts) = 1 /\ th'[p].puts[1] = s /\ th'[p].puts # <<>>
    BY <1>5 DEF Eff
  <1>8. PathInv(p)'
    <2>1. Variables(th[p]) /\ Continues(th[p])
      BY <1>1 DEF PathInv
    <2>2. th[p].tgt # 0 <=> th[p].fail = "linkbad"
      BY <1>7, <2>1 DEF Variables, HasIp
    <2>3. Variables(th'[p])
      BY <1>5, <1>7, <2>1, <2>2 DEF Variables, Putting, HasIp, HasDp, Where
    <2>4. Continues(th'[p])
      BY <1>5, <1>7, <2>1 DEF Continues, Linking, Failing
    <2>5. Asked(th'[p])
      BY <1>7 DEF Asked, Serves, Opening, Creating, Naming
    <2> QED BY <2>3, <2>4, <2>5 DEF PathInv
  <1>9. itable[s].ref > 0 /\ Held1(p, "ip") = s /\ \A x \in Slot : itable[x].ref \in Nat
    BY VarsAreCounted DEF IInv, Held1, LocalVar
  <1>10. /\ itable' \in Table /\ Coherent(itable', dinode) /\ KeptIn(itable', p)
         /\ \A x \in Slot : itable'[x].ref = itable[x].ref
         /\ \A x \in Slot \ {s} : itable'[x] = itable[x]
         /\ itable[s].lock = None
    <2>1. itable' = Unlock(Ilock(p, s), s)
      BY DEF GiveUp
    <2> QED BY <1>9, <2>1, Peeked
  <1>11. LockInv(p)'
    <2>1. ASSUME NEW x \in Slot, KeepsLocked(th'[p], x) PROVE KeepsLocked(th[p], x)
      BY <1>5, <1>7, <2>1 DEF KeepsLocked, HasDp, Keeping
    <2>2. \A x \in Slot : ~Frees(th'[p], x)
      BY <1>5 DEF Frees
    <2>3. ASSUME NEW x \in Slot, KeepsLocked(th'[p], x) PROVE itable'[x].lock = p /\ itable'[x].valid
      <3>1. itable[x].lock = p /\ itable[x].valid
        BY <1>1, <2>1, <2>3 DEF LockInv
      <3>2. x # s
        BY <1>10, <3>1, Sizes
      <3> QED BY <1>10, <3>1, <3>2
    <2> QED BY <2>2, <2>3 DEF LockInv
  <1>12. UserInv(p)'
    <2>1. cwd[p] # 0
      BY <1>1, <1>7 DEF UserInv, HasIp
    <2> QED BY <1>5, <2>1 DEF UserInv, files
  <1>13. RefInv'
    <2>1. /\ Held1(p, "ip") = s /\ Held1(p, "ip")' = 0 /\ Held1(p, "put1") = 0 /\ Held1(p, "put1")' = s
      BY <1>5, <1>7, <1>9 DEF Held1
    <2>2. \A u \in LocalVar \ {"ip", "put1"} : Held1(p, u)' = Held1(p, u)
      BY <1>5, <1>7 DEF Held1, LocalVar, files
    <2>3. "ip" \in LocalVar /\ "put1" \in LocalVar /\ "ip" # "put1"
      BY DEF LocalVar
    <2>4. \A x \in Slot : itable'[x].ref = itable[x].ref - One(Held1(p, "ip"), x) + One(Held1(p, "ip")', x)
                                             - One(Held1(p, "put1"), x) + One(Held1(p, "put1")', x)
      BY <1>9, <1>10, <2>1, Sizes DEF One, Slot
    <2> QED BY <1>3, <2>2, <2>3, <2>4, RefStep DEF IInv, files
  <1>14. ncalls' \in 0 .. MaxCalls
    BY <1>1 DEF TypeOK
  <1> QED
    BY <1>3, <1>6, <1>8, <1>10, <1>11, <1>12, <1>13, <1>14, TableStep
-----------------------------------------------------------------------------
(* What a step needs to know, and what is left to show of it *)

\* What a process refers to is there.
LEMMA InUse ==
  ASSUME IInv, NEW p \in Proc
  PROVE  /\ itable \in Table /\ Coherent(itable, dinode)
         /\ \A s \in Slot : itable[s].ref \in Nat /\ itable[s].inum \in Inum /\ itable[s].d \in Inode
         /\ th[p].ip # 0 => th[p].ip \in Slot /\ itable[th[p].ip].ref > 0
         /\ th[p].dp # 0 => th[p].dp \in Slot /\ itable[th[p].dp].ref > 0
         /\ th[p].tgt # 0 => th[p].tgt \in Slot /\ itable[th[p].tgt].ref > 0
         /\ cwd[p] # 0 => cwd[p] \in Slot /\ itable[cwd[p]].ref > 0
         /\ Len(th[p].puts) >= 1 => th[p].puts[1] \in Slot /\ itable[th[p].puts[1]].ref > 0
         /\ Len(th[p].puts) >= 2 => th[p].puts[2] \in Slot /\ itable[th[p].puts[2]].ref > 0
  <1>1. TypeOK /\ RefInv /\ FileInv /\ UserInv(p) /\ CacheInv
    BY DEF IInv
  <1>2. itable \in Table /\ Coherent(itable, dinode)
    BY <1>1, CacheIsCoherent
  <1>3. \A s \in Slot : itable[s].ref \in Nat
    BY <1>1, VarsAreCounted
  <1>4. \A s \in Slot : itable[s].inum \in Inum /\ itable[s].d \in Inode
    BY <1>2 DEF Table, Entry
  <1>5. LocalVar = {"cwd", "ip", "dp", "tgt", "put1", "put2"}
    BY DEF LocalVar
  <1>6. /\ th[p].ip \in 0 .. NINODE /\ th[p].dp \in 0 .. NINODE /\ th[p].tgt \in 0 .. NINODE
        /\ cwd[p] \in 0 .. NINODE /\ th[p].puts \in Seq(Slot)
    <2>1. th[p] \in Local /\ cwd[p] \in 0 .. NINODE
      BY <1>1 DEF TypeOK
    <2> QED BY <2>1, OfLocal
  <1>7. \A x \in 0 .. NINODE : x # 0 => x \in Slot
    BY Sizes DEF Slot
  <1>8. \A s \in Slot, v \in LocalVar : Held1(p, v) = s => itable[s].ref > 0
    BY <1>1, VarsAreCounted
  <1>9. th[p].dp # 0 => th[p].dp \in Slot /\ itable[th[p].dp].ref > 0
    <2>1. Held1(p, "dp") = th[p].dp
      BY DEF Held1
    <2> QED BY <1>5, <1>6, <1>7, <1>8, <2>1
  <1>10. th[p].tgt # 0 => th[p].tgt \in Slot /\ itable[th[p].tgt].ref > 0
    <2>1. Held1(p, "tgt") = th[p].tgt
      BY DEF Held1
    <2> QED BY <1>5, <1>6, <1>7, <1>8, <2>1
  <1>11. cwd[p] # 0 => cwd[p] \in Slot /\ itable[cwd[p]].ref > 0
    <2>1. Held1(p, "cwd") = cwd[p]
      BY DEF Held1
    <2> QED BY <1>5, <1>6, <1>7, <1>8, <2>1
  <1>12. Len(th[p].puts) >= 1 => th[p].puts[1] \in Slot /\ itable[th[p].puts[1]].ref > 0
    <2>1. Len(th[p].puts) >= 1 => Held1(p, "put1") = th[p].puts[1] /\ th[p].puts[1] \in Slot
      BY <1>6 DEF Held1
    <2> QED BY <1>5, <1>8, <2>1
  <1>13. Len(th[p].puts) >= 2 => th[p].puts[2] \in Slot /\ itable[th[p].puts[2]].ref > 0
    <2>1. Len(th[p].puts) >= 2 => Held1(p, "put2") = th[p].puts[2] /\ th[p].puts[2] \in Slot
      BY <1>6 DEF Held1
    <2> QED BY <1>5, <1>8, <2>1
  <1>14. th[p].ip # 0 => th[p].ip \in Slot /\ itable[th[p].ip].ref > 0
    <2>1. CASE th[p].at \in {"writei", "opentrunc"}
      <3>1. PICK fd \in Fd : ofile[p][fd] # 0 /\ ftable[ofile[p][fd]].ip = th[p].ip
        BY <1>1, <2>1 DEF UserInv
      <3>2. ofile[p][fd] \in OpenOn(th[p].ip) /\ th[p].ip \in Slot
        BY <1>1, <3>1, OpenFd DEF OpenOn
      <3>3. itable[th[p].ip].ref > 0
        BY <1>1, <3>2, VarsAreCounted
      <3> QED BY <3>2, <3>3
    <2>2. CASE th[p].at \notin {"writei", "opentrunc"}
      <3>1. Held1(p, "ip") = th[p].ip
        BY <2>2 DEF Held1
      <3> QED BY <1>5, <1>6, <1>7, <1>8, <3>1
    <2> QED BY <2>1, <2>2
  <1> QED
    BY <1>2, <1>3, <1>4, <1>9, <1>10, <1>11, <1>12, <1>13, <1>14

\* Where a path that drops no references stands.
LEMMA Standing ==
  ASSUME IInv, NEW p \in Proc, th[p].at \notin Putting
  PROVE  /\ th[p].puts = <<>> /\ Eff(th[p]) = th[p].at /\ th[p].at \in Where
         /\ Variables(th[p]) /\ Continues(th[p]) /\ Asked(th[p])
         /\ th[p].ip # 0 <=> th[p].at \in HasIp
         /\ th[p].dp # 0 <=> th[p].at \in HasDp
         /\ th[p].tgt # 0 <=> th[p].fail = "linkbad"
         /\ Held1(p, "put1") = 0 /\ Held1(p, "put2") = 0
         /\ \A s \in Slot : ~Frees(th[p], s)
         /\ th[p].at # "idle" => cwd[p] # 0
  <1>1. Variables(th[p]) /\ Continues(th[p]) /\ Asked(th[p]) /\ UserInv(p)
    BY DEF IInv, PathInv
  <1>2. th[p].puts = <<>>
    BY <1>1 DEF Variables
  <1>3. Eff(th[p]) = th[p].at
    BY <1>2 DEF Eff
  <1>4. Held1(p, "put1") = 0 /\ Held1(p, "put2") = 0
    BY <1>2 DEF Held1
  <1>5. th[p].at \in Where /\ th[p].at # "endop"
    BY <1>1, <1>3 DEF Variables
  <1>6. \A s \in Slot : ~Frees(th[p], s)
    BY DEF Frees, Putting
  <1>7. th[p].at # "idle" => cwd[p] # 0
    BY <1>1, <1>3, <1>5 DEF UserInv
  <1>8. /\ th[p].ip # 0 <=> th[p].at \in HasIp
        /\ th[p].dp # 0 <=> th[p].at \in HasDp
        /\ th[p].tgt # 0 <=> th[p].fail = "linkbad"
    BY <1>1, <1>3, <1>5 DEF Variables
  <1> QED
    BY <1>1, <1>2, <1>3, <1>4, <1>5, <1>6, <1>7, <1>8

AllButFour(H, G, a, b, c, d) ==
  /\ {a, b, c, d} \subseteq Holder /\ a # b /\ c # d /\ a # c /\ a # d /\ b # c /\ b # d
  /\ \A h \in Holder \ {a, b, c, d} : G[h] = H[h]

\* Four variables change.
LEMMA CountFour ==
  ASSUME NEW H, NEW G, NEW a, NEW b, NEW c, NEW d, AllButFour(H, G, a, b, c, d), NEW s
  PROVE  Count(G, s) = Count(H, s) - One(H[a], s) + One(G[a], s) - One(H[b], s) + One(G[b], s)
                                   - One(H[c], s) + One(G[c], s) - One(H[d], s) + One(G[d], s)
  <1>1. {a, b, c, d} \subseteq Holder
    BY DEF AllButFour
  <1>2. PICK M : M = [h \in Holder |-> IF h \in {a, b} THEN G[h] ELSE H[h]]
    OBVIOUS
  <1>3. AllButTwo(H, M, a, b) /\ M[a] = G[a] /\ M[b] = G[b]
    BY <1>2, <1>1 DEF AllButTwo, AllButFour
  <1>4. AllButTwo(M, G, c, d) /\ M[c] = H[c] /\ M[d] = H[d]
    BY <1>2, <1>1 DEF AllButTwo, AllButFour
  <1>5. Count(M, s) = Count(H, s) - One(H[a], s) + One(M[a], s) - One(H[b], s) + One(M[b], s)
    BY <1>3, CountTwo
  <1>6. Count(G, s) = Count(M, s) - One(M[c], s) + One(G[c], s) - One(M[d], s) + One(G[d], s)
    <2>1. AllButTwo(M, G, c, d)
      BY <1>4
    <2> QED BY <2>1, CountTwo
  <1>7. Count(H, s) \in Nat /\ Count(M, s) \in Nat /\ Count(G, s) \in Nat
    BY HolderFinite DEF Count
  <1> QED
    BY <1>3, <1>4, <1>5, <1>6, <1>7 DEF One

\* What a process and its files hold, when p moves and file f changes.
LEMMA HoldsSame ==
  ASSUME NEW p \in Proc, \A q \in Proc \ {p} : th'[q] = th[q] /\ cwd'[q] = cwd[q]
  PROVE  \A q \in Proc \ {p}, u \in LocalVar : Held1(q, u)' = Held1(q, u)
  BY DEF Held1, LocalVar

\* References stay exact when p changes four of its variables.
LEMMA RefFour ==
  ASSUME RefInv, NEW p \in Proc, \A q \in Proc \ {p} : th'[q] = th[q] /\ cwd'[q] = cwd[q], UNCHANGED ftable,
         NEW v \in LocalVar, NEW w \in LocalVar, NEW x \in LocalVar, NEW y \in LocalVar,
         v # w, v # x, v # y, w # x, w # y, x # y,
         \A u \in LocalVar \ {v, w, x, y} : Held1(p, u)' = Held1(p, u),
         \A s \in Slot : itable'[s].ref = itable[s].ref - One(Held1(p, v), s) + One(Held1(p, v)', s)
                                                        - One(Held1(p, w), s) + One(Held1(p, w)', s)
                                                        - One(Held1(p, x), s) + One(Held1(p, x)', s)
                                                        - One(Held1(p, y), s) + One(Held1(p, y)', s)
  PROVE  RefInv'
  <1>1. PICK H : H = Holds
    OBVIOUS
  <1>2. PICK G : G = Holds'
    OBVIOUS
  <1>3. HoldsFacts /\ HoldsFacts'
    BY HoldsAt, PTL
  <1>4. \A q \in Proc \ {p}, u \in LocalVar : Held1(q, u)' = Held1(q, u)
    BY HoldsSame
  <1>5. ASSUME NEW h \in Holder \ {<<p, v>>, <<p, w>>, <<p, x>>, <<p, y>>} PROVE G[h] = H[h]
    <2>1. CASE h \in Proc \X LocalVar
      <3>1. PICK q \in Proc, u \in LocalVar : h = <<q, u>>
        BY <2>1
      <3>2. Held1(q, u)' = Held1(q, u)
        BY <1>4, <1>5, <3>1
      <3> QED BY <1>3, <1>1, <1>2, <3>1, <3>2 DEF HoldsFacts
    <2>2. CASE h \in File \X {"file"}
      <3>1. PICK f \in File : h = <<f, "file">>
        BY <2>2
      <3> QED BY <1>3, <1>1, <1>2, <3>1 DEF HoldsFacts
    <2> QED BY <2>1, <2>2 DEF Holder
  <1>6. PICK a \in Holder, b \in Holder, c \in Holder, d \in Holder :
          a = <<p, v>> /\ b = <<p, w>> /\ c = <<p, x>> /\ d = <<p, y>>
    BY <1>3 DEF HoldsFacts
  <1>7. /\ H[a] = Held1(p, v) /\ H[b] = Held1(p, w) /\ G[a] = Held1(p, v)' /\ G[b] = Held1(p, w)'
        /\ H[c] = Held1(p, x) /\ H[d] = Held1(p, y) /\ G[c] = Held1(p, x)' /\ G[d] = Held1(p, y)'
    BY <1>3, <1>1, <1>2, <1>6 DEF HoldsFacts
  <1>8. AllButFour(H, G, a, b, c, d)
    BY <1>5, <1>6 DEF AllButFour
  <1>9. ASSUME NEW s \in Slot PROVE itable'[s].ref = Count(G, s)
    <2>1. Count(G, s) = Count(H, s) - One(H[a], s) + One(G[a], s) - One(H[b], s) + One(G[b], s)
                                    - One(H[c], s) + One(G[c], s) - One(H[d], s) + One(G[d], s)
      <3>1. AllButFour(H, G, a, b, c, d)
        BY <1>8
      <3> QED BY <3>1, CountFour
    <2>2. itable[s].ref = Count(H, s)
      BY <1>1 DEF RefInv
    <2> QED BY <1>7, <2>1, <2>2
  <1> QED
    BY <1>2, <1>9 DEF RefInv

\* References stay exact when p changes a variable and file f changes.
LEMMA RefFile ==
  ASSUME RefInv, NEW p \in Proc, \A q \in Proc \ {p} : th'[q] = th[q] /\ cwd'[q] = cwd[q],
         NEW f \in File, \A g \in File \ {f} : ftable'[g] = ftable[g],
         NEW v \in LocalVar, \A u \in LocalVar \ {v} : Held1(p, u)' = Held1(p, u),
         NEW x, x = (IF ftable[f].ref > 0 THEN ftable[f].ip ELSE 0),
         NEW y, y = (IF ftable'[f].ref > 0 THEN ftable'[f].ip ELSE 0),
         \A s \in Slot : itable'[s].ref = itable[s].ref - One(Held1(p, v), s) + One(Held1(p, v)', s)
                                                        - One(x, s) + One(y, s)
  PROVE  RefInv'
  <1>1. PICK H : H = Holds
    OBVIOUS
  <1>2. PICK G : G = Holds'
    OBVIOUS
  <1>3. HoldsFacts /\ HoldsFacts'
    BY HoldsAt, PTL
  <1>4. \A q \in Proc \ {p}, u \in LocalVar : Held1(q, u)' = Held1(q, u)
    BY HoldsSame
  <1>5. ASSUME NEW h \in Holder \ {<<p, v>>, <<f, "file">>} PROVE G[h] = H[h]
    <2>1. CASE h \in Proc \X LocalVar
      <3>1. PICK q \in Proc, u \in LocalVar : h = <<q, u>>
        BY <2>1
      <3>2. Held1(q, u)' = Held1(q, u)
        BY <1>4, <1>5, <3>1
      <3> QED BY <1>3, <1>1, <1>2, <3>1, <3>2 DEF HoldsFacts
    <2>2. CASE h \in File \X {"file"}
      <3>1. PICK g \in File : h = <<g, "file">>
        BY <2>2
      <3>2. ftable'[g] = ftable[g]
        BY <1>5, <3>1
      <3> QED BY <1>3, <1>1, <1>2, <3>1, <3>2 DEF HoldsFacts
    <2> QED BY <2>1, <2>2 DEF Holder
  <1>6. PICK a \in Holder, b \in Holder : a = <<p, v>> /\ b = <<f, "file">>
    BY <1>3 DEF HoldsFacts
  <1>7. H[a] = Held1(p, v) /\ H[b] = x /\ G[a] = Held1(p, v)' /\ G[b] = y
    BY <1>3, <1>1, <1>2, <1>6 DEF HoldsFacts
  <1>8. AllButTwo(H, G, a, b)
    <2>1. a # b
      BY <1>6 DEF LocalVar
    <2> QED BY <1>5, <1>6, <2>1 DEF AllButTwo
  <1>9. ASSUME NEW s \in Slot PROVE itable'[s].ref = Count(G, s)
    <2>1. Count(G, s) = Count(H, s) - One(H[a], s) + One(G[a], s) - One(H[b], s) + One(G[b], s)
      <3>1. AllButTwo(H, G, a, b)
        BY <1>8
      <3> QED BY <3>1, CountTwo
    <2>2. itable[s].ref = Count(H, s)
      BY <1>1 DEF RefInv
    <2> QED BY <1>7, <2>1, <2>2
  <1> QED
    BY <1>2, <1>9 DEF RefInv

\* What p has locked after a step, when it is not about to free an inode.
LEMMA LocksStep ==
  ASSUME NEW p \in Proc, LockInv(p), \A x \in Slot : ~Frees(th'[p], x),
         \A x \in Slot : KeepsLocked(th'[p], x) =>
           \/ itable'[x].lock = p /\ itable'[x].valid
           \/ KeepsLocked(th[p], x) /\ itable'[x].lock = itable[x].lock /\ itable'[x].valid = itable[x].valid
  PROVE  LockInv(p)'
  BY DEF LockInv

\* A change to an entry that is free, or that p has locked or may lock.
LEMMA KeptBut ==
  ASSUME NEW p, NEW s \in Slot, NEW t, But(itable, t, s), t[s].inum = itable[s].inum, itable[s].lock \in {None, p}
  PROVE  KeptIn(t, p)
  BY DEF But, KeptIn

\* iget() after a change to other entries.
LEMMA GotAfter ==
  ASSUME IInv, NEW p \in Proc, NEW t \in Table, KeptIn(t, p), Coherent(t, dinode),
         \A x \in Slot : t[x].ref = itable[x].ref, NEW i \in Inum, HasEntry(t, i),
         NEW e, e = EntryFor(t, i), NEW u, u = Iget(t, i)
  PROVE  /\ e \in Slot /\ u \in Table /\ Coherent(u, dinode) /\ KeptIn(u, p) /\ u[e].inum = i
         /\ \A x \in Slot : /\ u[x].ref = itable[x].ref + One(e, x) /\ u[x].lock = t[x].lock
                            /\ itable[x].ref > 0 => u[x].valid = t[x].valid /\ u[x].d = t[x].d
  <1>1. \A x \in Slot : itable[x].ref \in Nat /\ t[x].ref >= 0
    BY InUse
  <1>2. /\ e \in Slot /\ But(t, u, e) /\ Coherent(u, dinode)
        /\ u[e].lock = t[e].lock /\ u[e].d = t[e].d /\ u[e].ref = t[e].ref + 1 /\ u[e].inum = i
        /\ t[e].ref > 0 => t[e].inum = i /\ u[e].valid = t[e].valid
    BY <1>1, Igot
  <1>3. \A x \in Slot : /\ u[x].ref = itable[x].ref + One(e, x) /\ u[x].lock = t[x].lock
                        /\ itable[x].ref > 0 => u[x].valid = t[x].valid /\ u[x].d = t[x].d
    BY <1>1, <1>2 DEF But, One
  <1>4. \A x \in Slot : itable[x].ref > 0 => u[x].inum = t[x].inum
    BY <1>2 DEF But
  <1>5. KeptIn(u, p)
    BY <1>3, <1>4 DEF KeptIn
  <1> QED
    BY <1>2, <1>3, <1>5 DEF But

\* A step that leaves the files alone, with the types to show one by one.
LEMMA DiskStep ==
  ASSUME IInv, NEW p \in Proc, \A q \in Proc \ {p} : th'[q] = th[q], th' \in [Proc -> Local],
         UNCHANGED files, ncalls' \in 0 .. MaxCalls, dinode' \in [Inum -> Inode],
         dir' \in [Inum -> [Name -> 0 .. NINODES]], used' \subseteq Block, lost' \subseteq Inum,
         itable' \in Table, Coherent(itable', dinode'), KeptIn(itable', p),
         PathInv(p)', LockInv(p)', UserInv(p)', RefInv', BlockInv',
         \A i \in Inum : dinode'[i].type = "none" =>
           dinode[i].type = "none" \/ \E s \in Slot : Frees(th[p], s) /\ itable[s].inum = i
  PROVE  IInv'
  <1>1. TypeOK'
    BY DEF IInv, TypeOK, files, Table
  <1>2. CacheInv'
    BY DEF Coherent, CacheInv
  <1> QED
    BY <1>1, <1>2, QuietStep
-----------------------------------------------------------------------------
(* What the operations do to the table, in a state of the invariant *)

\* The other entries of t are those of the inode table, and s has the references it had.
Like(t, s) ==
  /\ t \in Table /\ \A x \in Slot \ {s} : t[x] = itable[x]
  /\ \A x \in Slot : t[x].ref = itable[x].ref /\ t[x].inum = itable[x].inum

\* References of an entry in use are counted anew.
LEMMA RefChanged ==
  ASSUME IInv, NEW p \in Proc, NEW s \in Slot, itable[s].ref > 0, NEW n \in Int,
         NEW u, RefTo(itable, u, s, n)
  PROVE  /\ u \in Table /\ Coherent(u, dinode) /\ KeptIn(u, p) /\ u[s].ref = n
         /\ \A x \in Slot \ {s} : u[x] = itable[x]
         /\ \A x \in Slot : /\ u[x].inum = itable[x].inum /\ u[x].lock = itable[x].lock
                            /\ u[x].valid = itable[x].valid /\ u[x].d = itable[x].d
  <1>1. itable \in Table /\ Coherent(itable, dinode)
    BY InUse
  <1>2. /\ But(itable, u, s) /\ Coherent(u, dinode)
        /\ u[s].lock = itable[s].lock /\ u[s].valid = itable[s].valid /\ u[s].d = itable[s].d
        /\ u[s].ref = n /\ u[s].inum = itable[s].inum
    BY <1>1, Counted
  <1>3. u \in Table /\ \A x \in Slot \ {s} : u[x] = itable[x]
    BY <1>2 DEF But
  <1>4. \A x \in Slot : /\ u[x].inum = itable[x].inum /\ u[x].lock = itable[x].lock
                        /\ u[x].valid = itable[x].valid /\ u[x].d = itable[x].d
    BY <1>2, <1>3
  <1>5. KeptIn(u, p)
    BY <1>4 DEF KeptIn
  <1> QED
    BY <1>2, <1>3, <1>4, <1>5

\* ilock().
LEMMA Entered ==
  ASSUME IInv, NEW p \in Proc, NEW s \in Slot, CanLock(s), itable[s].ref > 0, NEW t, t = Ilock(p, s)
  PROVE  /\ Like(t, s) /\ Coherent(t, dinode) /\ KeptIn(t, p)
         /\ t[s].lock = p /\ t[s].valid /\ t[s].d = Loaded(s) /\ itable[s].lock = None
         /\ Loaded(s) = dinode[itable[s].inum] /\ Loaded(s).type # "none" /\ Loaded(s) \in Inode
  <1>1. TypeOK /\ CacheInv
    BY DEF IInv
  <1>2. /\ But(itable, t, s) /\ Coherent(t, dinode)
        /\ itable[s].lock = None /\ Loaded(s) = dinode[itable[s].inum] /\ Loaded(s).type # "none"
        /\ t[s].lock = p /\ t[s].valid /\ t[s].d = Loaded(s)
        /\ t[s].ref = itable[s].ref /\ t[s].inum = itable[s].inum
    BY <1>1, Ilocked
  <1>3. KeptIn(t, p)
    BY <1>2, KeptBut
  <1>4. Loaded(s) \in Inode
    <2>1. itable[s].inum \in Inum
      BY InUse
    <2> QED BY <1>1, <1>2, <2>1 DEF TypeOK
  <1>5. Like(t, s)
    BY <1>2 DEF Like, But
  <1> QED
    BY <1>2, <1>3, <1>4, <1>5

\* iunlock() of an entry that p has locked.
LEMMA LetGo ==
  ASSUME IInv, NEW p \in Proc, NEW s \in Slot, itable[s].lock = p, NEW t, t = Unlock(itable, s)
  PROVE  /\ Like(t, s) /\ Coherent(t, dinode) /\ KeptIn(t, p)
         /\ t[s].lock = None /\ t[s].valid = itable[s].valid /\ t[s].d = itable[s].d
  <1>1. itable \in Table /\ Coherent(itable, dinode)
    BY InUse
  <1>2. /\ But(itable, t, s) /\ Coherent(t, dinode)
        /\ t[s].lock = None /\ t[s].valid = itable[s].valid /\ t[s].d = itable[s].d
        /\ t[s].ref = itable[s].ref /\ t[s].inum = itable[s].inum
    BY <1>1, Unlocked
  <1>3. KeptIn(t, p)
    BY <1>2, KeptBut
  <1>4. Like(t, s)
    BY <1>2 DEF Like, But
  <1> QED
    BY <1>2, <1>3, <1>4

\* iupdate() of a valid entry that p may change, with new blocks at most.
LEMMA Written ==
  ASSUME IInv, NEW p \in Proc, NEW t \in Table, NEW s \in Slot, NEW d \in Inode, Iupdate(t, s, d),
         itable[s].ref > 0, itable[s].lock \in {None, p}, KeptIn(t, p), Coherent(t, dinode),
         \A x \in Slot : t[x].ref = itable[x].ref, t[s].valid, d.type = t[s].d.type,
         NEW new, new \subseteq Block \ used, d.addrs = t[s].d.addrs \cup new, used' = used \cup new
  PROVE  /\ itable' \in Table /\ Coherent(itable', dinode') /\ KeptIn(itable', p)
         /\ \A x \in Slot \ {s} : itable'[x] = t[x]
         /\ \A x \in Slot : itable'[x].ref = itable[x].ref
         /\ itable'[s].lock = t[s].lock /\ itable'[s].valid
         /\ dinode' \in [Inum -> Inode] /\ used' \subseteq Block /\ BlockInv'
         /\ \A i \in Inum : dinode'[i].type = "none" => dinode[i].type = "none"
  <1>1. TypeOK /\ BlockInv
    BY DEF IInv
  <1>2. t[s].ref > 0 /\ t[s].d.type # "none"
    BY DEF Coherent
  <1>3. PICK i : i = t[s].inum
    OBVIOUS
  <1>4. /\ But(t, itable', s) /\ Coherent(itable', dinode') /\ i \in Inum
        /\ itable'[s].lock = t[s].lock /\ itable'[s].valid = t[s].valid /\ itable'[s].d = d
        /\ itable'[s].ref = t[s].ref /\ itable'[s].inum = t[s].inum
        /\ dinode' \in [Inum -> Inode] /\ dinode'[i] = d
        /\ \A j \in Inum \ {i} : dinode'[j] = dinode[j]
        /\ t[s].d = dinode[i]
    BY <1>1, <1>2, <1>3, Iupdated
  <1>5. BlockInv'
    <2>1. dinode'[i].type # "none" /\ dinode'[i].addrs = dinode[i].addrs \cup new /\ new \cap used = {}
      BY <1>2, <1>4
    <2> QED BY <1>1, <1>4, <2>1, BlocksGrow
  <1>6. used' \subseteq Block
    BY <1>1 DEF TypeOK
  <1>7. \A j \in Inum : dinode'[j].type = "none" => dinode[j].type = "none"
    BY <1>2, <1>4
  <1>8. \A x \in Slot \ {s} : itable'[x] = t[x]
    BY <1>4 DEF But
  <1>9. \A x \in Slot : itable'[x].ref = itable[x].ref
    BY <1>4, <1>8
  <1>10. KeptIn(itable', p)
    BY <1>4, <1>8 DEF KeptIn
  <1> QED
    BY <1>4, <1>5, <1>6, <1>7, <1>8, <1>9, <1>10 DEF But
-----------------------------------------------------------------------------
(* namex() *)

\* A path from the root: iget() of it.
LEMMA NamexRootStep ==
  ASSUME IInv, NEW p \in Proc, Namex(p), Head(th[p].path) = "/"
  PROVE  IInv'
  <1>1. PICK e : e = EntryFor(itable, ROOTINO)
    OBVIOUS
  <1>2. TypeOK /\ PathInv(p) /\ UserInv(p) /\ LockInv(p) /\ th[p] \in Local
    BY DEF IInv, TypeOK
  <1>3. PICK r : r = [at |-> "walk", ip |-> e, path |-> Tail(th[p].path)]
    OBVIOUS
  <1>4. /\ th'[p] = r \oplus th[p] /\ \A q \in Proc \ {p} : th'[q] = th[q]
        /\ th[p] = [f \in Fields |-> th[p][f]]
        /\ th'[p] \in Local => th' \in [Proc -> Local]
    BY <1>2, <1>3, <1>1, Goes DEF Namex
  <1>5. th'[p] = [f \in Fields |-> th'[p][f]]
    BY <1>3, <1>4 DEF \oplus, Fields
  <1>6. /\ th'[p].at = "walk" /\ th'[p].call = th[p].call /\ th'[p].path = Tail(th[p].path) /\ th'[p].parent = th[p].parent
        /\ th'[p].ok = th[p].ok /\ th'[p].fail = th[p].fail /\ th'[p].then = th[p].then /\ th'[p].puts = th[p].puts
        /\ th'[p].ip = e /\ th'[p].dp = th[p].dp /\ th'[p].tgt = th[p].tgt /\ th'[p].inum = th[p].inum
    BY <1>3, <1>4 DEF \oplus, Fields
  <1>7. /\ th[p].at = "namex" /\ th[p].puts = <<>> /\ Eff(th[p]) = "namex" /\ cwd[p] # 0
        /\ Variables(th[p]) /\ Continues(th[p]) /\ Asked(th[p]) /\ \A x \in Slot : ~Frees(th[p], x)
        /\ Held1(p, "put1") = 0 /\ Held1(p, "put2") = 0
        /\ th[p].tgt # 0 <=> th[p].fail = "linkbad"
        /\ th[p].ip = 0 /\ th[p].dp = 0
    <2>1. th[p].at = "namex" /\ th[p].at \notin Putting
      BY DEF Namex, At, Locks, Putting
    <2> QED BY <2>1, Standing DEF HasIp, HasDp
  <1>8. /\ itable \in Table /\ Coherent(itable, dinode) /\ 0 \notin Slot
        /\ \A x \in Slot : itable[x].ref \in Nat /\ itable[x].inum \in Inum /\ itable[x].d \in Inode
    BY <1>7, InUse, Sizes DEF Slot
  <1>9. /\ e \in Slot /\ itable' \in Table /\ Coherent(itable', dinode) /\ KeptIn(itable', p)
        /\ \A x \in Slot : itable'[x].ref = itable[x].ref + One(e, x)
    <2>1. KeptIn(itable, p) /\ HasEntry(itable, ROOTINO) /\ itable' = Iget(itable, ROOTINO)
      BY DEF KeptIn, Namex
    <2> QED BY <1>1, <1>8, <2>1, GotAfter, Sizes
  <1>10. Tail(th[p].path) \in Seq(Name) \ {<<>>} /\ Tail(th[p].path) \in Seq(Name \cup {"/"})
    <2>1. IsPathname(th[p].path)
      BY <1>7 DEF Asked
    <2> QED BY <2>1 DEF IsPathname
  <1>11. th'[p] \in Local
    <2>1. "walk" \in Where /\ e \in 0 .. NINODE
      BY <1>9, Sizes DEF Where, HasIp, Slot
    <2> QED BY <1>2, <1>5, <1>6, <1>10, <2>1, OfLocal, InLocal
  <1>12. Eff(th'[p]) = "walk" /\ Len(th'[p].puts) = 0 /\ (th'[p].puts # <<>> <=> 0 > 0)
    BY <1>6, <1>7 DEF Eff
  <1>13. PathInv(p)'
    <2>1. Variables(th'[p])
      BY <1>6, <1>7, <1>8, <1>9, <1>12, <1>8 DEF Variables, Putting, HasIp, HasDp, Where
    <2>2. Continues(th'[p])
      BY <1>6, <1>7, <1>12 DEF Continues, Linking, Failing
    <2>3. Asked(th'[p])
      BY <1>6, <1>7, <1>12, <1>10 DEF Asked, Serves, Opening, Creating, Naming
    <2> QED BY <2>1, <2>2, <2>3 DEF PathInv
  <1>14. LockInv(p)'
    <2>1. \A x \in Slot : ~Frees(th'[p], x)
      BY <1>6, <1>10 DEF Frees, HasIp, HasDp
    <2>2. \A x \in Slot : ~KeepsLocked(th'[p], x)
      BY <1>6, <1>8, <1>9, <1>12 DEF KeepsLocked, Keeping, HasDp
    <2> QED BY <1>2, <2>1, <2>2, LocksStep
  <1>15. UserInv(p)'
    BY <1>6, <1>7 DEF UserInv, files, Namex
  <1>16. RefInv'
    <2>1. Held1(p, "ip") = 0 /\ Held1(p, "ip")' = e /\ Held1(p, "dp")' = Held1(p, "dp")
      BY <1>6, <1>7, <1>12 DEF Held1
    <2>2. \A u \in LocalVar \ {"ip", "dp"} : Held1(p, u)' = Held1(p, u)
      BY <1>6, <1>7, <1>12 DEF Held1, LocalVar, files, Namex
    <2>3. "ip" \in LocalVar /\ "dp" \in LocalVar /\ "ip" # "dp"
      BY DEF LocalVar
    <2>4. \A x \in Slot : itable'[x].ref = itable[x].ref - One(Held1(p, "ip"), x) + One(Held1(p, "ip")', x)
                                             - One(Held1(p, "dp"), x) + One(Held1(p, "dp")', x)
      BY <1>8, <1>9, <2>1 DEF One
    <2> QED BY <1>4, <2>2, <2>3, <2>4, RefStep DEF IInv, files, Namex
  <1>17. ncalls' \in 0 .. MaxCalls
    BY <1>2 DEF TypeOK, Namex
  <1> QED
    BY <1>4, <1>9, <1>11, <1>13, <1>14, <1>15, <1>16, <1>17, <1>10, TableStep DEF Namex

\* A path from the current directory: idup() of it.
LEMMA NamexCwdStep ==
  ASSUME IInv, NEW p \in Proc, Namex(p), Head(th[p].path) # "/"
  PROVE  IInv'
  <1>1. TypeOK /\ PathInv(p) /\ UserInv(p) /\ LockInv(p) /\ th[p] \in Local
    BY DEF IInv, TypeOK
  <1>2. PICK r : r = [at |-> "walk", ip |-> cwd[p]]
    OBVIOUS
  <1>3. /\ th'[p] = r \oplus th[p] /\ \A q \in Proc \ {p} : th'[q] = th[q]
        /\ th[p] = [f \in Fields |-> th[p][f]]
        /\ th'[p] \in Local => th' \in [Proc -> Local]
    BY <1>1, <1>2, Goes DEF Namex
  <1>4. th'[p] = [f \in Fields |-> th'[p][f]]
    BY <1>2, <1>3 DEF \oplus, Fields
  <1>5. /\ th'[p].at = "walk" /\ th'[p].call = th[p].call /\ th'[p].path = th[p].path /\ th'[p].parent = th[p].parent
        /\ th'[p].ok = th[p].ok /\ th'[p].fail = th[p].fail /\ th'[p].then = th[p].then /\ th'[p].puts = th[p].puts
        /\ th'[p].ip = cwd[p] /\ th'[p].dp = th[p].dp /\ th'[p].tgt = th[p].tgt /\ th'[p].inum = th[p].inum
    BY <1>2, <1>3 DEF \oplus, Fields
  <1>6. /\ th[p].at = "namex" /\ th[p].puts = <<>> /\ Eff(th[p]) = "namex" /\ cwd[p] # 0
        /\ Variables(th[p]) /\ Continues(th[p]) /\ Asked(th[p]) /\ \A x \in Slot : ~Frees(th[p], x)
        /\ Held1(p, "put1") = 0 /\ Held1(p, "put2") = 0
        /\ th[p].tgt # 0 <=> th[p].fail = "linkbad"
        /\ th[p].ip = 0 /\ th[p].dp = 0
    <2>1. th[p].at = "namex" /\ th[p].at \notin Putting
      BY DEF Namex, At, Locks, Putting
    <2> QED BY <2>1, Standing DEF HasIp, HasDp
  <1>7. /\ itable \in Table /\ Coherent(itable, dinode) /\ 0 \notin Slot
        /\ \A x \in Slot : itable[x].ref \in Nat /\ itable[x].inum \in Inum /\ itable[x].d \in Inode
        /\ cwd[p] \in Slot /\ itable[cwd[p]].ref > 0
    BY <1>6, InUse, Sizes DEF Slot
  <1>8. /\ itable' \in Table /\ Coherent(itable', dinode) /\ KeptIn(itable', p)
        /\ \A x \in Slot : itable'[x].ref = itable[x].ref + One(cwd[p], x)
    <2>1. RefTo(itable, itable', cwd[p], itable[cwd[p]].ref + 1)
      BY DEF RefTo, Namex
    <2>2. itable[cwd[p]].ref + 1 \in Int
      BY <1>7
    <2> QED BY <1>7, <2>1, <2>2, RefChanged DEF One
  <1>9. th[p].path \in Seq(Name) \ {<<>>}
    <2>1. IsPathname(th[p].path)
      BY <1>6 DEF Asked
    <2> QED BY <2>1 DEF IsPathname, Namex
  <1>10. th'[p] \in Local
    <2>1. "walk" \in Where /\ cwd[p] \in 0 .. NINODE
      BY <1>7, Sizes DEF Where, HasIp, Slot
    <2> QED BY <1>1, <1>4, <1>5, <2>1, OfLocal, InLocal
  <1>11. Eff(th'[p]) = "walk" /\ Len(th'[p].puts) = 0 /\ (th'[p].puts # <<>> <=> 0 > 0)
    BY <1>5, <1>6 DEF Eff
  <1>12. PathInv(p)'
    <2>1. Variables(th'[p])
      BY <1>5, <1>6, <1>7, <1>8, <1>11, <1>7 DEF Variables, Putting, HasIp, HasDp, Where
    <2>2. Continues(th'[p])
      BY <1>5, <1>6, <1>11 DEF Continues, Linking, Failing
    <2>3. Asked(th'[p])
      BY <1>5, <1>6, <1>11, <1>9 DEF Asked, Serves, Opening, Creating, Naming
    <2> QED BY <2>1, <2>2, <2>3 DEF PathInv
  <1>13. LockInv(p)'
    <2>1. \A x \in Slot : ~Frees(th'[p], x)
      BY <1>5, <1>9 DEF Frees, HasIp, HasDp
    <2>2. \A x \in Slot : ~KeepsLocked(th'[p], x)
      BY <1>5, <1>7, <1>8, <1>11 DEF KeepsLocked, Keeping, HasDp
    <2> QED BY <1>1, <2>1, <2>2, LocksStep
  <1>14. UserInv(p)'
    BY <1>5, <1>6 DEF UserInv, files, Namex
  <1>15. RefInv'
    <2>1. Held1(p, "ip") = 0 /\ Held1(p, "ip")' = cwd[p] /\ Held1(p, "dp")' = Held1(p, "dp")
      BY <1>5, <1>6, <1>11 DEF Held1
    <2>2. \A u \in LocalVar \ {"ip", "dp"} : Held1(p, u)' = Held1(p, u)
      BY <1>5, <1>6, <1>11 DEF Held1, LocalVar, files, Namex
    <2>3. "ip" \in LocalVar /\ "dp" \in LocalVar /\ "ip" # "dp"
      BY DEF LocalVar
    <2>4. \A x \in Slot : itable'[x].ref = itable[x].ref - One(Held1(p, "ip"), x) + One(Held1(p, "ip")', x)
                                             - One(Held1(p, "dp"), x) + One(Held1(p, "dp")', x)
      BY <1>7, <1>8, <2>1 DEF One
    <2> QED BY <1>3, <2>2, <2>3, <2>4, RefStep DEF IInv, files, Namex
  <1>16. ncalls' \in 0 .. MaxCalls
    BY <1>1 DEF TypeOK, Namex
  <1> QED
    BY <1>3, <1>8, <1>10, <1>12, <1>13, <1>14, <1>15, <1>16, <1>9, TableStep DEF Namex

\* The parent of a path is found.
LEMMA WalkStopStep ==
  ASSUME IInv, NEW p \in Proc, Locks(p, "walk"), th[p].parent = TRUE, Go(p, [at |-> th[p].ok]),
         itable' = Unlock(Ilock(p, th[p].ip), th[p].ip), UNCHANGED <<disk, files, ncalls, lost>>
  PROVE  IInv'
  <1>1. PICK w : w = th[p].ok
    OBVIOUS
  <1>2. TypeOK /\ PathInv(p) /\ UserInv(p) /\ LockInv(p) /\ th[p] \in Local
    BY DEF IInv, TypeOK
  <1>3. PICK r : r = [at |-> w]
    OBVIOUS
  <1>4. /\ th'[p] = r \oplus th[p] /\ \A q \in Proc \ {p} : th'[q] = th[q]
        /\ th[p] = [f \in Fields |-> th[p][f]]
        /\ th'[p] \in Local => th' \in [Proc -> Local]
    BY <1>2, <1>3, <1>1, Goes DEF Locks
  <1>5. /\ th'[p] = [f \in Fields |-> th'[p][f]]
        /\ th'[p] = [f \in Fields |-> IF f = "at" THEN w ELSE th[p][f]]
    <2>1. DOMAIN r = {"at"} /\ r.at = w /\ DOMAIN th[p] = Fields
      BY <1>3, <1>4
    <2> QED BY <1>4, <2>1 DEF \oplus, Fields
  <1>6. /\ th'[p].at = w /\ th'[p].call = th[p].call /\ th'[p].path = th[p].path /\ th'[p].parent = th[p].parent
        /\ th'[p].ok = th[p].ok /\ th'[p].fail = th[p].fail /\ th'[p].then = th[p].then /\ th'[p].puts = th[p].puts
        /\ th'[p].ip = th[p].ip /\ th'[p].dp = th[p].dp /\ th'[p].tgt = th[p].tgt /\ th'[p].inum = th[p].inum
    <2>1. th'[p] = [f \in Fields |-> IF f = "at" THEN w ELSE th[p][f]]
      BY <1>5
    <2> QED BY <2>1 DEF Fields
  <1>7. /\ th[p].at = "walk" /\ th[p].puts = <<>> /\ Eff(th[p]) = "walk" /\ cwd[p] # 0
        /\ Variables(th[p]) /\ Continues(th[p]) /\ Asked(th[p]) /\ \A x \in Slot : ~Frees(th[p], x)
        /\ Held1(p, "put1") = 0 /\ Held1(p, "put2") = 0
        /\ th[p].tgt # 0 <=> th[p].fail = "linkbad"
        /\ th[p].ip # 0 /\ th[p].dp = 0
    <2>1. th[p].at = "walk" /\ th[p].at \notin Putting
      BY DEF Locks, At, Locks, Putting
    <2> QED BY <2>1, Standing DEF HasIp, HasDp
  <1>8. /\ itable \in Table /\ Coherent(itable, dinode) /\ 0 \notin Slot
        /\ \A x \in Slot : itable[x].ref \in Nat /\ itable[x].inum \in Inum /\ itable[x].d \in Inode
        /\ th[p].ip \in Slot /\ itable[th[p].ip].ref > 0
    BY <1>7, InUse, Sizes DEF Slot
  <1>9. /\ itable' \in Table /\ Coherent(itable', dinode) /\ KeptIn(itable', p)
        /\ \A x \in Slot : itable'[x].ref = itable[x].ref
    <2>1. CanLock(th[p].ip)
      BY DEF Locks
    <2> QED BY <1>8, <2>1, Peeked
  <1>10. /\ w = th[p].ok /\ w \in {"linkdp", "createdp", "unlinkdp"}
         /\ th[p].fail = "linkbad" <=> w = "linkdp"
         /\ th[p].path \in Seq(Name) \ {<<>>} /\ Serves(th[p].ok, th[p].call)
    BY <1>1, <1>7 DEF Continues, Asked, Naming
  <1>11. th'[p] \in Local
    <2>1. w \in Where
      BY <1>10 DEF Where, HasIp
    <2> QED BY <1>2, <1>5, <1>6, <2>1, OfLocal, InLocal
  <1>12. Eff(th'[p]) = w /\ Len(th'[p].puts) = 0 /\ (th'[p].puts # <<>> <=> 0 > 0)
    BY <1>6, <1>7 DEF Eff
  <1>13. PathInv(p)'
    <2>1. Variables(th'[p])
      BY <1>6, <1>7, <1>8, <1>9, <1>12, <1>10 DEF Variables, Putting, HasIp, HasDp, Where
    <2>2. Continues(th'[p])
      BY <1>6, <1>7, <1>12, <1>10 DEF Continues, Linking, Failing
    <2>3. Asked(th'[p])
      BY <1>6, <1>7, <1>12, <1>10 DEF Asked, Serves, Opening, Creating, Naming
    <2> QED BY <2>1, <2>2, <2>3 DEF PathInv
  <1>14. LockInv(p)'
    <2>1. \A x \in Slot : ~Frees(th'[p], x)
      BY <1>6, <1>10 DEF Frees, HasIp, HasDp
    <2>2. \A x \in Slot : ~KeepsLocked(th'[p], x)
      BY <1>6, <1>7, <1>12, <1>10 DEF KeepsLocked, Keeping, HasDp
    <2> QED BY <1>2, <2>1, <2>2, LocksStep
  <1>15. UserInv(p)'
    BY <1>6, <1>7, <1>10 DEF UserInv, files, Locks
  <1>16. RefInv'
    <2>1. \A u \in LocalVar : Held1(p, u)' = Held1(p, u)
      BY <1>6, <1>7, <1>12, <1>10 DEF Held1, LocalVar, files
    <2> QED BY <1>4, <1>9, <2>1, RefSame DEF files
  <1>17. ncalls' \in 0 .. MaxCalls
    BY <1>2 DEF TypeOK, Locks
  <1> QED
    BY <1>4, <1>9, <1>11, <1>13, <1>14, <1>15, <1>16, <1>17, <1>10, TableStep DEF Locks

\* The next inode of a path is found, and the directory let go.
LEMMA WalkNextStep ==
  ASSUME IInv, NEW p \in Proc, Locks(p, "walk"), NEW i \in Inum,
         Len(th[p].path) = 1 => ~th[p].parent, HasEntry(Unlock(Ilock(p, th[p].ip), th[p].ip), i),
         itable' = Iget(Unlock(Ilock(p, th[p].ip), th[p].ip), i),
         PutThen(p, <<th[p].ip>>, IF Len(th[p].path) = 1 THEN th[p].ok ELSE "walk",
                 [ip |-> EntryFor(Unlock(Ilock(p, th[p].ip), th[p].ip), i), path |-> Tail(th[p].path)]),
         UNCHANGED <<disk, files, ncalls, lost>>
  PROVE  IInv'
  <1>1. PICK s, t, e, w : s = th[p].ip /\ t = Unlock(Ilock(p, s), s) /\ e = EntryFor(t, i)
                       /\ w = IF Len(th[p].path) = 1 THEN th[p].ok ELSE "walk"
    OBVIOUS
  <1>2. TypeOK /\ PathInv(p) /\ UserInv(p) /\ LockInv(p) /\ th[p] \in Local
    BY DEF IInv, TypeOK
  <1>3. PICK r : r = [ip |-> e, path |-> Tail(th[p].path)] \oplus [at |-> "iput", puts |-> <<s>>, then |-> w]
    OBVIOUS
  <1>4. /\ th'[p] = r \oplus th[p] /\ \A q \in Proc \ {p} : th'[q] = th[q]
        /\ th[p] = [f \in Fields |-> th[p][f]]
        /\ th'[p] \in Local => th' \in [Proc -> Local]
    BY <1>2, <1>3, <1>1, Goes DEF PutThen
  <1>5. th'[p] = [f \in Fields |-> th'[p][f]]
    BY <1>3, <1>4 DEF \oplus, Fields
  <1>6. /\ th'[p].at = "iput" /\ th'[p].call = th[p].call /\ th'[p].path = Tail(th[p].path) /\ th'[p].parent = th[p].parent
        /\ th'[p].ok = th[p].ok /\ th'[p].fail = th[p].fail /\ th'[p].then = w /\ th'[p].puts = <<s>>
        /\ th'[p].ip = e /\ th'[p].dp = th[p].dp /\ th'[p].tgt = th[p].tgt /\ th'[p].inum = th[p].inum
    BY <1>3, <1>4 DEF \oplus, Fields
  <1>7. /\ th[p].at = "walk" /\ th[p].puts = <<>> /\ Eff(th[p]) = "walk" /\ cwd[p] # 0
        /\ Variables(th[p]) /\ Continues(th[p]) /\ Asked(th[p]) /\ \A x \in Slot : ~Frees(th[p], x)
        /\ Held1(p, "put1") = 0 /\ Held1(p, "put2") = 0
        /\ th[p].tgt # 0 <=> th[p].fail = "linkbad"
        /\ th[p].ip # 0 /\ th[p].dp = 0
    <2>1. th[p].at = "walk" /\ th[p].at \notin Putting
      BY DEF Locks, At, Locks, Putting
    <2> QED BY <2>1, Standing DEF HasIp, HasDp
  <1>8. /\ itable \in Table /\ Coherent(itable, dinode) /\ 0 \notin Slot
        /\ \A x \in Slot : itable[x].ref \in Nat /\ itable[x].inum \in Inum /\ itable[x].d \in Inode
        /\ th[p].ip \in Slot /\ itable[th[p].ip].ref > 0
    BY <1>7, InUse, Sizes DEF Slot
  <1>9. /\ e \in Slot /\ itable' \in Table /\ Coherent(itable', dinode) /\ KeptIn(itable', p)
        /\ \A x \in Slot : itable'[x].ref = itable[x].ref + One(e, x)
    <2>1. CanLock(s)
      BY <1>1 DEF Locks
    <2>2. t \in Table /\ KeptIn(t, p) /\ Coherent(t, dinode) /\ \A x \in Slot : t[x].ref = itable[x].ref
      BY <1>1, <1>8, <2>1, Peeked
    <2>3. HasEntry(t, i) /\ itable' = Iget(t, i)
      BY <1>1
    <2> QED BY <1>1, <2>2, <2>3, GotAfter
  <1>10. /\ w \in {"walk", "openip", "linkinc", "chdirip"} /\ Serves(w, th[p].call)
         /\ w # "walk" => th[p].fail # "linkbad"
         /\ Tail(th[p].path) \in Seq(Name)
         /\ w = "walk" => Tail(th[p].path) \in Seq(Name) \ {<<>>}
         /\ Tail(th[p].path) \in Seq(Name \cup {"/"}) /\ Serves(th[p].ok, th[p].call)
    <2>1. th[p].path \in Seq(Name) \ {<<>>} /\ Serves(th[p].ok, th[p].call)
      BY <1>7 DEF Asked, Naming
    <2>2. Len(th[p].path) # 1 => Tail(th[p].path) # <<>>
      <3>1. Len(th[p].path) \in Nat \ {0} /\ Len(Tail(th[p].path)) = Len(th[p].path) - 1
        BY <2>1, EmptySeq, HeadTailProperties
      <3>2. Tail(th[p].path) \in Seq(Name)
        BY <2>1, HeadTailProperties
      <3> QED BY <3>1, <3>2, EmptySeq
    <2>3. Tail(th[p].path) \in Seq(Name) /\ Tail(th[p].path) \in Seq(Name \cup {"/"})
      <3>1. Name \subseteq Name \cup {"/"}
        OBVIOUS
      <3> QED BY <2>1, <3>1, HeadTailProperties, SeqMonotonic
    <2>4. IF Len(th[p].path) = 1 THEN w = th[p].ok /\ ~th[p].parent ELSE w = "walk"
      BY <1>1
    <2>5. Len(th[p].path) = 1 => w \in {"openip", "linkinc", "chdirip"} /\ th[p].fail # "linkbad"
      BY <1>7, <2>4 DEF Continues
    <2>6. Serves(w, th[p].call)
      BY <2>1, <2>4 DEF Serves, Opening, Creating
    <2> QED BY <2>1, <2>2, <2>3, <2>4, <2>5, <2>6
  <1>11. th'[p] \in Local
    <2>1. w \in Where /\ "iput" \in Putting /\ e \in 0 .. NINODE /\ <<s>> \in Seq(Slot) /\ Tail(th[p].path) \in Seq(Name \cup {"/"})
      BY <1>1, <1>8, <1>9, <1>10, Sizes DEF Where, HasIp, Slot, Putting
    <2> QED BY <1>2, <1>5, <1>6, <2>1, OfLocal, InLocal
  <1>12. Eff(th'[p]) = w /\ Len(th'[p].puts) = 1 /\ (th'[p].puts # <<>> <=> 1 > 0)
    BY <1>6, <1>7 DEF Eff
  <1>13. PathInv(p)'
    <2>1. Variables(th'[p])
      BY <1>6, <1>7, <1>8, <1>9, <1>12, <1>10 DEF Variables, Putting, HasIp, HasDp, Where
    <2>2. Continues(th'[p])
      BY <1>6, <1>7, <1>12, <1>10 DEF Continues, Linking, Failing
    <2>3. Asked(th'[p])
      BY <1>6, <1>7, <1>12, <1>10 DEF Asked, Serves, Opening, Creating, Naming
    <2> QED BY <2>1, <2>2, <2>3 DEF PathInv
  <1>14. LockInv(p)'
    <2>1. \A x \in Slot : ~Frees(th'[p], x)
      BY <1>6, <1>10 DEF Frees, HasIp, HasDp
    <2>2. \A x \in Slot : ~KeepsLocked(th'[p], x)
      BY <1>6, <1>7, <1>12, <1>10 DEF KeepsLocked, Keeping, HasDp
    <2> QED BY <1>2, <2>1, <2>2, LocksStep
  <1>15. UserInv(p)'
    BY <1>6, <1>7 DEF UserInv, files, Locks
  <1>16. RefInv'
    <2>1. Held1(p, "ip") = s /\ Held1(p, "ip")' = e /\ Held1(p, "put1") = 0 /\ Held1(p, "put1")' = s
      BY <1>6, <1>7, <1>12, <1>1 DEF Held1
    <2>2. \A u \in LocalVar \ {"ip", "put1"} : Held1(p, u)' = Held1(p, u)
      BY <1>6, <1>7, <1>12 DEF Held1, LocalVar, files
    <2>3. "ip" \in LocalVar /\ "put1" \in LocalVar /\ "ip" # "put1"
      BY DEF LocalVar
    <2>4. \A x \in Slot : itable'[x].ref = itable[x].ref - One(Held1(p, "ip"), x) + One(Held1(p, "ip")', x)
                                             - One(Held1(p, "put1"), x) + One(Held1(p, "put1")', x)
      BY <1>8, <1>9, <2>1 DEF One
    <2> QED BY <1>4, <2>2, <2>3, <2>4, RefStep DEF IInv, files
  <1>17. ncalls' \in 0 .. MaxCalls
    BY <1>2 DEF TypeOK, Locks
  <1> QED
    BY <1>4, <1>9, <1>11, <1>13, <1>14, <1>15, <1>16, <1>17, <1>10, TableStep DEF Locks

\* namex() from the root or from the current directory.
LEMMA NamexStep ==
  ASSUME IInv, NEW p \in Proc, Namex(p)
  PROVE  IInv'
  BY NamexRootStep, NamexCwdStep DEF Namex

\* An element of a path.
LEMMA WalkStep ==
  ASSUME IInv, NEW p \in Proc, Walk(p)
  PROVE  IInv'
  <1>1. /\ th[p].at = "walk" /\ th[p].puts = <<>> /\ Eff(th[p]) = "walk" /\ cwd[p] # 0
        /\ Variables(th[p]) /\ Continues(th[p]) /\ Asked(th[p])
        /\ th[p].tgt # 0 <=> th[p].fail = "linkbad"
        /\ th[p].ip # 0
    <2>1. th[p].at = "walk" /\ th[p].at \notin Putting
      BY DEF Walk, At, Locks, Putting
    <2> QED BY <2>1, Standing DEF HasIp, HasDp
  <1>2. /\ itable \in Table /\ Coherent(itable, dinode) /\ 0 \notin Slot
        /\ \A x \in Slot : itable[x].ref \in Nat /\ itable[x].inum \in Inum /\ itable[x].d \in Inode
        /\ th[p].ip \in Slot /\ itable[th[p].ip].ref > 0
    BY <1>1, InUse, Sizes DEF Slot
  <1>3. PICK s \in Slot : s = th[p].ip
    BY <1>2
  <1>4. PICK t, next, isDir, stop : /\ t = Unlock(Ilock(p, s), s) /\ next = dir[itable[s].inum][Head(th[p].path)]
                                    /\ isDir = (Loaded(s).type = "dir") /\ stop = (th[p].parent /\ Len(th[p].path) = 1)
    OBVIOUS
  <1>5. UNCHANGED <<disk, files, ncalls, lost>> /\ Locks(p, "walk")
    BY DEF Walk
  <1>6. ASSUME GiveUp(p, s, th[p].fail), UNCHANGED <<disk, files, ncalls, lost>> PROVE IInv'
    <2>1. PICK w : w \in {"endop", "linkbad"} /\ w = th[p].fail
      BY <1>1 DEF Continues, Failing
    <2>2. th[p].at \in HasIp \ {"writei", "opentrunc"} /\ CanLock(s)
      BY <1>1, <1>3 DEF HasIp, Walk, Locks
    <2>3. w = "dropdp" <=> th[p].at \in HasDp
      BY <1>1, <2>1 DEF HasDp
    <2>4. w = "endop" => th[p].fail # "linkbad"
      BY <1>1, <2>1 DEF Continues, Linking
    <2>5. w = "linkbad" => th[p].fail = "linkbad"
      BY <1>1, <2>1 DEF Continues
    <2>6. w = "dropdp" => th[p].at \in Failing
      BY <1>1, <2>1 DEF Failing
    <2>7. w \in {"endop", "dropdp", "linkbad"} /\ GiveUp(p, s, w)
      BY <1>6, <2>1
    <2> QED BY <1>6, <1>1, <1>3, <2>2, <2>3, <2>4, <2>5, <2>6, <2>7, GiveUpStep
  <1>7. ASSUME stop, itable' = t, Go(p, [at |-> th[p].ok]) PROVE IInv'
    <2>1. th[p].parent = TRUE
      BY <1>4, <1>7, OfLocal DEF IInv, TypeOK
    <2> QED BY <1>3, <1>4, <1>5, <1>7, <2>1, WalkStopStep
  <1>8. ASSUME ~stop, next # 0, HasEntry(t, next), itable' = Iget(t, next),
               PutThen(p, <<s>>, IF Len(th[p].path) = 1 THEN th[p].ok ELSE "walk",
                       [ip |-> EntryFor(t, next), path |-> Tail(th[p].path)])
        PROVE  IInv'
    <2>1. next \in Inum
      <3>1. th[p].path \in Seq(Name) \ {<<>>}
        BY <1>1 DEF Asked, Naming
      <3>2. Head(th[p].path) \in Name
        BY <3>1, HeadTailProperties
      <3>3. next \in 0 .. NINODES
        BY <1>2, <1>4, <3>2 DEF IInv, TypeOK
      <3> QED BY <1>8, <3>3, Sizes DEF Inum
    <2>2. Len(th[p].path) = 1 => ~th[p].parent
      BY <1>4, <1>8
    <2> QED BY <1>3, <1>4, <1>5, <1>8, <2>1, <2>2, WalkNextStep
  <1> QED
    BY <1>3, <1>4, <1>5, <1>6, <1>7, <1>8 DEF Walk
-----------------------------------------------------------------------------
(* Directories: what create() and sys_unlink() look up and lock *)

\* create() finds the name.
LEMMA CreateOldStep ==
  ASSUME IInv, NEW p \in Proc, Locks(p, "createdp"), NEW i \in Inum, HasEntry(Ilock(p, th[p].ip), i),
         itable' = Iget(Unlock(Ilock(p, th[p].ip), th[p].ip), i),
         PutThen(p, <<th[p].ip>>, "createfound", [ip |-> EntryFor(Ilock(p, th[p].ip), i)]),
         UNCHANGED <<disk, files, ncalls, lost>>
  PROVE  IInv'
  <1>1. PICK s, t, e : s = th[p].ip /\ t = Unlock(Ilock(p, s), s) /\ e = EntryFor(Ilock(p, s), i)
    OBVIOUS
  <1>2. TypeOK /\ PathInv(p) /\ UserInv(p) /\ LockInv(p) /\ th[p] \in Local
    BY DEF IInv, TypeOK
  <1>3. PICK r : r = [ip |-> e] \oplus [at |-> "iput", puts |-> <<s>>, then |-> "createfound"]
    OBVIOUS
  <1>4. /\ th'[p] = r \oplus th[p] /\ \A q \in Proc \ {p} : th'[q] = th[q]
        /\ th[p] = [f \in Fields |-> th[p][f]]
        /\ th'[p] \in Local => th' \in [Proc -> Local]
    BY <1>2, <1>3, <1>1, Goes DEF PutThen
  <1>5. th'[p] = [f \in Fields |-> th'[p][f]]
    BY <1>3, <1>4 DEF \oplus, Fields
  <1>6. /\ th'[p].at = "iput" /\ th'[p].call = th[p].call /\ th'[p].path = th[p].path /\ th'[p].parent = th[p].parent
        /\ th'[p].ok = th[p].ok /\ th'[p].fail = th[p].fail /\ th'[p].then = "createfound" /\ th'[p].puts = <<s>>
        /\ th'[p].ip = e /\ th'[p].dp = th[p].dp /\ th'[p].tgt = th[p].tgt /\ th'[p].inum = th[p].inum
    BY <1>3, <1>4 DEF \oplus, Fields
  <1>7. /\ th[p].at = "createdp" /\ th[p].puts = <<>> /\ Eff(th[p]) = "createdp" /\ cwd[p] # 0
        /\ Variables(th[p]) /\ Continues(th[p]) /\ Asked(th[p]) /\ \A x \in Slot : ~Frees(th[p], x)
        /\ Held1(p, "put1") = 0 /\ Held1(p, "put2") = 0
        /\ th[p].tgt # 0 <=> th[p].fail = "linkbad"
        /\ th[p].ip # 0 /\ th[p].dp = 0
    <2>1. th[p].at = "createdp" /\ th[p].at \notin Putting
      BY DEF Locks, At, Locks, Putting
    <2> QED BY <2>1, Standing DEF HasIp, HasDp
  <1>8. /\ itable \in Table /\ Coherent(itable, dinode) /\ 0 \notin Slot
        /\ \A x \in Slot : itable[x].ref \in Nat /\ itable[x].inum \in Inum /\ itable[x].d \in Inode
        /\ th[p].ip \in Slot /\ itable[th[p].ip].ref > 0
    BY <1>7, InUse, Sizes DEF Slot
  <1>9. /\ e \in Slot /\ itable' \in Table /\ Coherent(itable', dinode) /\ KeptIn(itable', p)
        /\ \A x \in Slot : itable'[x].ref = itable[x].ref + One(e, x)
    <2>1. CanLock(s)
      BY <1>1 DEF Locks
    <2>2. t \in Table /\ KeptIn(t, p) /\ Coherent(t, dinode) /\ \A x \in Slot : t[x].ref = itable[x].ref
      BY <1>1, <1>8, <2>1, Peeked
    <2>3. HasEntry(t, i) /\ e = EntryFor(t, i)
      <3>1. Like(Ilock(p, s), s) /\ Ilock(p, s) \in Table
        BY <1>1, <1>8, <2>1, Entered DEF Like
      <3>2. \A x \in Slot : t[x].ref = Ilock(p, s)[x].ref /\ t[x].inum = Ilock(p, s)[x].inum
        <4>1. \A x \in Slot : t[x].ref = itable[x].ref /\ t[x].inum = itable[x].inum
          BY <1>1, <1>8, <2>1, Peeked
        <4> QED BY <3>1, <4>1 DEF Like
      <3>3. Cached(t, i) = Cached(Ilock(p, s), i) /\ Unused(t) = Unused(Ilock(p, s))
        BY <3>2 DEF Cached, Unused
      <3> QED BY <1>1, <3>3, Zenon DEF HasEntry, EntryFor
    <2>4. itable' = Iget(t, i)
      BY <1>1
    <2> QED BY <2>2, <2>3, <2>4, GotAfter
  <1>10. th'[p] \in Local
    <2>1. "createfound" \in Where /\ "iput" \in Putting /\ e \in 0 .. NINODE /\ <<s>> \in Seq(Slot)
      BY <1>1, <1>8, <1>9, Sizes DEF Where, HasIp, Slot, Putting
    <2> QED BY <1>2, <1>5, <1>6, <2>1, OfLocal, InLocal
  <1>11. Eff(th'[p]) = "createfound" /\ Len(th'[p].puts) = 1 /\ (th'[p].puts # <<>> <=> 1 > 0)
    BY <1>6, <1>7 DEF Eff
  <1>12. PathInv(p)'
    <2>1. Variables(th'[p])
      BY <1>6, <1>7, <1>8, <1>9, <1>11 DEF Variables, Putting, HasIp, HasDp, Where
    <2>2. Continues(th'[p])
      BY <1>6, <1>7, <1>11 DEF Continues, Linking, Failing
    <2>3. Asked(th'[p])
      BY <1>6, <1>7, <1>11 DEF Asked, Serves, Opening, Creating, Naming
    <2> QED BY <2>1, <2>2, <2>3 DEF PathInv
  <1>13. LockInv(p)'
    <2>1. \A x \in Slot : ~Frees(th'[p], x)
      BY <1>6 DEF Frees
    <2>2. \A x \in Slot : ~KeepsLocked(th'[p], x)
      BY <1>6, <1>8, <1>9, <1>11 DEF KeepsLocked, Keeping, HasDp
    <2> QED BY <1>2, <2>1, <2>2, LocksStep
  <1>14. UserInv(p)'
    BY <1>6, <1>7 DEF UserInv, files, Locks
  <1>15. RefInv'
    <2>1. Held1(p, "ip") = s /\ Held1(p, "ip")' = e /\ Held1(p, "put1") = 0 /\ Held1(p, "put1")' = s
      BY <1>6, <1>7, <1>11, <1>1 DEF Held1
    <2>2. \A u \in LocalVar \ {"ip", "put1"} : Held1(p, u)' = Held1(p, u)
      BY <1>6, <1>7, <1>11 DEF Held1, LocalVar, files
    <2>3. "ip" \in LocalVar /\ "put1" \in LocalVar /\ "ip" # "put1"
      BY DEF LocalVar
    <2>4. \A x \in Slot : itable'[x].ref = itable[x].ref - One(Held1(p, "ip"), x) + One(Held1(p, "ip")', x)
                                             - One(Held1(p, "put1"), x) + One(Held1(p, "put1")', x)
      BY <1>8, <1>9, <2>1 DEF One
    <2> QED BY <1>4, <2>2, <2>3, <2>4, RefStep DEF IInv, files
  <1>16. ncalls' \in 0 .. MaxCalls
    BY <1>2 DEF TypeOK, Locks
  <1> QED
    BY <1>4, <1>9, <1>10, <1>12, <1>13, <1>14, <1>15, <1>16, TableStep DEF Locks

\* create() does not find the name: the directory stays locked.
LEMMA CreateNewStep ==
  ASSUME IInv, NEW p \in Proc, Locks(p, "createdp"), itable' = Ilock(p, th[p].ip),
         Go(p, [at |-> "ialloc", dp |-> th[p].ip, ip |-> 0]),
         UNCHANGED <<disk, files, ncalls, lost>>
  PROVE  IInv'
  <1>1. PICK s : s = th[p].ip
    OBVIOUS
  <1>2. TypeOK /\ PathInv(p) /\ UserInv(p) /\ LockInv(p) /\ th[p] \in Local
    BY DEF IInv, TypeOK
  <1>3. PICK r : r = [at |-> "ialloc", dp |-> s, ip |-> 0]
    OBVIOUS
  <1>4. /\ th'[p] = r \oplus th[p] /\ \A q \in Proc \ {p} : th'[q] = th[q]
        /\ th[p] = [f \in Fields |-> th[p][f]]
        /\ th'[p] \in Local => th' \in [Proc -> Local]
    BY <1>2, <1>3, <1>1, Goes DEF Locks
  <1>5. th'[p] = [f \in Fields |-> th'[p][f]]
    BY <1>3, <1>4 DEF \oplus, Fields
  <1>6. /\ th'[p].at = "ialloc" /\ th'[p].call = th[p].call /\ th'[p].path = th[p].path /\ th'[p].parent = th[p].parent
        /\ th'[p].ok = th[p].ok /\ th'[p].fail = th[p].fail /\ th'[p].then = th[p].then /\ th'[p].puts = th[p].puts
        /\ th'[p].ip = 0 /\ th'[p].dp = s /\ th'[p].tgt = th[p].tgt /\ th'[p].inum = th[p].inum
    BY <1>3, <1>4 DEF \oplus, Fields
  <1>7. /\ th[p].at = "createdp" /\ th[p].puts = <<>> /\ Eff(th[p]) = "createdp" /\ cwd[p] # 0
        /\ Variables(th[p]) /\ Continues(th[p]) /\ Asked(th[p]) /\ \A x \in Slot : ~Frees(th[p], x)
        /\ Held1(p, "put1") = 0 /\ Held1(p, "put2") = 0
        /\ th[p].tgt # 0 <=> th[p].fail = "linkbad"
        /\ th[p].ip # 0 /\ th[p].dp = 0
    <2>1. th[p].at = "createdp" /\ th[p].at \notin Putting
      BY DEF Locks, At, Locks, Putting
    <2> QED BY <2>1, Standing DEF HasIp, HasDp
  <1>8. /\ itable \in Table /\ Coherent(itable, dinode) /\ 0 \notin Slot
        /\ \A x \in Slot : itable[x].ref \in Nat /\ itable[x].inum \in Inum /\ itable[x].d \in Inode
        /\ th[p].ip \in Slot /\ itable[th[p].ip].ref > 0
    BY <1>7, InUse, Sizes DEF Slot
  <1>9. /\ itable' \in Table /\ Coherent(itable', dinode) /\ KeptIn(itable', p)
        /\ \A x \in Slot : itable'[x].ref = itable[x].ref
        /\ itable'[s].lock = p /\ itable'[s].valid
    <2>1. CanLock(s)
      BY <1>1 DEF Locks
    <2> QED BY <1>1, <1>8, <2>1, Entered DEF Like
  <1>10. th'[p] \in Local
    <2>1. "ialloc" \in Where /\ {0, s} \subseteq 0 .. NINODE
      BY <1>1, <1>8, Sizes DEF Where, HasDp, Slot
    <2> QED BY <1>2, <1>5, <1>6, <2>1, OfLocal, InLocal
  <1>11. Eff(th'[p]) = "ialloc" /\ Len(th'[p].puts) = 0 /\ (th'[p].puts # <<>> <=> 0 > 0)
    BY <1>6, <1>7 DEF Eff
  <1>12. PathInv(p)'
    <2>1. Variables(th'[p])
      BY <1>6, <1>7, <1>8, <1>9, <1>11, <1>1 DEF Variables, Putting, HasIp, HasDp, Where
    <2>2. Continues(th'[p])
      BY <1>6, <1>7, <1>11 DEF Continues, Linking, Failing
    <2>3. Asked(th'[p])
      BY <1>6, <1>7, <1>11 DEF Asked, Serves, Opening, Creating, Naming
    <2> QED BY <2>1, <2>2, <2>3 DEF PathInv
  <1>13. LockInv(p)'
    <2>1. \A x \in Slot : ~Frees(th'[p], x)
      BY <1>6 DEF Frees
    <2>2. \A x \in Slot : KeepsLocked(th'[p], x) => x = s
      BY <1>1, <1>6, <1>7, <1>11 DEF KeepsLocked, Keeping, HasDp
    <2> QED BY <1>2, <1>9, <2>1, <2>2, LocksStep
  <1>14. UserInv(p)'
    BY <1>6, <1>7 DEF UserInv, files, Locks
  <1>15. RefInv'
    <2>1. Held1(p, "ip") = s /\ Held1(p, "ip")' = 0 /\ Held1(p, "dp") = 0 /\ Held1(p, "dp")' = s
      BY <1>6, <1>7, <1>11, <1>1 DEF Held1
    <2>2. \A u \in LocalVar \ {"ip", "dp"} : Held1(p, u)' = Held1(p, u)
      BY <1>6, <1>7, <1>11 DEF Held1, LocalVar, files
    <2>3. "ip" \in LocalVar /\ "dp" \in LocalVar /\ "ip" # "dp"
      BY DEF LocalVar
    <2>4. \A x \in Slot : itable'[x].ref = itable[x].ref - One(Held1(p, "ip"), x) + One(Held1(p, "ip")', x)
                                             - One(Held1(p, "dp"), x) + One(Held1(p, "dp")', x)
      BY <1>8, <1>9, <2>1 DEF One
    <2> QED BY <1>4, <2>2, <2>3, <2>4, RefStep DEF IInv, files
  <1>16. ncalls' \in 0 .. MaxCalls
    BY <1>2 DEF TypeOK, Locks
  <1> QED
    BY <1>4, <1>9, <1>10, <1>12, <1>13, <1>14, <1>15, <1>16, TableStep DEF Locks

\* open() takes the file that create() found.
LEMMA CreateTakenStep ==
  ASSUME IInv, NEW p \in Proc, Locks(p, "createfound"), th[p].call \in Calls, th[p].call.op = "open", itable' = Ilock(p, th[p].ip),
         Go(p, [at |-> "openfile"]),
         UNCHANGED <<disk, files, ncalls, lost>>
  PROVE  IInv'
  <1>1. PICK s : s = th[p].ip
    OBVIOUS
  <1>2. TypeOK /\ PathInv(p) /\ UserInv(p) /\ LockInv(p) /\ th[p] \in Local
    BY DEF IInv, TypeOK
  <1>3. PICK r : r = [at |-> "openfile"]
    OBVIOUS
  <1>4. /\ th'[p] = r \oplus th[p] /\ \A q \in Proc \ {p} : th'[q] = th[q]
        /\ th[p] = [f \in Fields |-> th[p][f]]
        /\ th'[p] \in Local => th' \in [Proc -> Local]
    BY <1>2, <1>3, Goes DEF Locks
  <1>5. /\ th'[p] = [f \in Fields |-> th'[p][f]]
        /\ th'[p] = [f \in Fields |-> IF f = "at" THEN "openfile" ELSE th[p][f]]
    <2>1. DOMAIN r = {"at"} /\ r.at = "openfile" /\ DOMAIN th[p] = Fields
      BY <1>3, <1>4
    <2> QED BY <1>4, <2>1 DEF \oplus, Fields
  <1>6. /\ th'[p].at = "openfile" /\ th'[p].call = th[p].call /\ th'[p].path = th[p].path /\ th'[p].parent = th[p].parent
        /\ th'[p].ok = th[p].ok /\ th'[p].fail = th[p].fail /\ th'[p].then = th[p].then /\ th'[p].puts = th[p].puts
        /\ th'[p].ip = th[p].ip /\ th'[p].dp = th[p].dp /\ th'[p].tgt = th[p].tgt /\ th'[p].inum = th[p].inum
    <2>1. th'[p] = [f \in Fields |-> IF f = "at" THEN "openfile" ELSE th[p][f]]
      BY <1>5
    <2> QED BY <2>1 DEF Fields
  <1>7. /\ th[p].at = "createfound" /\ th[p].puts = <<>> /\ Eff(th[p]) = "createfound" /\ cwd[p] # 0
        /\ Variables(th[p]) /\ Continues(th[p]) /\ Asked(th[p]) /\ \A x \in Slot : ~Frees(th[p], x)
        /\ Held1(p, "put1") = 0 /\ Held1(p, "put2") = 0
        /\ th[p].tgt # 0 <=> th[p].fail = "linkbad"
        /\ th[p].ip # 0 /\ th[p].dp = 0
    <2>1. th[p].at = "createfound" /\ th[p].at \notin Putting
      BY DEF Locks, At, Locks, Putting
    <2> QED BY <2>1, Standing DEF HasIp, HasDp
  <1>8. /\ itable \in Table /\ Coherent(itable, dinode) /\ 0 \notin Slot
        /\ \A x \in Slot : itable[x].ref \in Nat /\ itable[x].inum \in Inum /\ itable[x].d \in Inode
        /\ th[p].ip \in Slot /\ itable[th[p].ip].ref > 0
    BY <1>7, InUse, Sizes DEF Slot
  <1>9. /\ itable' \in Table /\ Coherent(itable', dinode) /\ KeptIn(itable', p)
        /\ \A x \in Slot : itable'[x].ref = itable[x].ref
        /\ itable'[s].lock = p /\ itable'[s].valid
    <2>1. CanLock(s)
      BY <1>1 DEF Locks
    <2> QED BY <1>1, <1>8, <2>1, Entered DEF Like
  <1>10. th'[p] \in Local
    <2>1. "openfile" \in Where
      BY Zenon DEF Where, HasIp
    <2> QED BY <1>2, <1>5, <1>6, <2>1, OfLocal, InLocal
  <1>11. Eff(th'[p]) = "openfile" /\ Len(th'[p].puts) = 0 /\ (th'[p].puts # <<>> <=> 0 > 0)
    BY <1>6, <1>7 DEF Eff
  <1>12. PathInv(p)'
    <2>1. Variables(th'[p])
      BY <1>6, <1>7, <1>8, <1>9, <1>11 DEF Variables, Putting, HasIp, HasDp, Where
    <2>2. Continues(th'[p])
      BY <1>6, <1>7, <1>11 DEF Continues, Linking, Failing
    <2>3. Asked(th'[p])
      BY <1>6, <1>7, <1>11 DEF Asked, Serves, Opening, Creating, Naming
    <2> QED BY <2>1, <2>2, <2>3 DEF PathInv
  <1>13. LockInv(p)'
    <2>1. \A x \in Slot : ~Frees(th'[p], x)
      BY <1>6 DEF Frees
    <2>2. \A x \in Slot : KeepsLocked(th'[p], x) => x = s
      BY <1>1, <1>6, <1>7, <1>11 DEF KeepsLocked, Keeping, HasDp
    <2> QED BY <1>2, <1>9, <2>1, <2>2, LocksStep
  <1>14. UserInv(p)'
    BY <1>6, <1>7 DEF UserInv, files, Locks
  <1>15. RefInv'
    <2>1. \A u \in LocalVar : Held1(p, u)' = Held1(p, u)
      BY <1>6, <1>7, <1>11 DEF Held1, LocalVar, files
    <2> QED BY <1>4, <1>9, <2>1, RefSame DEF files
  <1>16. ncalls' \in 0 .. MaxCalls
    BY <1>2 DEF TypeOK, Locks
  <1> QED
    BY <1>4, <1>9, <1>10, <1>12, <1>13, <1>14, <1>15, <1>16, TableStep DEF Locks

\* open() takes the inode of the path.
LEMMA OpenLockStep ==
  ASSUME IInv, NEW p \in Proc, Locks(p, "openip"), th[p].call \in Calls, th[p].call.op = "open", itable' = Ilock(p, th[p].ip),
         Go(p, [at |-> "openfile"]),
         UNCHANGED <<disk, files, ncalls, lost>>
  PROVE  IInv'
  <1>1. PICK s : s = th[p].ip
    OBVIOUS
  <1>2. TypeOK /\ PathInv(p) /\ UserInv(p) /\ LockInv(p) /\ th[p] \in Local
    BY DEF IInv, TypeOK
  <1>3. PICK r : r = [at |-> "openfile"]
    OBVIOUS
  <1>4. /\ th'[p] = r \oplus th[p] /\ \A q \in Proc \ {p} : th'[q] = th[q]
        /\ th[p] = [f \in Fields |-> th[p][f]]
        /\ th'[p] \in Local => th' \in [Proc -> Local]
    BY <1>2, <1>3, Goes DEF Locks
  <1>5. /\ th'[p] = [f \in Fields |-> th'[p][f]]
        /\ th'[p] = [f \in Fields |-> IF f = "at" THEN "openfile" ELSE th[p][f]]
    <2>1. DOMAIN r = {"at"} /\ r.at = "openfile" /\ DOMAIN th[p] = Fields
      BY <1>3, <1>4
    <2> QED BY <1>4, <2>1 DEF \oplus, Fields
  <1>6. /\ th'[p].at = "openfile" /\ th'[p].call = th[p].call /\ th'[p].path = th[p].path /\ th'[p].parent = th[p].parent
        /\ th'[p].ok = th[p].ok /\ th'[p].fail = th[p].fail /\ th'[p].then = th[p].then /\ th'[p].puts = th[p].puts
        /\ th'[p].ip = th[p].ip /\ th'[p].dp = th[p].dp /\ th'[p].tgt = th[p].tgt /\ th'[p].inum = th[p].inum
    <2>1. th'[p] = [f \in Fields |-> IF f = "at" THEN "openfile" ELSE th[p][f]]
      BY <1>5
    <2> QED BY <2>1 DEF Fields
  <1>7. /\ th[p].at = "openip" /\ th[p].puts = <<>> /\ Eff(th[p]) = "openip" /\ cwd[p] # 0
        /\ Variables(th[p]) /\ Continues(th[p]) /\ Asked(th[p]) /\ \A x \in Slot : ~Frees(th[p], x)
        /\ Held1(p, "put1") = 0 /\ Held1(p, "put2") = 0
        /\ th[p].tgt # 0 <=> th[p].fail = "linkbad"
        /\ th[p].ip # 0 /\ th[p].dp = 0
    <2>1. th[p].at = "openip" /\ th[p].at \notin Putting
      BY DEF Locks, At, Locks, Putting
    <2> QED BY <2>1, Standing DEF HasIp, HasDp
  <1>8. /\ itable \in Table /\ Coherent(itable, dinode) /\ 0 \notin Slot
        /\ \A x \in Slot : itable[x].ref \in Nat /\ itable[x].inum \in Inum /\ itable[x].d \in Inode
        /\ th[p].ip \in Slot /\ itable[th[p].ip].ref > 0
    BY <1>7, InUse, Sizes DEF Slot
  <1>9. /\ itable' \in Table /\ Coherent(itable', dinode) /\ KeptIn(itable', p)
        /\ \A x \in Slot : itable'[x].ref = itable[x].ref
        /\ itable'[s].lock = p /\ itable'[s].valid
    <2>1. CanLock(s)
      BY <1>1 DEF Locks
    <2> QED BY <1>1, <1>8, <2>1, Entered DEF Like
  <1>10. th'[p] \in Local
    <2>1. "openfile" \in Where
      BY Zenon DEF Where, HasIp
    <2> QED BY <1>2, <1>5, <1>6, <2>1, OfLocal, InLocal
  <1>11. Eff(th'[p]) = "openfile" /\ Len(th'[p].puts) = 0 /\ (th'[p].puts # <<>> <=> 0 > 0)
    BY <1>6, <1>7 DEF Eff
  <1>12. PathInv(p)'
    <2>1. Variables(th'[p])
      BY <1>6, <1>7, <1>8, <1>9, <1>11 DEF Variables, Putting, HasIp, HasDp, Where
    <2>2. Continues(th'[p])
      BY <1>6, <1>7, <1>11 DEF Continues, Linking, Failing
    <2>3. Asked(th'[p])
      BY <1>6, <1>7, <1>11 DEF Asked, Serves, Opening, Creating, Naming
    <2> QED BY <2>1, <2>2, <2>3 DEF PathInv
  <1>13. LockInv(p)'
    <2>1. \A x \in Slot : ~Frees(th'[p], x)
      BY <1>6 DEF Frees
    <2>2. \A x \in Slot : KeepsLocked(th'[p], x) => x = s
      BY <1>1, <1>6, <1>7, <1>11 DEF KeepsLocked, Keeping, HasDp
    <2> QED BY <1>2, <1>9, <2>1, <2>2, LocksStep
  <1>14. UserInv(p)'
    BY <1>6, <1>7 DEF UserInv, files, Locks
  <1>15. RefInv'
    <2>1. \A u \in LocalVar : Held1(p, u)' = Held1(p, u)
      BY <1>6, <1>7, <1>11 DEF Held1, LocalVar, files
    <2> QED BY <1>4, <1>9, <2>1, RefSame DEF files
  <1>16. ncalls' \in 0 .. MaxCalls
    BY <1>2 DEF TypeOK, Locks
  <1> QED
    BY <1>4, <1>9, <1>10, <1>12, <1>13, <1>14, <1>15, <1>16, TableStep DEF Locks

\* dirlookup() finds an inode number or 0.
LEMMA FoundIsNumber ==
  ASSUME IInv, NEW p \in Proc, th[p].puts = <<>>, th[p].at \in Naming, th[p].ip \in Slot
  PROVE  /\ Found(p) # 0 => Found(p) \in Inum
         /\ LastOf(th[p].path) \in Name
  <1>1. th[p].path \in Seq(Name) \ {<<>>} /\ TypeOK
    BY DEF IInv, PathInv, Asked, Eff
  <1>2. Len(th[p].path) \in 1 .. Len(th[p].path)
    BY <1>1, EmptySeq, LenProperties
  <1>3. LastOf(th[p].path) \in Name
    BY <1>1, <1>2, ElementOfSeq DEF LastOf
  <1>4. itable[th[p].ip].inum \in Inum
    BY InUse
  <1>5. Found(p) \in 0 .. NINODES
    BY <1>1, <1>3, <1>4 DEF Found, TypeOK
  <1> QED
    BY <1>3, <1>5, Sizes DEF Inum

\* The directory of create().
LEMMA CreateDpStep ==
  ASSUME IInv, NEW p \in Proc, CreateDp(p)
  PROVE  IInv'
  <1>1. /\ th[p].at = "createdp" /\ th[p].puts = <<>> /\ Eff(th[p]) = "createdp" /\ cwd[p] # 0
        /\ Variables(th[p]) /\ Continues(th[p]) /\ Asked(th[p])
        /\ th[p].tgt # 0 <=> th[p].fail = "linkbad"
        /\ th[p].ip # 0
    <2>1. th[p].at = "createdp" /\ th[p].at \notin Putting
      BY DEF CreateDp, At, Locks, Putting
    <2> QED BY <2>1, Standing DEF HasIp, HasDp
  <1>2. /\ itable \in Table /\ Coherent(itable, dinode) /\ 0 \notin Slot
        /\ \A x \in Slot : itable[x].ref \in Nat /\ itable[x].inum \in Inum /\ itable[x].d \in Inode
        /\ th[p].ip \in Slot /\ itable[th[p].ip].ref > 0
    BY <1>1, InUse, Sizes DEF Slot
  <1>3. PICK s \in Slot : s = th[p].ip
    BY <1>2
  <1>4. PICK t, i : t = Ilock(p, s) /\ i = Found(p)
    OBVIOUS
  <1>5. UNCHANGED <<disk, files, ncalls, lost>> /\ Locks(p, "createdp")
    BY DEF CreateDp
  <1>6. ASSUME i # 0, HasEntry(t, i), itable' = Iget(Unlock(t, s), i),
               PutThen(p, <<s>>, "createfound", [ip |-> EntryFor(t, i)])
        PROVE  IInv'
    <2>1. i \in Inum
      BY <1>1, <1>3, <1>4, <1>6, FoundIsNumber DEF Naming
    <2> QED BY <1>3, <1>4, <1>5, <1>6, <2>1, CreateOldStep
  <1>7. ASSUME itable' = t, Go(p, [at |-> "ialloc", dp |-> s, ip |-> 0]) PROVE IInv'
    BY <1>3, <1>4, <1>5, <1>7, CreateNewStep
  <1> QED
    BY <1>3, <1>4, <1>5, <1>6, <1>7 DEF CreateDp

\* create() of a name that exists.
LEMMA CreateFoundStep ==
  ASSUME IInv, NEW p \in Proc, CreateFound(p)
  PROVE  IInv'
  <1>1. /\ th[p].at = "createfound" /\ th[p].puts = <<>> /\ Eff(th[p]) = "createfound" /\ cwd[p] # 0
        /\ Variables(th[p]) /\ Continues(th[p]) /\ Asked(th[p])
        /\ th[p].tgt # 0 <=> th[p].fail = "linkbad"
        /\ th[p].ip # 0
    <2>1. th[p].at = "createfound" /\ th[p].at \notin Putting
      BY DEF CreateFound, At, Locks, Putting
    <2> QED BY <2>1, Standing DEF HasIp, HasDp
  <1>2. /\ itable \in Table /\ Coherent(itable, dinode) /\ 0 \notin Slot
        /\ \A x \in Slot : itable[x].ref \in Nat /\ itable[x].inum \in Inum /\ itable[x].d \in Inode
        /\ th[p].ip \in Slot /\ itable[th[p].ip].ref > 0
    BY <1>1, InUse, Sizes DEF Slot
  <1>3. PICK s \in Slot : s = th[p].ip
    BY <1>2
  <1>4. UNCHANGED <<disk, files, ncalls, lost>> /\ Locks(p, "createfound")
    BY DEF CreateFound
  <1>5. ASSUME GiveUp(p, s, "endop"), UNCHANGED <<disk, files, ncalls, lost>> PROVE IInv'
    <2>1. PICK w : w = "endop"
      BY <1>1 DEF Continues, Failing
    <2>2. th[p].at \in HasIp \ {"writei", "opentrunc"} /\ CanLock(s)
      BY <1>1, <1>3 DEF HasIp, CreateFound, Locks
    <2>3. w = "dropdp" <=> th[p].at \in HasDp
      BY <1>1, <2>1 DEF HasDp
    <2>4. w = "endop" => th[p].fail # "linkbad"
      BY <1>1, <2>1 DEF Continues, Linking
    <2>5. w = "linkbad" => th[p].fail = "linkbad"
      BY <1>1, <2>1 DEF Continues
    <2>6. w = "dropdp" => th[p].at \in Failing
      BY <1>1, <2>1 DEF Failing
    <2>7. w \in {"endop", "dropdp", "linkbad"} /\ GiveUp(p, s, w)
      BY <1>5, <2>1
    <2> QED BY <1>5, <1>1, <1>3, <2>2, <2>3, <2>4, <2>5, <2>6, <2>7, GiveUpStep
  <1>6. ASSUME th[p].call.op = "open", itable' = Ilock(p, s), Go(p, [at |-> "openfile"]) PROVE IInv'
    <2>1. th[p].call \in Calls
      BY <1>1 DEF Asked, Serves, Creating
    <2> QED BY <1>3, <1>4, <1>6, <2>1, CreateTakenStep
  <1> QED
    BY <1>3, <1>4, <1>5, <1>6 DEF CreateFound

\* open() of the inode of a path.
LEMMA OpenIpStep ==
  ASSUME IInv, NEW p \in Proc, OpenIp(p)
  PROVE  IInv'
  <1>1. /\ th[p].at = "openip" /\ th[p].puts = <<>> /\ Eff(th[p]) = "openip" /\ cwd[p] # 0
        /\ Variables(th[p]) /\ Continues(th[p]) /\ Asked(th[p])
        /\ th[p].tgt # 0 <=> th[p].fail = "linkbad"
        /\ th[p].ip # 0
    <2>1. th[p].at = "openip" /\ th[p].at \notin Putting
      BY DEF OpenIp, At, Locks, Putting
    <2> QED BY <2>1, Standing DEF HasIp, HasDp
  <1>2. /\ itable \in Table /\ Coherent(itable, dinode) /\ 0 \notin Slot
        /\ \A x \in Slot : itable[x].ref \in Nat /\ itable[x].inum \in Inum /\ itable[x].d \in Inode
        /\ th[p].ip \in Slot /\ itable[th[p].ip].ref > 0
    BY <1>1, InUse, Sizes DEF Slot
  <1>3. PICK s \in Slot : s = th[p].ip
    BY <1>2
  <1>4. UNCHANGED <<disk, files, ncalls, lost>> /\ Locks(p, "openip")
    BY DEF OpenIp
  <1>5. ASSUME GiveUp(p, s, "endop"), UNCHANGED <<disk, files, ncalls, lost>> PROVE IInv'
    <2>1. PICK w : w = "endop"
      BY <1>1 DEF Continues, Failing
    <2>2. th[p].at \in HasIp \ {"writei", "opentrunc"} /\ CanLock(s)
      BY <1>1, <1>3 DEF HasIp, OpenIp, Locks
    <2>3. w = "dropdp" <=> th[p].at \in HasDp
      BY <1>1, <2>1 DEF HasDp
    <2>4. w = "endop" => th[p].fail # "linkbad"
      BY <1>1, <2>1 DEF Continues, Linking
    <2>5. w = "linkbad" => th[p].fail = "linkbad"
      BY <1>1, <2>1 DEF Continues
    <2>6. w = "dropdp" => th[p].at \in Failing
      BY <1>1, <2>1 DEF Failing
    <2>7. w \in {"endop", "dropdp", "linkbad"} /\ GiveUp(p, s, w)
      BY <1>5, <2>1
    <2> QED BY <1>5, <1>1, <1>3, <2>2, <2>3, <2>4, <2>5, <2>6, <2>7, GiveUpStep
  <1>6. ASSUME itable' = Ilock(p, s), Go(p, [at |-> "openfile"]) PROVE IInv'
    <2>1. th[p].call \in Calls /\ th[p].call.op = "open"
      BY <1>1 DEF Asked, Serves, Opening
    <2> QED BY <1>3, <1>4, <1>6, <2>1, OpenLockStep
  <1> QED
    BY <1>3, <1>4, <1>5, <1>6 DEF OpenIp

\* ialloc() finds no inode.
LEMMA IallocFullStep ==
  ASSUME IInv, NEW p \in Proc, At(p, "ialloc"), Go(p, [at |-> "dropdp"]), UNCHANGED itable, UNCHANGED <<disk, files, ncalls, lost>>
  PROVE  IInv'
  <1>1. TypeOK /\ PathInv(p) /\ UserInv(p) /\ LockInv(p) /\ th[p] \in Local
    BY DEF IInv, TypeOK
  <1>2. PICK r : r = [at |-> "dropdp"]
    OBVIOUS
  <1>3. /\ th'[p] = r \oplus th[p] /\ \A q \in Proc \ {p} : th'[q] = th[q]
        /\ th[p] = [f \in Fields |-> th[p][f]]
        /\ th'[p] \in Local => th' \in [Proc -> Local]
    BY <1>1, <1>2, Goes DEF At
  <1>4. /\ th'[p] = [f \in Fields |-> th'[p][f]]
        /\ th'[p] = [f \in Fields |-> IF f = "at" THEN "dropdp" ELSE th[p][f]]
    <2>1. DOMAIN r = {"at"} /\ r.at = "dropdp" /\ DOMAIN th[p] = Fields
      BY <1>2, <1>3
    <2> QED BY <1>3, <2>1 DEF \oplus, Fields
  <1>5. /\ th'[p].at = "dropdp" /\ th'[p].call = th[p].call /\ th'[p].path = th[p].path /\ th'[p].parent = th[p].parent
        /\ th'[p].ok = th[p].ok /\ th'[p].fail = th[p].fail /\ th'[p].then = th[p].then /\ th'[p].puts = th[p].puts
        /\ th'[p].ip = th[p].ip /\ th'[p].dp = th[p].dp /\ th'[p].tgt = th[p].tgt /\ th'[p].inum = th[p].inum
    <2>1. th'[p] = [f \in Fields |-> IF f = "at" THEN "dropdp" ELSE th[p][f]]
      BY <1>4
    <2> QED BY <2>1 DEF Fields
  <1>6. /\ th[p].at = "ialloc" /\ th[p].puts = <<>> /\ Eff(th[p]) = "ialloc" /\ cwd[p] # 0
        /\ Variables(th[p]) /\ Continues(th[p]) /\ Asked(th[p]) /\ \A x \in Slot : ~Frees(th[p], x)
        /\ Held1(p, "put1") = 0 /\ Held1(p, "put2") = 0
        /\ th[p].tgt # 0 <=> th[p].fail = "linkbad"
        /\ th[p].ip = 0 /\ th[p].dp # 0
    <2>1. th[p].at = "ialloc" /\ th[p].at \notin Putting
      BY DEF At, At, Locks, Putting
    <2> QED BY <2>1, Standing DEF HasIp, HasDp
  <1>7. /\ itable \in Table /\ Coherent(itable, dinode) /\ 0 \notin Slot
        /\ \A x \in Slot : itable[x].ref \in Nat /\ itable[x].inum \in Inum /\ itable[x].d \in Inode
        /\ th[p].dp \in Slot /\ itable[th[p].dp].ref > 0
    BY <1>6, InUse, Sizes DEF Slot
  <1>8. /\ itable' \in Table /\ Coherent(itable', dinode) /\ KeptIn(itable', p)
        /\ \A x \in Slot : itable'[x].ref = itable[x].ref
        /\ \A x \in Slot : itable'[x].lock = itable[x].lock /\ (itable[x].ref > 0 => itable'[x].valid = itable[x].valid)
    <2>1. itable' = itable /\ dinode' = dinode
      BY DEF disk, At
    <2> QED BY <1>7, <2>1 DEF KeptIn
  <1>9. th'[p] \in Local
    <2>1. "dropdp" \in Where
      BY Zenon DEF Where, HasDp
    <2> QED BY <1>1, <1>4, <1>5, <2>1, OfLocal, InLocal
  <1>10. Eff(th'[p]) = "dropdp" /\ Len(th'[p].puts) = 0 /\ (th'[p].puts # <<>> <=> 0 > 0)
    BY <1>5, <1>6 DEF Eff
  <1>11. PathInv(p)'
    <2>1. Variables(th'[p])
      BY <1>5, <1>6, <1>7, <1>8, <1>10 DEF Variables, Putting, HasIp, HasDp, Where
    <2>2. Continues(th'[p])
      BY <1>5, <1>6, <1>10 DEF Continues, Linking, Failing
    <2>3. Asked(th'[p])
      BY <1>5, <1>6, <1>10 DEF Asked, Serves, Opening, Creating, Naming
    <2> QED BY <2>1, <2>2, <2>3 DEF PathInv
  <1>12. LockInv(p)'
    <2>1. \A x \in Slot : ~Frees(th'[p], x)
      BY <1>5 DEF Frees
    <2>2. \A x \in Slot : KeepsLocked(th'[p], x) => KeepsLocked(th[p], x)
      BY <1>5, <1>6, <1>10 DEF KeepsLocked, Keeping, HasDp
    <2>3. \A x \in Slot : KeepsLocked(th[p], x) => itable[x].ref > 0
      BY LockedIsCounted
    <2> QED BY <1>1, <1>8, <2>1, <2>2, <2>3, LocksStep
  <1>13. UserInv(p)'
    BY <1>5, <1>6 DEF UserInv, files, At
  <1>14. RefInv'
    <2>1. \A u \in LocalVar : Held1(p, u)' = Held1(p, u)
      BY <1>5, <1>6, <1>10 DEF Held1, LocalVar, files
    <2> QED BY <1>3, <1>8, <2>1, RefSame DEF files
  <1>15. ncalls' \in 0 .. MaxCalls
    BY <1>1 DEF TypeOK, At
  <1> QED
    BY <1>3, <1>8, <1>9, <1>11, <1>12, <1>13, <1>14, <1>15, TableStep DEF At

\* ialloc() takes an inode, on the disk only.
LEMMA IallocStep1 ==
  ASSUME IInv, NEW p \in Proc, At(p, "ialloc"), NEW i \in Inum, dinode[i].type = "none", NEW d \in Inode, d.type # "none", d.addrs = {},
         dinode' = [dinode EXCEPT ![i] = d], Go(p, [at |-> "iallocget", inum |-> i]),
         UNCHANGED <<dir, used, itable, files, ncalls, lost>>
  PROVE  IInv'
  <1>1. TypeOK /\ PathInv(p) /\ UserInv(p) /\ LockInv(p) /\ th[p] \in Local
    BY DEF IInv, TypeOK
  <1>2. PICK r : r = [at |-> "iallocget", inum |-> i]
    OBVIOUS
  <1>3. /\ th'[p] = r \oplus th[p] /\ \A q \in Proc \ {p} : th'[q] = th[q]
        /\ th[p] = [f \in Fields |-> th[p][f]]
        /\ th'[p] \in Local => th' \in [Proc -> Local]
    BY <1>1, <1>2, Goes DEF At
  <1>4. th'[p] = [f \in Fields |-> th'[p][f]]
    BY <1>2, <1>3 DEF \oplus, Fields
  <1>5. /\ th'[p].at = "iallocget" /\ th'[p].call = th[p].call /\ th'[p].path = th[p].path /\ th'[p].parent = th[p].parent
        /\ th'[p].ok = th[p].ok /\ th'[p].fail = th[p].fail /\ th'[p].then = th[p].then /\ th'[p].puts = th[p].puts
        /\ th'[p].ip = th[p].ip /\ th'[p].dp = th[p].dp /\ th'[p].tgt = th[p].tgt /\ th'[p].inum = i
    BY <1>2, <1>3 DEF \oplus, Fields
  <1>6. /\ th[p].at = "ialloc" /\ th[p].puts = <<>> /\ Eff(th[p]) = "ialloc" /\ cwd[p] # 0
        /\ Variables(th[p]) /\ Continues(th[p]) /\ Asked(th[p]) /\ \A x \in Slot : ~Frees(th[p], x)
        /\ Held1(p, "put1") = 0 /\ Held1(p, "put2") = 0
        /\ th[p].tgt # 0 <=> th[p].fail = "linkbad"
        /\ th[p].ip = 0 /\ th[p].dp # 0
    <2>1. th[p].at = "ialloc" /\ th[p].at \notin Putting
      BY DEF At, At, Locks, Putting
    <2> QED BY <2>1, Standing DEF HasIp, HasDp
  <1>7. /\ itable \in Table /\ Coherent(itable, dinode) /\ 0 \notin Slot
        /\ \A x \in Slot : itable[x].ref \in Nat /\ itable[x].inum \in Inum /\ itable[x].d \in Inode
        /\ th[p].dp \in Slot /\ itable[th[p].dp].ref > 0
    BY <1>6, InUse, Sizes DEF Slot
  <1>8. /\ itable' \in Table /\ Coherent(itable', dinode') /\ KeptIn(itable', p)
        /\ \A x \in Slot : itable'[x].ref = itable[x].ref
        /\ \A x \in Slot : itable'[x].lock = itable[x].lock /\ (itable[x].ref > 0 => itable'[x].valid = itable[x].valid)
    <2>1. itable' = itable /\ dinode \in [Inum -> Inode]
      BY <1>1 DEF TypeOK
    <2>2. \A x \in Slot : itable[x].ref > 0 /\ itable[x].valid => itable[x].inum # i
      BY <1>7 DEF Coherent
    <2>3. Coherent(itable, dinode')
      BY <1>7, <2>1, <2>2 DEF Coherent
    <2> QED BY <1>7, <2>1, <2>3 DEF KeptIn
  <1>9. /\ dinode' \in [Inum -> Inode] /\ dir' \in [Inum -> [Name -> 0 .. NINODES]] /\ used' \subseteq Block
         /\ lost' \subseteq Inum /\ BlockInv' /\ i # 0
         /\ \A j \in Inum : dinode'[j].type = "none" => dinode[j].type = "none"
    <2>1. dinode' \in [Inum -> Inode] /\ dinode'[i] = d /\ \A j \in Inum \ {i} : dinode'[j] = dinode[j]
      BY <1>1 DEF TypeOK
    <2>2. dinode[i].addrs = {} /\ BlockInv
      BY DEF IInv, BlockInv
    <2>3. BlockInv'
      <3>1. {} \cap used = {} /\ dinode'[i].addrs = dinode[i].addrs \cup {} /\ used' = used \cup {} /\ dinode'[i].type # "none"
        BY <2>1, <2>2
      <3> QED BY <1>1, <2>1, <2>2, <3>1, BlocksGrow
    <2>4. \A j \in Inum : dinode'[j].type = "none" => dinode[j].type = "none"
      BY <2>1
    <2> QED BY <1>1, <2>1, <2>3, <2>4 DEF TypeOK, Inum
  <1>10. th'[p] \in Local
    <2>1. "iallocget" \in Where /\ i \in 0 .. NINODES /\ i # 0
      BY Sizes DEF Where, HasDp, Inum
    <2> QED BY <1>1, <1>4, <1>5, <2>1, OfLocal, InLocal
  <1>11. Eff(th'[p]) = "iallocget" /\ Len(th'[p].puts) = 0 /\ (th'[p].puts # <<>> <=> 0 > 0)
    BY <1>5, <1>6 DEF Eff
  <1>12. PathInv(p)'
    <2>1. Variables(th'[p])
      BY <1>5, <1>6, <1>7, <1>8, <1>11, <1>9 DEF Variables, Putting, HasIp, HasDp, Where
    <2>2. Continues(th'[p])
      BY <1>5, <1>6, <1>11 DEF Continues, Linking, Failing
    <2>3. Asked(th'[p])
      BY <1>5, <1>6, <1>11 DEF Asked, Serves, Opening, Creating, Naming
    <2> QED BY <2>1, <2>2, <2>3 DEF PathInv
  <1>13. LockInv(p)'
    <2>1. \A x \in Slot : ~Frees(th'[p], x)
      BY <1>5, <1>9 DEF Frees, HasIp, HasDp
    <2>2. \A x \in Slot : KeepsLocked(th'[p], x) => KeepsLocked(th[p], x)
      BY <1>5, <1>6, <1>11 DEF KeepsLocked, Keeping, HasDp
    <2>3. \A x \in Slot : KeepsLocked(th[p], x) => itable[x].ref > 0
      BY LockedIsCounted
    <2> QED BY <1>1, <1>8, <2>1, <2>2, <2>3, LocksStep
  <1>14. UserInv(p)'
    BY <1>5, <1>6 DEF UserInv, files, At
  <1>15. RefInv'
    <2>1. \A u \in LocalVar : Held1(p, u)' = Held1(p, u)
      BY <1>5, <1>6, <1>11 DEF Held1, LocalVar, files
    <2> QED BY <1>3, <1>8, <2>1, RefSame DEF files
  <1>16. ncalls' \in 0 .. MaxCalls
    BY <1>1 DEF TypeOK, At
  <1> QED
    BY <1>3, <1>8, <1>10, <1>12, <1>13, <1>14, <1>15, <1>16, <1>9, DiskStep DEF At

\* ialloc().
LEMMA IallocStep ==
  ASSUME IInv, NEW p \in Proc, Ialloc(p)
  PROVE  IInv'
  <1>1. PICK avail : avail = {i \in Inum : dinode[i].type = "none"}
    OBVIOUS
  <1>2. CASE avail = {}
    BY <1>1, <1>2, IallocFullStep DEF Ialloc, disk
  <1>3. ASSUME avail # {} PROVE IInv'
    <2>1. PICK i : i = Least(avail)
      OBVIOUS
    <2>2. i \in avail
      BY <1>1, <1>3, <2>1, LeastNatural, Sizes
    <2>3. PICK ty : ty = (IF IsMkdir(p) THEN "dir" ELSE "file")
      OBVIOUS
    <2>4. PICK d : d = [Free EXCEPT !.type = ty]
      OBVIOUS
    <2>5. d \in Inode /\ d.type # "none" /\ d.addrs = {}
      BY <2>3, <2>4 DEF Inode, Free
    <2>6. dinode' = [dinode EXCEPT ![i] = d] /\ Go(p, [at |-> "iallocget", inum |-> i])
      BY <1>1, <1>3, <2>1, <2>3, <2>4 DEF Ialloc
    <2> QED BY <1>1, <2>2, <2>5, <2>6, IallocStep1 DEF Ialloc
  <1> QED
    BY <1>2, <1>3

\* iget() of the inode that ialloc() took.
LEMMA IallocGetStep ==
  ASSUME IInv, NEW p \in Proc, IallocGet(p)
  PROVE  IInv'
  <1>1. PICK i, e : i = th[p].inum /\ e = EntryFor(itable, i)
    OBVIOUS
  <1>2. TypeOK /\ PathInv(p) /\ UserInv(p) /\ LockInv(p) /\ th[p] \in Local
    BY DEF IInv, TypeOK
  <1>3. PICK r : r = [at |-> "createip", ip |-> e, inum |-> 0]
    OBVIOUS
  <1>4. /\ th'[p] = r \oplus th[p] /\ \A q \in Proc \ {p} : th'[q] = th[q]
        /\ th[p] = [f \in Fields |-> th[p][f]]
        /\ th'[p] \in Local => th' \in [Proc -> Local]
    BY <1>2, <1>3, <1>1, Goes DEF IallocGet
  <1>5. th'[p] = [f \in Fields |-> th'[p][f]]
    BY <1>3, <1>4 DEF \oplus, Fields
  <1>6. /\ th'[p].at = "createip" /\ th'[p].call = th[p].call /\ th'[p].path = th[p].path /\ th'[p].parent = th[p].parent
        /\ th'[p].ok = th[p].ok /\ th'[p].fail = th[p].fail /\ th'[p].then = th[p].then /\ th'[p].puts = th[p].puts
        /\ th'[p].ip = e /\ th'[p].dp = th[p].dp /\ th'[p].tgt = th[p].tgt /\ th'[p].inum = 0
    BY <1>3, <1>4 DEF \oplus, Fields
  <1>7. /\ th[p].at = "iallocget" /\ th[p].puts = <<>> /\ Eff(th[p]) = "iallocget" /\ cwd[p] # 0
        /\ Variables(th[p]) /\ Continues(th[p]) /\ Asked(th[p]) /\ \A x \in Slot : ~Frees(th[p], x)
        /\ Held1(p, "put1") = 0 /\ Held1(p, "put2") = 0
        /\ th[p].tgt # 0 <=> th[p].fail = "linkbad"
        /\ th[p].ip = 0 /\ th[p].dp # 0
    <2>1. th[p].at = "iallocget" /\ th[p].at \notin Putting
      BY DEF IallocGet, At, Locks, Putting
    <2> QED BY <2>1, Standing DEF HasIp, HasDp
  <1>8. /\ itable \in Table /\ Coherent(itable, dinode) /\ 0 \notin Slot
        /\ \A x \in Slot : itable[x].ref \in Nat /\ itable[x].inum \in Inum /\ itable[x].d \in Inode
    BY <1>7, InUse, Sizes DEF Slot
  <1>9. /\ e \in Slot /\ itable' \in Table /\ Coherent(itable', dinode) /\ KeptIn(itable', p)
        /\ \A x \in Slot : itable'[x].ref = itable[x].ref + One(e, x)
        /\ \A x \in Slot : itable'[x].lock = itable[x].lock /\ (itable[x].ref > 0 => itable'[x].valid = itable[x].valid)
    <2>1. KeptIn(itable, p) /\ HasEntry(itable, i) /\ itable' = Iget(itable, i)
      BY <1>1 DEF KeptIn, IallocGet
    <2>2. i \in Inum
      <3>1. th[p].inum \in 0 .. NINODES
        BY <1>2, OfLocal
      <3>2. th[p].inum # 0
        BY <1>7 DEF Variables
      <3> QED BY <1>1, <3>1, <3>2, Sizes DEF Inum
    <2> QED BY <1>1, <1>8, <2>1, <2>2, GotAfter
  <1>10. th'[p] \in Local
    <2>1. "createip" \in Where /\ e \in 0 .. NINODE /\ 0 \in 0 .. NINODES
      BY <1>9, Sizes DEF Where, HasIp, Slot
    <2> QED BY <1>2, <1>5, <1>6, <2>1, OfLocal, InLocal
  <1>11. Eff(th'[p]) = "createip" /\ Len(th'[p].puts) = 0 /\ (th'[p].puts # <<>> <=> 0 > 0)
    BY <1>6, <1>7 DEF Eff
  <1>12. PathInv(p)'
    <2>1. Variables(th'[p])
      BY <1>6, <1>7, <1>8, <1>9, <1>11 DEF Variables, Putting, HasIp, HasDp, Where
    <2>2. Continues(th'[p])
      BY <1>6, <1>7, <1>11 DEF Continues, Linking, Failing
    <2>3. Asked(th'[p])
      BY <1>6, <1>7, <1>11 DEF Asked, Serves, Opening, Creating, Naming
    <2> QED BY <2>1, <2>2, <2>3 DEF PathInv
  <1>13. LockInv(p)'
    <2>1. \A x \in Slot : ~Frees(th'[p], x)
      BY <1>6 DEF Frees
    <2>2. \A x \in Slot : KeepsLocked(th'[p], x) => KeepsLocked(th[p], x)
      BY <1>6, <1>7, <1>11 DEF KeepsLocked, Keeping, HasDp
    <2>3. \A x \in Slot : KeepsLocked(th[p], x) => itable[x].ref > 0
      BY LockedIsCounted
    <2> QED BY <1>2, <1>9, <2>1, <2>2, <2>3, LocksStep
  <1>14. UserInv(p)'
    BY <1>6, <1>7 DEF UserInv, files, IallocGet
  <1>15. RefInv'
    <2>1. Held1(p, "ip") = 0 /\ Held1(p, "ip")' = e /\ Held1(p, "dp")' = Held1(p, "dp")
      BY <1>6, <1>7, <1>11 DEF Held1
    <2>2. \A u \in LocalVar \ {"ip", "dp"} : Held1(p, u)' = Held1(p, u)
      BY <1>6, <1>7, <1>11 DEF Held1, LocalVar, files, IallocGet
    <2>3. "ip" \in LocalVar /\ "dp" \in LocalVar /\ "ip" # "dp"
      BY DEF LocalVar
    <2>4. \A x \in Slot : itable'[x].ref = itable[x].ref - One(Held1(p, "ip"), x) + One(Held1(p, "ip")', x)
                                             - One(Held1(p, "dp"), x) + One(Held1(p, "dp")', x)
      BY <1>8, <1>9, <2>1 DEF One
    <2> QED BY <1>4, <2>2, <2>3, <2>4, RefStep DEF IInv, files, IallocGet
  <1>16. ncalls' \in 0 .. MaxCalls
    BY <1>2 DEF TypeOK, IallocGet
  <1> QED
    BY <1>4, <1>9, <1>10, <1>12, <1>13, <1>14, <1>15, <1>16, TableStep DEF IallocGet

\* The inode of create() gets its link, and a block if it is a directory.
LEMMA CreateIpStep1 ==
  ASSUME IInv, NEW p \in Proc, Locks(p, "createip"), NEW w \in {"createfail", "createlink"},
         NEW new \in SUBSET (Block \ used), NEW d \in Inode, d.type = Loaded(th[p].ip).type, d.addrs = Loaded(th[p].ip).addrs \cup new,
         Iupdate(Ilock(p, th[p].ip), th[p].ip, d), used' = used \cup new,
         dir' \in [Inum -> [Name -> 0 .. NINODES]],
         Go(p, [at |-> w]), UNCHANGED <<files, ncalls, lost>>
  PROVE  IInv'
  <1>1. PICK s : s = th[p].ip
    OBVIOUS
  <1>2. TypeOK /\ PathInv(p) /\ UserInv(p) /\ LockInv(p) /\ th[p] \in Local
    BY DEF IInv, TypeOK
  <1>3. PICK r : r = [at |-> w]
    OBVIOUS
  <1>4. /\ th'[p] = r \oplus th[p] /\ \A q \in Proc \ {p} : th'[q] = th[q]
        /\ th[p] = [f \in Fields |-> th[p][f]]
        /\ th'[p] \in Local => th' \in [Proc -> Local]
    BY <1>2, <1>3, Goes DEF Locks
  <1>5. /\ th'[p] = [f \in Fields |-> th'[p][f]]
        /\ th'[p] = [f \in Fields |-> IF f = "at" THEN w ELSE th[p][f]]
    <2>1. DOMAIN r = {"at"} /\ r.at = w /\ DOMAIN th[p] = Fields
      BY <1>3, <1>4
    <2> QED BY <1>4, <2>1 DEF \oplus, Fields
  <1>6. /\ th'[p].at = w /\ th'[p].call = th[p].call /\ th'[p].path = th[p].path /\ th'[p].parent = th[p].parent
        /\ th'[p].ok = th[p].ok /\ th'[p].fail = th[p].fail /\ th'[p].then = th[p].then /\ th'[p].puts = th[p].puts
        /\ th'[p].ip = th[p].ip /\ th'[p].dp = th[p].dp /\ th'[p].tgt = th[p].tgt /\ th'[p].inum = th[p].inum
    <2>1. th'[p] = [f \in Fields |-> IF f = "at" THEN w ELSE th[p][f]]
      BY <1>5
    <2> QED BY <2>1 DEF Fields
  <1>7. /\ th[p].at = "createip" /\ th[p].puts = <<>> /\ Eff(th[p]) = "createip" /\ cwd[p] # 0
        /\ Variables(th[p]) /\ Continues(th[p]) /\ Asked(th[p]) /\ \A x \in Slot : ~Frees(th[p], x)
        /\ Held1(p, "put1") = 0 /\ Held1(p, "put2") = 0
        /\ th[p].tgt # 0 <=> th[p].fail = "linkbad"
        /\ th[p].ip # 0 /\ th[p].dp # 0
    <2>1. th[p].at = "createip" /\ th[p].at \notin Putting
      BY DEF Locks, At, Locks, Putting
    <2> QED BY <2>1, Standing DEF HasIp, HasDp
  <1>8. /\ itable \in Table /\ Coherent(itable, dinode) /\ 0 \notin Slot
        /\ \A x \in Slot : itable[x].ref \in Nat /\ itable[x].inum \in Inum /\ itable[x].d \in Inode
        /\ th[p].ip \in Slot /\ itable[th[p].ip].ref > 0
        /\ th[p].dp \in Slot
    BY <1>7, InUse, Sizes DEF Slot
  <1>9. /\ itable' \in Table /\ Coherent(itable', dinode') /\ KeptIn(itable', p)
        /\ \A x \in Slot : itable'[x].ref = itable[x].ref
        /\ itable'[s].lock = p /\ itable'[s].valid /\ itable[s].lock = None
        /\ \A x \in Slot \ {s} : itable'[x] = itable[x]
        /\ dinode' \in [Inum -> Inode] /\ used' \subseteq Block /\ BlockInv'
        /\ \A i \in Inum : dinode'[i].type = "none" => dinode[i].type = "none"
    <2>1. PICK t : t = Ilock(p, s)
      OBVIOUS
    <2>2. /\ t \in Table /\ Coherent(t, dinode) /\ KeptIn(t, p)
          /\ t[s].lock = p /\ t[s].valid /\ t[s].d = Loaded(s) /\ itable[s].lock = None
          /\ \A x \in Slot : t[x].ref = itable[x].ref
          /\ \A x \in Slot \ {s} : t[x] = itable[x]
      BY <1>1, <1>8, <2>1, Entered DEF Like, Locks
    <2>3. Iupdate(t, s, d) /\ d.type = t[s].d.type /\ d.addrs = t[s].d.addrs \cup new /\ itable[s].lock \in {None, p}
      BY <1>1, <2>1, <2>2
    <2>4. /\ t \in Table /\ KeptIn(t, p) /\ Coherent(t, dinode) /\ t[s].valid /\ itable[s].lock \in {None, p}
          /\ s \in Slot /\ itable[s].ref > 0 /\ (\A x \in Slot : t[x].ref = itable[x].ref)
          /\ new \subseteq Block \ used /\ used' = used \cup new
          /\ Iupdate(t, s, d) /\ d.type = t[s].d.type /\ d.addrs = t[s].d.addrs \cup new
      BY <1>1, <1>7, <1>8, <2>2, <2>3
    <2>5. /\ itable' \in Table /\ Coherent(itable', dinode') /\ KeptIn(itable', p)
          /\ \A x \in Slot \ {s} : itable'[x] = t[x]
          /\ \A x \in Slot : itable'[x].ref = itable[x].ref
          /\ itable'[s].lock = t[s].lock /\ itable'[s].valid
          /\ dinode' \in [Inum -> Inode] /\ used' \subseteq Block /\ BlockInv'
          /\ \A i \in Inum : dinode'[i].type = "none" => dinode[i].type = "none"
      BY <2>4, Written
    <2> QED BY <1>8, <2>2, <2>5
  <1>10. th[p].ip # th[p].dp /\ lost' \subseteq Inum
    <2>1. KeepsLocked(th[p], th[p].dp)
      BY <1>7 DEF KeepsLocked, HasDp
    <2>2. itable[th[p].dp].lock = p
      BY <1>2, <1>8, <2>1 DEF LockInv
    <2> QED BY <1>1, <1>2, <1>9, <2>2, Sizes DEF TypeOK
  <1>11. th'[p] \in Local
    <2>1. w \in Where
      BY Zenon DEF Where, HasIp
    <2> QED BY <1>2, <1>5, <1>6, <2>1, OfLocal, InLocal
  <1>12. Eff(th'[p]) = w /\ Len(th'[p].puts) = 0 /\ (th'[p].puts # <<>> <=> 0 > 0)
    BY <1>6, <1>7 DEF Eff
  <1>13. PathInv(p)'
    <2>1. Variables(th'[p])
      BY <1>6, <1>7, <1>8, <1>9, <1>12, <1>10 DEF Variables, Putting, HasIp, HasDp, Where
    <2>2. Continues(th'[p])
      BY <1>6, <1>7, <1>12 DEF Continues, Linking, Failing
    <2>3. Asked(th'[p])
      BY <1>6, <1>7, <1>12 DEF Asked, Serves, Opening, Creating, Naming
    <2> QED BY <2>1, <2>2, <2>3 DEF PathInv
  <1>14. LockInv(p)'
    <2>1. \A x \in Slot : ~Frees(th'[p], x)
      BY <1>6, <1>10 DEF Frees, HasIp, HasDp
    <2>2. \A x \in Slot : KeepsLocked(th'[p], x) => x = s \/ KeepsLocked(th[p], x)
      BY <1>1, <1>6, <1>7, <1>12 DEF KeepsLocked, Keeping, HasDp
    <2> QED BY <1>2, <1>9, <2>1, <2>2, LocksStep
  <1>15. UserInv(p)'
    BY <1>6, <1>7 DEF UserInv, files, Locks
  <1>16. RefInv'
    <2>1. \A u \in LocalVar : Held1(p, u)' = Held1(p, u)
      BY <1>6, <1>7, <1>12 DEF Held1, LocalVar, files
    <2> QED BY <1>4, <1>9, <2>1, RefSame DEF files
  <1>17. ncalls' \in 0 .. MaxCalls
    BY <1>2 DEF TypeOK, Locks
  <1> QED
    BY <1>4, <1>9, <1>11, <1>13, <1>14, <1>15, <1>16, <1>17, <1>10, DiskStep DEF Locks

\* create() of the inode.
LEMMA CreateIpStep ==
  ASSUME IInv, NEW p \in Proc, CreateIp(p)
  PROVE  IInv'
  <1>1. /\ th[p].at = "createip" /\ th[p].puts = <<>> /\ Eff(th[p]) = "createip" /\ cwd[p] # 0
        /\ Variables(th[p]) /\ Continues(th[p]) /\ Asked(th[p])
        /\ th[p].tgt # 0 <=> th[p].fail = "linkbad"
        /\ th[p].ip # 0
        /\ th[p].dp # 0
    <2>1. th[p].at = "createip" /\ th[p].at \notin Putting
      BY DEF CreateIp, At, Locks, Putting
    <2> QED BY <2>1, Standing DEF HasIp, HasDp
  <1>2. /\ itable \in Table /\ Coherent(itable, dinode) /\ 0 \notin Slot
        /\ \A x \in Slot : itable[x].ref \in Nat /\ itable[x].inum \in Inum /\ itable[x].d \in Inode
        /\ th[p].ip \in Slot /\ itable[th[p].ip].ref > 0
    BY <1>1, InUse, Sizes DEF Slot
  <1>3. PICK s \in Slot : s = th[p].ip
    BY <1>2
  <1>4. PICK i, d, fails, new : /\ i = itable[s].inum /\ d = [Loaded(s) EXCEPT !.nlink = 1]
                                /\ fails = (IsMkdir(p) /\ NoSpace(i, d))
                                /\ new = IF IsMkdir(p) /\ ~fails THEN NewBlocks(i, d) ELSE {}
    OBVIOUS
  <1>5. Locks(p, "createip") /\ CanLock(s) /\ UNCHANGED <<files, ncalls, lost>>
    BY <1>3 DEF CreateIp, Locks
  <1>6. Loaded(s) \in Inode
    BY <1>2, <1>3, <1>5, Entered
  <1>7. d \in Inode /\ d.type = Loaded(s).type /\ d.addrs = Loaded(s).addrs
    BY <1>4, <1>6 DEF Inode
  <1>8. new \subseteq Block \ used
    <2>1. IsMkdir(p) /\ ~fails => ~NoSpace(i, d)
      BY <1>4
    <2>2. ~NoSpace(i, d) => NewBlocks(i, d) \subseteq Block \ used
      BY NewBlocksAreFree DEF IInv
    <2> QED BY <1>4, <2>1, <2>2
  <1>9. PICK e : e = WithBlocks(d, new)
    OBVIOUS
  <1>10. e \in Inode /\ e.type = Loaded(s).type /\ e.addrs = Loaded(s).addrs \cup new
    BY <1>7, <1>8, <1>9 DEF Inode, WithBlocks
  <1>11. dir' \in [Inum -> [Name -> 0 .. NINODES]]
    <2>1. dir \in [Inum -> [Name -> 0 .. NINODES]]
      BY DEF IInv, TypeOK
    <2>2. PICK j : j = itable[th[p].dp].inum
      OBVIOUS
    <2>3. i \in 0 .. NINODES /\ j \in 0 .. NINODES
      <3>1. i \in Inum /\ j \in Inum
        BY <1>1, <1>2, <1>4, <2>2, InUse
      <3> QED BY <3>1, Sizes DEF Inum
    <2>4. CASE new = {}
      BY <1>3, <1>4, <2>1, <2>4 DEF CreateIp
    <2>5. CASE new # {}
      <3>1. dir' = [dir EXCEPT ![i]["."] = i, ![i][".."] = j]
        BY <1>3, <1>4, <2>2, <2>5 DEF CreateIp
      <3> QED BY <2>1, <2>3, <3>1
    <2> QED BY <2>4, <2>5
  <1>12. Iupdate(Ilock(p, s), s, e) /\ used' = used \cup new
    BY <1>3, <1>4, <1>9 DEF CreateIp
  <1>13. PICK w \in {"createfail", "createlink"} : Go(p, [at |-> w])
    BY DEF CreateIp
  <1> QED
    BY <1>3, <1>5, <1>8, <1>10, <1>11, <1>12, <1>13, CreateIpStep1
-----------------------------------------------------------------------------
(* Directories: what create() and sys_unlink() write *)

\* dirlink() finds no block.
LEMMA CreateLinkFullStep ==
  ASSUME IInv, NEW p \in Proc, At(p, "createlink"), Go(p, [at |-> "createfail"]), UNCHANGED itable, UNCHANGED <<disk, files, ncalls, lost>>
  PROVE  IInv'
  <1>1. TypeOK /\ PathInv(p) /\ UserInv(p) /\ LockInv(p) /\ th[p] \in Local
    BY DEF IInv, TypeOK
  <1>2. PICK r : r = [at |-> "createfail"]
    OBVIOUS
  <1>3. /\ th'[p] = r \oplus th[p] /\ \A q \in Proc \ {p} : th'[q] = th[q]
        /\ th[p] = [f \in Fields |-> th[p][f]]
        /\ th'[p] \in Local => th' \in [Proc -> Local]
    BY <1>1, <1>2, Goes DEF At
  <1>4. /\ th'[p] = [f \in Fields |-> th'[p][f]]
        /\ th'[p] = [f \in Fields |-> IF f = "at" THEN "createfail" ELSE th[p][f]]
    <2>1. DOMAIN r = {"at"} /\ r.at = "createfail" /\ DOMAIN th[p] = Fields
      BY <1>2, <1>3
    <2> QED BY <1>3, <2>1 DEF \oplus, Fields
  <1>5. /\ th'[p].at = "createfail" /\ th'[p].call = th[p].call /\ th'[p].path = th[p].path /\ th'[p].parent = th[p].parent
        /\ th'[p].ok = th[p].ok /\ th'[p].fail = th[p].fail /\ th'[p].then = th[p].then /\ th'[p].puts = th[p].puts
        /\ th'[p].ip = th[p].ip /\ th'[p].dp = th[p].dp /\ th'[p].tgt = th[p].tgt /\ th'[p].inum = th[p].inum
    <2>1. th'[p] = [f \in Fields |-> IF f = "at" THEN "createfail" ELSE th[p][f]]
      BY <1>4
    <2> QED BY <2>1 DEF Fields
  <1>6. /\ th[p].at = "createlink" /\ th[p].puts = <<>> /\ Eff(th[p]) = "createlink" /\ cwd[p] # 0
        /\ Variables(th[p]) /\ Continues(th[p]) /\ Asked(th[p]) /\ \A x \in Slot : ~Frees(th[p], x)
        /\ Held1(p, "put1") = 0 /\ Held1(p, "put2") = 0
        /\ th[p].tgt # 0 <=> th[p].fail = "linkbad"
        /\ th[p].ip # 0 /\ th[p].dp # 0
    <2>1. th[p].at = "createlink" /\ th[p].at \notin Putting
      BY DEF At, At, Locks, Putting
    <2> QED BY <2>1, Standing DEF HasIp, HasDp
  <1>7. /\ itable \in Table /\ Coherent(itable, dinode) /\ 0 \notin Slot
        /\ \A x \in Slot : itable[x].ref \in Nat /\ itable[x].inum \in Inum /\ itable[x].d \in Inode
    BY <1>6, InUse, Sizes DEF Slot
  <1>8. /\ itable' \in Table /\ Coherent(itable', dinode) /\ KeptIn(itable', p)
        /\ \A x \in Slot : itable'[x].ref = itable[x].ref
        /\ \A x \in Slot : itable'[x].lock = itable[x].lock /\ (itable[x].ref > 0 => itable'[x].valid = itable[x].valid)
    <2>1. itable' = itable /\ dinode' = dinode
      BY DEF disk, At
    <2> QED BY <1>7, <2>1 DEF KeptIn
  <1>9. th[p].ip # th[p].dp
    BY <1>6 DEF Variables
  <1>10. th'[p] \in Local
    <2>1. "createfail" \in Where
      BY Zenon DEF Where, HasIp
    <2> QED BY <1>1, <1>4, <1>5, <2>1, OfLocal, InLocal
  <1>11. Eff(th'[p]) = "createfail" /\ Len(th'[p].puts) = 0 /\ (th'[p].puts # <<>> <=> 0 > 0)
    BY <1>5, <1>6 DEF Eff
  <1>12. PathInv(p)'
    <2>1. Variables(th'[p])
      BY <1>5, <1>6, <1>7, <1>8, <1>11, <1>9 DEF Variables, Putting, HasIp, HasDp, Where
    <2>2. Continues(th'[p])
      BY <1>5, <1>6, <1>11 DEF Continues, Linking, Failing
    <2>3. Asked(th'[p])
      BY <1>5, <1>6, <1>11 DEF Asked, Serves, Opening, Creating, Naming
    <2> QED BY <2>1, <2>2, <2>3 DEF PathInv
  <1>13. LockInv(p)'
    <2>1. \A x \in Slot : ~Frees(th'[p], x)
      BY <1>5, <1>9 DEF Frees, HasIp, HasDp
    <2>2. \A x \in Slot : KeepsLocked(th'[p], x) => KeepsLocked(th[p], x)
      BY <1>5, <1>6, <1>11 DEF KeepsLocked, Keeping, HasDp
    <2>3. \A x \in Slot : KeepsLocked(th[p], x) => itable[x].ref > 0
      BY LockedIsCounted
    <2> QED BY <1>1, <1>8, <2>1, <2>2, <2>3, LocksStep
  <1>14. UserInv(p)'
    BY <1>5, <1>6 DEF UserInv, files, At
  <1>15. RefInv'
    <2>1. \A u \in LocalVar : Held1(p, u)' = Held1(p, u)
      BY <1>5, <1>6, <1>11 DEF Held1, LocalVar, files
    <2> QED BY <1>3, <1>8, <2>1, RefSame DEF files
  <1>16. ncalls' \in 0 .. MaxCalls
    BY <1>1 DEF TypeOK, At
  <1> QED
    BY <1>3, <1>8, <1>10, <1>12, <1>13, <1>14, <1>15, <1>16, <1>9, TableStep DEF At

\* The name of the new inode is written, and the directory let go.
LEMMA CreateLinkStep1 ==
  ASSUME IInv, NEW p \in Proc, At(p, "createlink"), NEW w \in {"dropip", "openfile"},
         w = "openfile" => th[p].call.op = "open",
         NEW new, new \subseteq Block \ used, NEW d \in Inode, d.type = itable[th[p].dp].d.type, d.addrs = itable[th[p].dp].d.addrs \cup new,
         Iupdate(Unlock(itable, th[p].dp), th[p].dp, d), used' = used \cup new,
         dir' \in [Inum -> [Name -> 0 .. NINODES]], lost' \subseteq Inum,
         PutThen(p, <<th[p].dp>>, w, [dp |-> 0]), UNCHANGED <<files, ncalls>>
  PROVE  IInv'
  <1>1. PICK s : s = th[p].dp
    OBVIOUS
  <1>2. TypeOK /\ PathInv(p) /\ UserInv(p) /\ LockInv(p) /\ th[p] \in Local
    BY DEF IInv, TypeOK
  <1>3. PICK r : r = [dp |-> 0] \oplus [at |-> "iput", puts |-> <<s>>, then |-> w]
    OBVIOUS
  <1>4. /\ th'[p] = r \oplus th[p] /\ \A q \in Proc \ {p} : th'[q] = th[q]
        /\ th[p] = [f \in Fields |-> th[p][f]]
        /\ th'[p] \in Local => th' \in [Proc -> Local]
    BY <1>2, <1>3, <1>1, Goes DEF PutThen
  <1>5. th'[p] = [f \in Fields |-> th'[p][f]]
    BY <1>3, <1>4 DEF \oplus, Fields
  <1>6. /\ th'[p].at = "iput" /\ th'[p].call = th[p].call /\ th'[p].path = th[p].path /\ th'[p].parent = th[p].parent
        /\ th'[p].ok = th[p].ok /\ th'[p].fail = th[p].fail /\ th'[p].then = w /\ th'[p].puts = <<s>>
        /\ th'[p].ip = th[p].ip /\ th'[p].dp = 0 /\ th'[p].tgt = th[p].tgt /\ th'[p].inum = th[p].inum
    BY <1>3, <1>4 DEF \oplus, Fields
  <1>7. /\ th[p].at = "createlink" /\ th[p].puts = <<>> /\ Eff(th[p]) = "createlink" /\ cwd[p] # 0
        /\ Variables(th[p]) /\ Continues(th[p]) /\ Asked(th[p]) /\ \A x \in Slot : ~Frees(th[p], x)
        /\ Held1(p, "put1") = 0 /\ Held1(p, "put2") = 0
        /\ th[p].tgt # 0 <=> th[p].fail = "linkbad"
        /\ th[p].ip # 0 /\ th[p].dp # 0
    <2>1. th[p].at = "createlink" /\ th[p].at \notin Putting
      BY DEF At, At, Locks, Putting
    <2> QED BY <2>1, Standing DEF HasIp, HasDp
  <1>8. /\ itable \in Table /\ Coherent(itable, dinode) /\ 0 \notin Slot
        /\ \A x \in Slot : itable[x].ref \in Nat /\ itable[x].inum \in Inum /\ itable[x].d \in Inode
        /\ th[p].dp \in Slot /\ itable[th[p].dp].ref > 0
    BY <1>7, InUse, Sizes DEF Slot
  <1>9. /\ itable' \in Table /\ Coherent(itable', dinode') /\ KeptIn(itable', p)
        /\ \A x \in Slot : itable'[x].ref = itable[x].ref
        /\ \A x \in Slot \ {s} : itable'[x] = itable[x]
        /\ dinode' \in [Inum -> Inode] /\ used' \subseteq Block /\ BlockInv'
        /\ \A i \in Inum : dinode'[i].type = "none" => dinode[i].type = "none"
    <2>1. PICK t : t = Unlock(itable, s)
      OBVIOUS
    <2>2. itable[s].lock = p /\ itable[s].valid
      <3>1. KeepsLocked(th[p], s)
        BY <1>1, <1>7 DEF KeepsLocked, HasDp
      <3> QED BY <1>1, <1>2, <1>8, <3>1 DEF LockInv
    <2>3. /\ t \in Table /\ Coherent(t, dinode) /\ KeptIn(t, p)
          /\ t[s].lock = None /\ t[s].valid /\ t[s].d = itable[s].d /\ itable[s].lock = p
          /\ \A x \in Slot : t[x].ref = itable[x].ref
          /\ \A x \in Slot \ {s} : t[x] = itable[x]
      BY <1>1, <1>8, <2>1, <2>2, LetGo DEF Like
    <2>4. Iupdate(t, s, d) /\ d.type = t[s].d.type /\ d.addrs = t[s].d.addrs \cup new /\ new \subseteq Block \ used
      BY <1>1, <2>1, <2>3
    <2>5. /\ t \in Table /\ KeptIn(t, p) /\ Coherent(t, dinode) /\ t[s].valid /\ itable[s].lock \in {None, p}
          /\ s \in Slot /\ itable[s].ref > 0 /\ (\A x \in Slot : t[x].ref = itable[x].ref)
          /\ new \subseteq Block \ used /\ used' = used \cup new
          /\ Iupdate(t, s, d) /\ d.type = t[s].d.type /\ d.addrs = t[s].d.addrs \cup new
      BY <1>1, <1>7, <1>8, <2>3, <2>4
    <2>6. /\ itable' \in Table /\ Coherent(itable', dinode') /\ KeptIn(itable', p)
          /\ \A x \in Slot \ {s} : itable'[x] = t[x]
          /\ \A x \in Slot : itable'[x].ref = itable[x].ref
          /\ itable'[s].lock = t[s].lock /\ itable'[s].valid
          /\ dinode' \in [Inum -> Inode] /\ used' \subseteq Block /\ BlockInv'
          /\ \A i \in Inum : dinode'[i].type = "none" => dinode[i].type = "none"
      BY <2>5, Written
    <2> QED BY <1>8, <2>3, <2>6
  <1>10. th[p].ip # th[p].dp /\ th[p].call \in Calls /\ (w = "openfile" => th[p].call.op = "open")
    BY <1>7 DEF Variables, Asked, Serves, Creating
  <1>11. th'[p] \in Local
    <2>1. w \in Where /\ "iput" \in Putting /\ 0 \in 0 .. NINODE /\ <<s>> \in Seq(Slot)
      BY <1>1, <1>8, Sizes DEF Where, HasIp, Putting
    <2> QED BY <1>2, <1>5, <1>6, <2>1, OfLocal, InLocal
  <1>12. Eff(th'[p]) = w /\ Len(th'[p].puts) = 1 /\ (th'[p].puts # <<>> <=> 1 > 0)
    BY <1>6, <1>7 DEF Eff
  <1>13. PathInv(p)'
    <2>1. Variables(th'[p])
      BY <1>6, <1>7, <1>8, <1>9, <1>12, <1>10 DEF Variables, Putting, HasIp, HasDp, Where
    <2>2. Continues(th'[p])
      BY <1>6, <1>7, <1>12 DEF Continues, Linking, Failing
    <2>3. Asked(th'[p])
      BY <1>6, <1>7, <1>12, <1>10 DEF Asked, Serves, Opening, Creating, Naming
    <2> QED BY <2>1, <2>2, <2>3 DEF PathInv
  <1>14. LockInv(p)'
    <2>1. \A x \in Slot : ~Frees(th'[p], x)
      BY <1>6, <1>10 DEF Frees, HasIp, HasDp
    <2>2. \A x \in Slot : KeepsLocked(th'[p], x) => KeepsLocked(th[p], x) /\ x # s
      BY <1>1, <1>6, <1>7, <1>12, <1>10 DEF KeepsLocked, Keeping, HasDp
    <2> QED BY <1>2, <1>9, <2>1, <2>2, LocksStep
  <1>15. UserInv(p)'
    BY <1>6, <1>7 DEF UserInv, files, At
  <1>16. RefInv'
    <2>1. Held1(p, "dp") = s /\ Held1(p, "dp")' = 0 /\ Held1(p, "put1") = 0 /\ Held1(p, "put1")' = s
      BY <1>6, <1>7, <1>12, <1>1 DEF Held1
    <2>2. \A u \in LocalVar \ {"dp", "put1"} : Held1(p, u)' = Held1(p, u)
      BY <1>6, <1>7, <1>12 DEF Held1, LocalVar, files
    <2>3. "dp" \in LocalVar /\ "put1" \in LocalVar /\ "dp" # "put1"
      BY DEF LocalVar
    <2>4. \A x \in Slot : itable'[x].ref = itable[x].ref - One(Held1(p, "dp"), x) + One(Held1(p, "dp")', x)
                                             - One(Held1(p, "put1"), x) + One(Held1(p, "put1")', x)
      BY <1>8, <1>9, <2>1 DEF One
    <2> QED BY <1>4, <2>2, <2>3, <2>4, RefStep DEF IInv, files
  <1>17. ncalls' \in 0 .. MaxCalls
    BY <1>2 DEF TypeOK, At
  <1> QED
    BY <1>4, <1>9, <1>11, <1>13, <1>14, <1>15, <1>16, <1>17, <1>10, DiskStep DEF At

\* The link of the new inode is taken back.
LEMMA CreateFailStep1 ==
  ASSUME IInv, NEW p \in Proc, At(p, "createfail"),
         NEW new, new = {}, NEW d \in Inode, d.type = itable[th[p].ip].d.type, d.addrs = itable[th[p].ip].d.addrs,
         Iupdate(Unlock(itable, th[p].ip), th[p].ip, d),
         PutThen(p, <<th[p].ip>>, "dropdp", [ip |-> 0]), UNCHANGED <<dir, used, files, ncalls, lost>>
  PROVE  IInv'
  <1>1. PICK s : s = th[p].ip
    OBVIOUS
  <1>2. TypeOK /\ PathInv(p) /\ UserInv(p) /\ LockInv(p) /\ th[p] \in Local
    BY DEF IInv, TypeOK
  <1>3. PICK r : r = [ip |-> 0] \oplus [at |-> "iput", puts |-> <<s>>, then |-> "dropdp"]
    OBVIOUS
  <1>4. /\ th'[p] = r \oplus th[p] /\ \A q \in Proc \ {p} : th'[q] = th[q]
        /\ th[p] = [f \in Fields |-> th[p][f]]
        /\ th'[p] \in Local => th' \in [Proc -> Local]
    BY <1>2, <1>3, <1>1, Goes DEF PutThen
  <1>5. th'[p] = [f \in Fields |-> th'[p][f]]
    BY <1>3, <1>4 DEF \oplus, Fields
  <1>6. /\ th'[p].at = "iput" /\ th'[p].call = th[p].call /\ th'[p].path = th[p].path /\ th'[p].parent = th[p].parent
        /\ th'[p].ok = th[p].ok /\ th'[p].fail = th[p].fail /\ th'[p].then = "dropdp" /\ th'[p].puts = <<s>>
        /\ th'[p].ip = 0 /\ th'[p].dp = th[p].dp /\ th'[p].tgt = th[p].tgt /\ th'[p].inum = th[p].inum
    BY <1>3, <1>4 DEF \oplus, Fields
  <1>7. /\ th[p].at = "createfail" /\ th[p].puts = <<>> /\ Eff(th[p]) = "createfail" /\ cwd[p] # 0
        /\ Variables(th[p]) /\ Continues(th[p]) /\ Asked(th[p]) /\ \A x \in Slot : ~Frees(th[p], x)
        /\ Held1(p, "put1") = 0 /\ Held1(p, "put2") = 0
        /\ th[p].tgt # 0 <=> th[p].fail = "linkbad"
        /\ th[p].ip # 0 /\ th[p].dp # 0
    <2>1. th[p].at = "createfail" /\ th[p].at \notin Putting
      BY DEF At, At, Locks, Putting
    <2> QED BY <2>1, Standing DEF HasIp, HasDp
  <1>8. /\ itable \in Table /\ Coherent(itable, dinode) /\ 0 \notin Slot
        /\ \A x \in Slot : itable[x].ref \in Nat /\ itable[x].inum \in Inum /\ itable[x].d \in Inode
        /\ th[p].ip \in Slot /\ itable[th[p].ip].ref > 0
    BY <1>7, InUse, Sizes DEF Slot
  <1>9. /\ itable' \in Table /\ Coherent(itable', dinode') /\ KeptIn(itable', p)
        /\ \A x \in Slot : itable'[x].ref = itable[x].ref
        /\ \A x \in Slot \ {s} : itable'[x] = itable[x]
        /\ dinode' \in [Inum -> Inode] /\ used' \subseteq Block /\ BlockInv'
        /\ \A i \in Inum : dinode'[i].type = "none" => dinode[i].type = "none"
    <2>1. PICK t : t = Unlock(itable, s)
      OBVIOUS
    <2>2. itable[s].lock = p /\ itable[s].valid
      <3>1. KeepsLocked(th[p], s)
        BY <1>1, <1>7 DEF KeepsLocked, Keeping
      <3> QED BY <1>1, <1>2, <1>8, <3>1 DEF LockInv
    <2>3. /\ t \in Table /\ Coherent(t, dinode) /\ KeptIn(t, p)
          /\ t[s].lock = None /\ t[s].valid /\ t[s].d = itable[s].d /\ itable[s].lock = p
          /\ \A x \in Slot : t[x].ref = itable[x].ref
          /\ \A x \in Slot \ {s} : t[x] = itable[x]
      BY <1>1, <1>8, <2>1, <2>2, LetGo DEF Like
    <2>4. Iupdate(t, s, d) /\ d.type = t[s].d.type /\ d.addrs = t[s].d.addrs \cup new /\ new \subseteq Block \ used
      BY <1>1, <2>1, <2>3
    <2>5. /\ t \in Table /\ KeptIn(t, p) /\ Coherent(t, dinode) /\ t[s].valid /\ itable[s].lock \in {None, p}
          /\ s \in Slot /\ itable[s].ref > 0 /\ (\A x \in Slot : t[x].ref = itable[x].ref)
          /\ new \subseteq Block \ used /\ used' = used \cup new
          /\ Iupdate(t, s, d) /\ d.type = t[s].d.type /\ d.addrs = t[s].d.addrs \cup new
      BY <1>1, <1>7, <1>8, <2>3, <2>4
    <2>6. /\ itable' \in Table /\ Coherent(itable', dinode') /\ KeptIn(itable', p)
          /\ \A x \in Slot \ {s} : itable'[x] = t[x]
          /\ \A x \in Slot : itable'[x].ref = itable[x].ref
          /\ itable'[s].lock = t[s].lock /\ itable'[s].valid
          /\ dinode' \in [Inum -> Inode] /\ used' \subseteq Block /\ BlockInv'
          /\ \A i \in Inum : dinode'[i].type = "none" => dinode[i].type = "none"
      BY <2>5, Written
    <2> QED BY <1>8, <2>3, <2>6
  <1>10. /\ th[p].ip # th[p].dp /\ lost' \subseteq Inum /\ dir' \in [Inum -> [Name -> 0 .. NINODES]]
         /\ th[p].fail # "linkbad"
    BY <1>2, <1>7 DEF Variables, Continues, Linking, TypeOK
  <1>11. th'[p] \in Local
    <2>1. "dropdp" \in Where /\ "iput" \in Putting /\ 0 \in 0 .. NINODE /\ <<s>> \in Seq(Slot)
      BY <1>1, <1>8, Sizes DEF Where, HasDp, Putting
    <2> QED BY <1>2, <1>5, <1>6, <2>1, OfLocal, InLocal
  <1>12. Eff(th'[p]) = "dropdp" /\ Len(th'[p].puts) = 1 /\ (th'[p].puts # <<>> <=> 1 > 0)
    BY <1>6, <1>7 DEF Eff
  <1>13. PathInv(p)'
    <2>1. Variables(th'[p])
      BY <1>6, <1>7, <1>8, <1>9, <1>12, <1>10 DEF Variables, Putting, HasIp, HasDp, Where
    <2>2. Continues(th'[p])
      BY <1>6, <1>7, <1>12, <1>10 DEF Continues, Linking, Failing
    <2>3. Asked(th'[p])
      BY <1>6, <1>7, <1>12 DEF Asked, Serves, Opening, Creating, Naming
    <2> QED BY <2>1, <2>2, <2>3 DEF PathInv
  <1>14. LockInv(p)'
    <2>1. \A x \in Slot : ~Frees(th'[p], x)
      BY <1>6, <1>10 DEF Frees, HasIp, HasDp
    <2>2. \A x \in Slot : KeepsLocked(th'[p], x) => KeepsLocked(th[p], x) /\ x # s
      BY <1>1, <1>6, <1>7, <1>12, <1>10 DEF KeepsLocked, Keeping, HasDp
    <2> QED BY <1>2, <1>9, <2>1, <2>2, LocksStep
  <1>15. UserInv(p)'
    BY <1>6, <1>7 DEF UserInv, files, At
  <1>16. RefInv'
    <2>1. Held1(p, "ip") = s /\ Held1(p, "ip")' = 0 /\ Held1(p, "put1") = 0 /\ Held1(p, "put1")' = s
      BY <1>6, <1>7, <1>12, <1>1 DEF Held1
    <2>2. \A u \in LocalVar \ {"ip", "put1"} : Held1(p, u)' = Held1(p, u)
      BY <1>6, <1>7, <1>12 DEF Held1, LocalVar, files
    <2>3. "ip" \in LocalVar /\ "put1" \in LocalVar /\ "ip" # "put1"
      BY DEF LocalVar
    <2>4. \A x \in Slot : itable'[x].ref = itable[x].ref - One(Held1(p, "ip"), x) + One(Held1(p, "ip")', x)
                                             - One(Held1(p, "put1"), x) + One(Held1(p, "put1")', x)
      BY <1>8, <1>9, <2>1 DEF One
    <2> QED BY <1>4, <2>2, <2>3, <2>4, RefStep DEF IInv, files
  <1>17. ncalls' \in 0 .. MaxCalls
    BY <1>2 DEF TypeOK, At
  <1> QED
    BY <1>4, <1>9, <1>11, <1>13, <1>14, <1>15, <1>16, <1>17, <1>10, DiskStep DEF At

\* The link of the inode whose name went is taken back.
LEMMA UnlinkDecStep1 ==
  ASSUME IInv, NEW p \in Proc, At(p, "unlinkdec"),
         NEW new, new = {}, NEW d \in Inode, d.type = itable[th[p].ip].d.type, d.addrs = itable[th[p].ip].d.addrs,
         Iupdate(Unlock(itable, th[p].ip), th[p].ip, d),
         PutThen(p, <<th[p].ip>>, "endop", [ip |-> 0]), UNCHANGED <<dir, used, files, ncalls, lost>>
  PROVE  IInv'
  <1>1. PICK s : s = th[p].ip
    OBVIOUS
  <1>2. TypeOK /\ PathInv(p) /\ UserInv(p) /\ LockInv(p) /\ th[p] \in Local
    BY DEF IInv, TypeOK
  <1>3. PICK r : r = [ip |-> 0] \oplus [at |-> "iput", puts |-> <<s>>, then |-> "endop"]
    OBVIOUS
  <1>4. /\ th'[p] = r \oplus th[p] /\ \A q \in Proc \ {p} : th'[q] = th[q]
        /\ th[p] = [f \in Fields |-> th[p][f]]
        /\ th'[p] \in Local => th' \in [Proc -> Local]
    BY <1>2, <1>3, <1>1, Goes DEF PutThen
  <1>5. th'[p] = [f \in Fields |-> th'[p][f]]
    BY <1>3, <1>4 DEF \oplus, Fields
  <1>6. /\ th'[p].at = "iput" /\ th'[p].call = th[p].call /\ th'[p].path = th[p].path /\ th'[p].parent = th[p].parent
        /\ th'[p].ok = th[p].ok /\ th'[p].fail = th[p].fail /\ th'[p].then = "endop" /\ th'[p].puts = <<s>>
        /\ th'[p].ip = 0 /\ th'[p].dp = th[p].dp /\ th'[p].tgt = th[p].tgt /\ th'[p].inum = th[p].inum
    BY <1>3, <1>4 DEF \oplus, Fields
  <1>7. /\ th[p].at = "unlinkdec" /\ th[p].puts = <<>> /\ Eff(th[p]) = "unlinkdec" /\ cwd[p] # 0
        /\ Variables(th[p]) /\ Continues(th[p]) /\ Asked(th[p]) /\ \A x \in Slot : ~Frees(th[p], x)
        /\ Held1(p, "put1") = 0 /\ Held1(p, "put2") = 0
        /\ th[p].tgt # 0 <=> th[p].fail = "linkbad"
        /\ th[p].ip # 0 /\ th[p].dp = 0
    <2>1. th[p].at = "unlinkdec" /\ th[p].at \notin Putting
      BY DEF At, At, Locks, Putting
    <2> QED BY <2>1, Standing DEF HasIp, HasDp
  <1>8. /\ itable \in Table /\ Coherent(itable, dinode) /\ 0 \notin Slot
        /\ \A x \in Slot : itable[x].ref \in Nat /\ itable[x].inum \in Inum /\ itable[x].d \in Inode
        /\ th[p].ip \in Slot /\ itable[th[p].ip].ref > 0
    BY <1>7, InUse, Sizes DEF Slot
  <1>9. /\ itable' \in Table /\ Coherent(itable', dinode') /\ KeptIn(itable', p)
        /\ \A x \in Slot : itable'[x].ref = itable[x].ref
        /\ \A x \in Slot \ {s} : itable'[x] = itable[x]
        /\ dinode' \in [Inum -> Inode] /\ used' \subseteq Block /\ BlockInv'
        /\ \A i \in Inum : dinode'[i].type = "none" => dinode[i].type = "none"
    <2>1. PICK t : t = Unlock(itable, s)
      OBVIOUS
    <2>2. itable[s].lock = p /\ itable[s].valid
      <3>1. KeepsLocked(th[p], s)
        BY <1>1, <1>7 DEF KeepsLocked, Keeping
      <3> QED BY <1>1, <1>2, <1>8, <3>1 DEF LockInv
    <2>3. /\ t \in Table /\ Coherent(t, dinode) /\ KeptIn(t, p)
          /\ t[s].lock = None /\ t[s].valid /\ t[s].d = itable[s].d /\ itable[s].lock = p
          /\ \A x \in Slot : t[x].ref = itable[x].ref
          /\ \A x \in Slot \ {s} : t[x] = itable[x]
      BY <1>1, <1>8, <2>1, <2>2, LetGo DEF Like
    <2>4. Iupdate(t, s, d) /\ d.type = t[s].d.type /\ d.addrs = t[s].d.addrs \cup new /\ new \subseteq Block \ used
      BY <1>1, <2>1, <2>3
    <2>5. /\ t \in Table /\ KeptIn(t, p) /\ Coherent(t, dinode) /\ t[s].valid /\ itable[s].lock \in {None, p}
          /\ s \in Slot /\ itable[s].ref > 0 /\ (\A x \in Slot : t[x].ref = itable[x].ref)
          /\ new \subseteq Block \ used /\ used' = used \cup new
          /\ Iupdate(t, s, d) /\ d.type = t[s].d.type /\ d.addrs = t[s].d.addrs \cup new
      BY <1>1, <1>7, <1>8, <2>3, <2>4
    <2>6. /\ itable' \in Table /\ Coherent(itable', dinode') /\ KeptIn(itable', p)
          /\ \A x \in Slot \ {s} : itable'[x] = t[x]
          /\ \A x \in Slot : itable'[x].ref = itable[x].ref
          /\ itable'[s].lock = t[s].lock /\ itable'[s].valid
          /\ dinode' \in [Inum -> Inode] /\ used' \subseteq Block /\ BlockInv'
          /\ \A i \in Inum : dinode'[i].type = "none" => dinode[i].type = "none"
      BY <2>5, Written
    <2> QED BY <1>8, <2>3, <2>6
  <1>10. /\ th[p].ip # th[p].dp /\ lost' \subseteq Inum /\ dir' \in [Inum -> [Name -> 0 .. NINODES]]
         /\ th[p].fail # "linkbad"
    BY <1>2, <1>7 DEF Variables, Continues, Linking, TypeOK
  <1>11. th'[p] \in Local
    <2>1. "endop" \in Where /\ "iput" \in Putting /\ 0 \in 0 .. NINODE /\ <<s>> \in Seq(Slot)
      BY <1>1, <1>8, Sizes DEF Where, HasDp, Putting
    <2> QED BY <1>2, <1>5, <1>6, <2>1, OfLocal, InLocal
  <1>12. Eff(th'[p]) = "endop" /\ Len(th'[p].puts) = 1 /\ (th'[p].puts # <<>> <=> 1 > 0)
    BY <1>6, <1>7 DEF Eff
  <1>13. PathInv(p)'
    <2>1. Variables(th'[p])
      BY <1>6, <1>7, <1>8, <1>9, <1>12, <1>10 DEF Variables, Putting, HasIp, HasDp, Where
    <2>2. Continues(th'[p])
      BY <1>6, <1>7, <1>12, <1>10 DEF Continues, Linking, Failing
    <2>3. Asked(th'[p])
      BY <1>6, <1>7, <1>12 DEF Asked, Serves, Opening, Creating, Naming
    <2> QED BY <2>1, <2>2, <2>3 DEF PathInv
  <1>14. LockInv(p)'
    <2>1. \A x \in Slot : ~Frees(th'[p], x)
      BY <1>6, <1>10 DEF Frees, HasIp, HasDp
    <2>2. \A x \in Slot : KeepsLocked(th'[p], x) => KeepsLocked(th[p], x) /\ x # s
      BY <1>1, <1>6, <1>7, <1>12, <1>10 DEF KeepsLocked, Keeping, HasDp
    <2> QED BY <1>2, <1>9, <2>1, <2>2, LocksStep
  <1>15. UserInv(p)'
    BY <1>6, <1>7 DEF UserInv, files, At
  <1>16. RefInv'
    <2>1. Held1(p, "ip") = s /\ Held1(p, "ip")' = 0 /\ Held1(p, "put1") = 0 /\ Held1(p, "put1")' = s
      BY <1>6, <1>7, <1>12, <1>1 DEF Held1
    <2>2. \A u \in LocalVar \ {"ip", "put1"} : Held1(p, u)' = Held1(p, u)
      BY <1>6, <1>7, <1>12 DEF Held1, LocalVar, files
    <2>3. "ip" \in LocalVar /\ "put1" \in LocalVar /\ "ip" # "put1"
      BY DEF LocalVar
    <2>4. \A x \in Slot : itable'[x].ref = itable[x].ref - One(Held1(p, "ip"), x) + One(Held1(p, "ip")', x)
                                             - One(Held1(p, "put1"), x) + One(Held1(p, "put1")', x)
      BY <1>8, <1>9, <2>1 DEF One
    <2> QED BY <1>4, <2>2, <2>3, <2>4, RefStep DEF IInv, files
  <1>17. ncalls' \in 0 .. MaxCalls
    BY <1>2 DEF TypeOK, At
  <1> QED
    BY <1>4, <1>9, <1>11, <1>13, <1>14, <1>15, <1>16, <1>17, <1>10, DiskStep DEF At

\* Entry s of t is let go with a free block more at most.
Writes(t, s) ==
  \E new, d : /\ new \subseteq Block \ used /\ d \in Inode /\ d.type = t[s].d.type
             /\ d.addrs = t[s].d.addrs \cup new
             /\ Iupdate(Unlock(t, s), s, d) /\ used' = used \cup new

\* dirlink() into an entry.
LEMMA DirlinkFacts ==
  ASSUME IInv, NEW t \in Table, NEW s \in Slot, NEW name \in Name, NEW i \in Inum, NEW up \in {0, 1},
         Dirlink(t, s, name, i, up)
  PROVE  /\ dir' \in [Inum -> [Name -> 0 .. NINODES]] /\ lost' \subseteq Inum
         /\ Writes(t, s)
  <1>1. PICK dp, d0, new : dp = t[s].inum /\ d0 = t[s].d /\ new = NewBlocks(dp, d0)
    OBVIOUS
  <1>2. t[s] \in Entry
    BY DEF Table
  <1>3. dp \in Inum /\ d0 \in Inode
    BY <1>1, <1>2 DEF Entry
  <1>4. TypeOK
    BY DEF IInv
  <1>5. new \subseteq Block \ used
    <2>1. ~NoSpace(dp, d0)
      BY <1>1 DEF Dirlink
    <2> QED BY <1>1, <1>4, <2>1, NewBlocksAreFree
  <1>6. PICK d : d = [WithBlocks(d0, new) EXCEPT !.nlink = d0.nlink + up]
    OBVIOUS
  <1>7. d \in Inode /\ d.type = d0.type /\ d.addrs = d0.addrs \cup new
    <2>1. d0.nlink + up \in Int
      BY <1>3 DEF Inode
    <2> QED BY <1>3, <1>5, <1>6, <2>1 DEF WithBlocks, Inode
  <1>8. Iupdate(Unlock(t, s), s, d) /\ used' = used \cup new
    <2>1. [WithBlocks(d0, new) EXCEPT !.nlink = @ + up] = d
      BY <1>6, <1>3 DEF WithBlocks, Inode
    <2> QED BY <1>1, <2>1 DEF Dirlink
  <1>9. dir' \in [Inum -> [Name -> 0 .. NINODES]]
    <2>1. dir' = [dir EXCEPT ![dp][name] = i]
      BY <1>1 DEF Dirlink
    <2>2. i \in 0 .. NINODES
      BY Sizes DEF Inum
    <2> QED BY <1>3, <1>4, <2>1, <2>2 DEF TypeOK
  <1>10. lost' \subseteq Inum
    <2>1. \/ lost' = lost \cup {i} \cup {x \in {dp} : up = 1}
          \/ lost' = lost
      BY <1>1 DEF Dirlink
    <2>2. lost \subseteq Inum
      BY <1>4 DEF TypeOK
    <2> QED BY <1>3, <2>1, <2>2
  <1> QED
    BY <1>1, <1>5, <1>7, <1>8, <1>9, <1>10 DEF Writes

\* create() links the inode.
LEMMA CreateLinkStep ==
  ASSUME IInv, NEW p \in Proc, CreateLink(p)
  PROVE  IInv'
  <1>1. /\ th[p].at = "createlink" /\ th[p].puts = <<>> /\ Eff(th[p]) = "createlink" /\ cwd[p] # 0
        /\ Variables(th[p]) /\ Continues(th[p]) /\ Asked(th[p])
        /\ th[p].tgt # 0 <=> th[p].fail = "linkbad"
        /\ th[p].ip # 0
        /\ th[p].dp # 0 /\ th[p].at \in Naming
    <2>1. th[p].at = "createlink" /\ th[p].at \notin Putting
      BY DEF CreateLink, At, Locks, Putting
    <2> QED BY <2>1, Standing DEF HasIp, HasDp, Naming
  <1>2. /\ itable \in Table /\ Coherent(itable, dinode) /\ 0 \notin Slot
        /\ \A x \in Slot : itable[x].ref \in Nat /\ itable[x].inum \in Inum /\ itable[x].d \in Inode
        /\ th[p].ip \in Slot /\ itable[th[p].ip].ref > 0
    BY <1>1, InUse, Sizes DEF Slot
  <1>3. PICK s \in Slot : s = th[p].ip
    BY <1>2
  <1>4. PICK q \in Slot : q = th[p].dp
    BY <1>1, InUse
  <1>5. CASE Go(p, [at |-> "createfail"]) /\ UNCHANGED <<disk, itable, lost>>
    BY <1>5, CreateLinkFullStep DEF CreateLink
  <1>6. ASSUME Dirlink(itable, q, LastOf(th[p].path), itable[s].inum, IF IsMkdir(p) THEN 1 ELSE 0),
               PutThen(p, <<q>>, IF IsMkdir(p) THEN "dropip" ELSE "openfile", [dp |-> 0])
        PROVE  IInv'
    <2>1. PICK up \in {0, 1}, w \in {"dropip", "openfile"} :
            /\ up = (IF IsMkdir(p) THEN 1 ELSE 0) /\ w = (IF IsMkdir(p) THEN "dropip" ELSE "openfile")
      OBVIOUS
    <2>2. PICK name \in Name, i \in Inum : name = LastOf(th[p].path) /\ i = itable[s].inum
      BY <1>1, <1>2, FoundIsNumber
    <2>3. Dirlink(itable, q, name, i, up)
      BY <1>6, <2>1, <2>2
    <2>4. /\ dir' \in [Inum -> [Name -> 0 .. NINODES]] /\ lost' \subseteq Inum
          /\ Writes(itable, q)
      BY <1>2, <2>3, DirlinkFacts
    <2>5. w = "openfile" => th[p].call.op = "open"
      BY <1>1, <2>1 DEF Asked, Serves, Creating, IsMkdir
    <2>6. PutThen(p, <<q>>, w, [dp |-> 0]) /\ UNCHANGED <<files, ncalls>> /\ At(p, "createlink")
      BY <1>6, <2>1 DEF CreateLink
    <2> QED BY <1>4, <2>4, <2>5, <2>6, CreateLinkStep1 DEF Writes
  <1> QED
    BY <1>3, <1>4, <1>5, <1>6 DEF CreateLink

\* create() fails.
LEMMA CreateFailStep ==
  ASSUME IInv, NEW p \in Proc, CreateFail(p)
  PROVE  IInv'
  <1>1. /\ th[p].at = "createfail" /\ th[p].puts = <<>> /\ Eff(th[p]) = "createfail" /\ cwd[p] # 0
        /\ Variables(th[p]) /\ Continues(th[p]) /\ Asked(th[p])
        /\ th[p].tgt # 0 <=> th[p].fail = "linkbad"
        /\ th[p].ip # 0
    <2>1. th[p].at = "createfail" /\ th[p].at \notin Putting
      BY DEF CreateFail, At, Locks, Putting
    <2> QED BY <2>1, Standing DEF HasIp, HasDp
  <1>2. /\ itable \in Table /\ Coherent(itable, dinode) /\ 0 \notin Slot
        /\ \A x \in Slot : itable[x].ref \in Nat /\ itable[x].inum \in Inum /\ itable[x].d \in Inode
        /\ th[p].ip \in Slot /\ itable[th[p].ip].ref > 0
    BY <1>1, InUse, Sizes DEF Slot
  <1>3. PICK s \in Slot : s = th[p].ip
    BY <1>2
  <1>4. PICK d : d = [itable[s].d EXCEPT !.nlink = 0]
    OBVIOUS
  <1>5. 0 \in Int /\ itable[s].d \in Inode
    BY <1>2 DEF Inode
  <1>6. d \in Inode /\ d.type = itable[s].d.type /\ d.addrs = itable[s].d.addrs
    BY <1>4, <1>5 DEF Inode
  <1>7. Iupdate(Unlock(itable, s), s, d)
    BY <1>3, <1>4 DEF CreateFail
  <1> QED
    BY <1>3, <1>6, <1>7, CreateFailStep1 DEF CreateFail

\* The link count of the inode whose name went.
LEMMA UnlinkDecStep ==
  ASSUME IInv, NEW p \in Proc, UnlinkDec(p)
  PROVE  IInv'
  <1>1. /\ th[p].at = "unlinkdec" /\ th[p].puts = <<>> /\ Eff(th[p]) = "unlinkdec" /\ cwd[p] # 0
        /\ Variables(th[p]) /\ Continues(th[p]) /\ Asked(th[p])
        /\ th[p].tgt # 0 <=> th[p].fail = "linkbad"
        /\ th[p].ip # 0
    <2>1. th[p].at = "unlinkdec" /\ th[p].at \notin Putting
      BY DEF UnlinkDec, At, Locks, Putting
    <2> QED BY <2>1, Standing DEF HasIp, HasDp
  <1>2. /\ itable \in Table /\ Coherent(itable, dinode) /\ 0 \notin Slot
        /\ \A x \in Slot : itable[x].ref \in Nat /\ itable[x].inum \in Inum /\ itable[x].d \in Inode
        /\ th[p].ip \in Slot /\ itable[th[p].ip].ref > 0
    BY <1>1, InUse, Sizes DEF Slot
  <1>3. PICK s \in Slot : s = th[p].ip
    BY <1>2
  <1>4. PICK d : d = [itable[s].d EXCEPT !.nlink = itable[s].d.nlink - 1]
    OBVIOUS
  <1>5. itable[s].d.nlink - 1 \in Int /\ itable[s].d \in Inode
    BY <1>2 DEF Inode
  <1>6. d \in Inode /\ d.type = itable[s].d.type /\ d.addrs = itable[s].d.addrs
    BY <1>4, <1>5 DEF Inode
  <1>7. Iupdate(Unlock(itable, s), s, d)
    BY <1>3, <1>4 DEF UnlinkDec
  <1> QED
    BY <1>3, <1>6, <1>7, UnlinkDecStep1 DEF UnlinkDec

\* unlink() finds the name, with the directory locked.
LEMMA UnlinkFoundStep ==
  ASSUME IInv, NEW p \in Proc, Locks(p, "unlinkdp"), NEW i \in Inum, HasEntry(Ilock(p, th[p].ip), i),
         itable' = Iget(Ilock(p, th[p].ip), i),
         Go(p, [at |-> "unlinkip", dp |-> th[p].ip, ip |-> EntryFor(Ilock(p, th[p].ip), i)]),
         UNCHANGED <<disk, files, ncalls, lost>>
  PROVE  IInv'
  <1>1. PICK s, t, e : s = th[p].ip /\ t = Ilock(p, s) /\ e = EntryFor(t, i)
    OBVIOUS
  <1>2. TypeOK /\ PathInv(p) /\ UserInv(p) /\ LockInv(p) /\ th[p] \in Local
    BY DEF IInv, TypeOK
  <1>3. PICK r : r = [at |-> "unlinkip", dp |-> s, ip |-> e]
    OBVIOUS
  <1>4. /\ th'[p] = r \oplus th[p] /\ \A q \in Proc \ {p} : th'[q] = th[q]
        /\ th[p] = [f \in Fields |-> th[p][f]]
        /\ th'[p] \in Local => th' \in [Proc -> Local]
    BY <1>2, <1>3, <1>1, Goes DEF Locks
  <1>5. th'[p] = [f \in Fields |-> th'[p][f]]
    BY <1>3, <1>4 DEF \oplus, Fields
  <1>6. /\ th'[p].at = "unlinkip" /\ th'[p].call = th[p].call /\ th'[p].path = th[p].path /\ th'[p].parent = th[p].parent
        /\ th'[p].ok = th[p].ok /\ th'[p].fail = th[p].fail /\ th'[p].then = th[p].then /\ th'[p].puts = th[p].puts
        /\ th'[p].ip = e /\ th'[p].dp = s /\ th'[p].tgt = th[p].tgt /\ th'[p].inum = th[p].inum
    BY <1>3, <1>4 DEF \oplus, Fields
  <1>7. /\ th[p].at = "unlinkdp" /\ th[p].puts = <<>> /\ Eff(th[p]) = "unlinkdp" /\ cwd[p] # 0
        /\ Variables(th[p]) /\ Continues(th[p]) /\ Asked(th[p]) /\ \A x \in Slot : ~Frees(th[p], x)
        /\ Held1(p, "put1") = 0 /\ Held1(p, "put2") = 0
        /\ th[p].tgt # 0 <=> th[p].fail = "linkbad"
        /\ th[p].ip # 0 /\ th[p].dp = 0
    <2>1. th[p].at = "unlinkdp" /\ th[p].at \notin Putting
      BY DEF Locks, At, Locks, Putting
    <2> QED BY <2>1, Standing DEF HasIp, HasDp
  <1>8. /\ itable \in Table /\ Coherent(itable, dinode) /\ 0 \notin Slot
        /\ \A x \in Slot : itable[x].ref \in Nat /\ itable[x].inum \in Inum /\ itable[x].d \in Inode
        /\ th[p].ip \in Slot /\ itable[th[p].ip].ref > 0
    BY <1>7, InUse, Sizes DEF Slot
  <1>9. /\ e \in Slot /\ itable' \in Table /\ Coherent(itable', dinode) /\ KeptIn(itable', p)
        /\ \A x \in Slot : itable'[x].ref = itable[x].ref + One(e, x)
        /\ itable'[s].lock = p /\ itable'[s].valid
    <2>1. CanLock(s)
      BY <1>1 DEF Locks
    <2>2. /\ t \in Table /\ KeptIn(t, p) /\ Coherent(t, dinode) /\ (\A x \in Slot : t[x].ref = itable[x].ref)
          /\ t[s].lock = p /\ t[s].valid
      BY <1>1, <1>8, <2>1, Entered DEF Like
    <2>3. HasEntry(t, i) /\ itable' = Iget(t, i)
      BY <1>1
    <2>4. /\ e \in Slot /\ itable' \in Table /\ Coherent(itable', dinode) /\ KeptIn(itable', p)
          /\ \A x \in Slot : /\ itable'[x].ref = itable[x].ref + One(e, x) /\ itable'[x].lock = t[x].lock
                             /\ itable[x].ref > 0 => itable'[x].valid = t[x].valid /\ itable'[x].d = t[x].d
      BY <1>1, <2>2, <2>3, GotAfter
    <2> QED BY <1>1, <1>8, <2>2, <2>4
  <1>10. th'[p] \in Local
    <2>1. "unlinkip" \in Where /\ {s, e} \subseteq 0 .. NINODE
      BY <1>1, <1>8, <1>9, Sizes DEF Where, HasDp, Slot
    <2> QED BY <1>2, <1>5, <1>6, <2>1, OfLocal, InLocal
  <1>11. Eff(th'[p]) = "unlinkip" /\ Len(th'[p].puts) = 0 /\ (th'[p].puts # <<>> <=> 0 > 0)
    BY <1>6, <1>7 DEF Eff
  <1>12. PathInv(p)'
    <2>1. Variables(th'[p])
      BY <1>6, <1>7, <1>8, <1>9, <1>11, <1>1 DEF Variables, Putting, HasIp, HasDp, Where
    <2>2. Continues(th'[p])
      BY <1>6, <1>7, <1>11 DEF Continues, Linking, Failing
    <2>3. Asked(th'[p])
      BY <1>6, <1>7, <1>11 DEF Asked, Serves, Opening, Creating, Naming
    <2> QED BY <2>1, <2>2, <2>3 DEF PathInv
  <1>13. LockInv(p)'
    <2>1. \A x \in Slot : ~Frees(th'[p], x)
      BY <1>6 DEF Frees
    <2>2. \A x \in Slot : KeepsLocked(th'[p], x) => x = s
      BY <1>1, <1>6, <1>7, <1>11 DEF KeepsLocked, Keeping, HasDp
    <2> QED BY <1>2, <1>9, <2>1, <2>2, LocksStep
  <1>14. UserInv(p)'
    BY <1>6, <1>7 DEF UserInv, files, Locks
  <1>15. RefInv'
    <2>1. Held1(p, "ip") = s /\ Held1(p, "ip")' = e /\ Held1(p, "dp") = 0 /\ Held1(p, "dp")' = s
      BY <1>6, <1>7, <1>11, <1>1 DEF Held1
    <2>2. \A u \in LocalVar \ {"ip", "dp"} : Held1(p, u)' = Held1(p, u)
      BY <1>6, <1>7, <1>11 DEF Held1, LocalVar, files
    <2>3. "ip" \in LocalVar /\ "dp" \in LocalVar /\ "ip" # "dp"
      BY DEF LocalVar
    <2>4. \A x \in Slot : itable'[x].ref = itable[x].ref - One(Held1(p, "ip"), x) + One(Held1(p, "ip")', x)
                                             - One(Held1(p, "dp"), x) + One(Held1(p, "dp")', x)
      BY <1>8, <1>9, <2>1 DEF One
    <2> QED BY <1>4, <2>2, <2>3, <2>4, RefStep DEF IInv, files
  <1>16. ncalls' \in 0 .. MaxCalls
    BY <1>2 DEF TypeOK, Locks
  <1> QED
    BY <1>4, <1>9, <1>10, <1>12, <1>13, <1>14, <1>15, <1>16, TableStep DEF Locks

\* The directory of unlink().
LEMMA UnlinkDpStep ==
  ASSUME IInv, NEW p \in Proc, UnlinkDp(p)
  PROVE  IInv'
  <1>1. /\ th[p].at = "unlinkdp" /\ th[p].puts = <<>> /\ Eff(th[p]) = "unlinkdp" /\ cwd[p] # 0
        /\ Variables(th[p]) /\ Continues(th[p]) /\ Asked(th[p])
        /\ th[p].tgt # 0 <=> th[p].fail = "linkbad"
        /\ th[p].ip # 0
    <2>1. th[p].at = "unlinkdp" /\ th[p].at \notin Putting
      BY DEF UnlinkDp, At, Locks, Putting
    <2> QED BY <2>1, Standing DEF HasIp, HasDp
  <1>2. /\ itable \in Table /\ Coherent(itable, dinode) /\ 0 \notin Slot
        /\ \A x \in Slot : itable[x].ref \in Nat /\ itable[x].inum \in Inum /\ itable[x].d \in Inode
        /\ th[p].ip \in Slot /\ itable[th[p].ip].ref > 0
    BY <1>1, InUse, Sizes DEF Slot
  <1>3. PICK s \in Slot : s = th[p].ip
    BY <1>2
  <1>4. PICK t, i : t = Ilock(p, s) /\ i = Found(p)
    OBVIOUS
  <1>5. UNCHANGED <<disk, files, ncalls, lost>> /\ Locks(p, "unlinkdp")
    BY DEF UnlinkDp
  <1>6. ASSUME GiveUp(p, s, "endop"), UNCHANGED <<disk, files, ncalls, lost>> PROVE IInv'
    <2>1. PICK w : w = "endop"
      BY <1>1 DEF Continues, Failing
    <2>2. th[p].at \in HasIp \ {"writei", "opentrunc"} /\ CanLock(s)
      BY <1>1, <1>3 DEF HasIp, UnlinkDp, Locks
    <2>3. w = "dropdp" <=> th[p].at \in HasDp
      BY <1>1, <2>1 DEF HasDp
    <2>4. w = "endop" => th[p].fail # "linkbad"
      BY <1>1, <2>1 DEF Continues, Linking
    <2>5. w = "linkbad" => th[p].fail = "linkbad"
      BY <1>1, <2>1 DEF Continues
    <2>6. w = "dropdp" => th[p].at \in Failing
      BY <1>1, <2>1 DEF Failing
    <2>7. w \in {"endop", "dropdp", "linkbad"} /\ GiveUp(p, s, w)
      BY <1>6, <2>1
    <2> QED BY <1>6, <1>1, <1>3, <2>2, <2>3, <2>4, <2>5, <2>6, <2>7, GiveUpStep
  <1>7. ASSUME i # 0, HasEntry(t, i), itable' = Iget(t, i),
               Go(p, [at |-> "unlinkip", dp |-> s, ip |-> EntryFor(t, i)])
        PROVE  IInv'
    <2>1. i \in Inum
      BY <1>1, <1>3, <1>4, <1>7, FoundIsNumber DEF Naming
    <2> QED BY <1>3, <1>4, <1>5, <1>7, <2>1, UnlinkFoundStep
  <1> QED
    BY <1>3, <1>4, <1>5, <1>6, <1>7 DEF UnlinkDp

\* The name is cleared, and the directory let go, with the inode locked.
LEMMA UnlinkIpStep1 ==
  ASSUME IInv, NEW p \in Proc, Locks(p, "unlinkip"),
         NEW new, new = {}, NEW d \in Inode, d.type = itable[th[p].dp].d.type, d.addrs = itable[th[p].dp].d.addrs,
         Iupdate(Unlock(Ilock(p, th[p].ip), th[p].dp), th[p].dp, d), dir' \in [Inum -> [Name -> 0 .. NINODES]],
         PutThen(p, <<th[p].dp>>, "unlinkdec", [dp |-> 0]), UNCHANGED <<used, files, ncalls, lost>>
  PROVE  IInv'
  <1>1. PICK s, q : s = th[p].ip /\ q = th[p].dp
    OBVIOUS
  <1>2. TypeOK /\ PathInv(p) /\ UserInv(p) /\ LockInv(p) /\ th[p] \in Local
    BY DEF IInv, TypeOK
  <1>3. PICK r : r = [dp |-> 0] \oplus [at |-> "iput", puts |-> <<q>>, then |-> "unlinkdec"]
    OBVIOUS
  <1>4. /\ th'[p] = r \oplus th[p] /\ \A x \in Proc \ {p} : th'[x] = th[x]
        /\ th[p] = [f \in Fields |-> th[p][f]]
        /\ th'[p] \in Local => th' \in [Proc -> Local]
    BY <1>2, <1>3, <1>1, Goes DEF PutThen
  <1>5. th'[p] = [f \in Fields |-> th'[p][f]]
    BY <1>3, <1>4 DEF \oplus, Fields
  <1>6. /\ th'[p].at = "iput" /\ th'[p].call = th[p].call /\ th'[p].path = th[p].path /\ th'[p].parent = th[p].parent
        /\ th'[p].ok = th[p].ok /\ th'[p].fail = th[p].fail /\ th'[p].then = "unlinkdec" /\ th'[p].puts = <<q>>
        /\ th'[p].ip = th[p].ip /\ th'[p].dp = 0 /\ th'[p].tgt = th[p].tgt /\ th'[p].inum = th[p].inum
    BY <1>3, <1>4 DEF \oplus, Fields
  <1>7. /\ th[p].at = "unlinkip" /\ th[p].puts = <<>> /\ Eff(th[p]) = "unlinkip" /\ cwd[p] # 0
        /\ Variables(th[p]) /\ Continues(th[p]) /\ Asked(th[p]) /\ \A x \in Slot : ~Frees(th[p], x)
        /\ Held1(p, "put1") = 0 /\ Held1(p, "put2") = 0
        /\ th[p].tgt # 0 <=> th[p].fail = "linkbad"
        /\ th[p].ip # 0 /\ th[p].dp # 0
    <2>1. th[p].at = "unlinkip" /\ th[p].at \notin Putting
      BY DEF Locks, At, Locks, Putting
    <2> QED BY <2>1, Standing DEF HasIp, HasDp
  <1>8. /\ itable \in Table /\ Coherent(itable, dinode) /\ 0 \notin Slot
        /\ \A x \in Slot : itable[x].ref \in Nat /\ itable[x].inum \in Inum /\ itable[x].d \in Inode
        /\ th[p].ip \in Slot /\ itable[th[p].ip].ref > 0
        /\ th[p].dp \in Slot /\ itable[th[p].dp].ref > 0
    BY <1>7, InUse, Sizes DEF Slot
  <1>9. /\ itable' \in Table /\ Coherent(itable', dinode') /\ KeptIn(itable', p)
        /\ \A x \in Slot : itable'[x].ref = itable[x].ref
        /\ itable'[s].lock = p /\ itable'[s].valid
        /\ dinode' \in [Inum -> Inode] /\ used' \subseteq Block /\ BlockInv'
        /\ \A i \in Inum : dinode'[i].type = "none" => dinode[i].type = "none"
    <2>1. PICK u, t : u = Ilock(p, s) /\ t = Unlock(u, q)
      OBVIOUS
    <2>2. itable[q].lock = p /\ itable[q].valid
      <3>1. KeepsLocked(th[p], q)
        BY <1>1, <1>7 DEF KeepsLocked, HasDp
      <3> QED BY <1>1, <1>2, <1>8, <3>1 DEF LockInv
    <2>3. /\ u \in Table /\ Coherent(u, dinode) /\ KeptIn(u, p) /\ s # q
          /\ u[s].lock = p /\ u[s].valid /\ itable[s].lock = None
          /\ \A x \in Slot : u[x].ref = itable[x].ref /\ u[x].inum = itable[x].inum
          /\ \A x \in Slot \ {s} : u[x] = itable[x]
      <3>1. CanLock(s)
        BY <1>1 DEF Locks
      <3>2. /\ Like(u, s) /\ Coherent(u, dinode) /\ KeptIn(u, p) /\ u[s].lock = p /\ u[s].valid /\ itable[s].lock = None
        BY <1>1, <1>8, <2>1, <3>1, Entered
      <3> QED BY <2>2, <3>2, Sizes DEF Like
    <2>4. /\ But(u, t, q) /\ Coherent(t, dinode)
          /\ t[q].lock = None /\ t[q].valid = u[q].valid /\ t[q].d = u[q].d
          /\ t[q].ref = u[q].ref /\ t[q].inum = u[q].inum
      BY <1>1, <1>8, <2>1, <2>3, Unlocked
    <2>5. /\ t \in Table /\ Coherent(t, dinode) /\ KeptIn(t, p) /\ t[q].valid /\ t[q].d = itable[q].d
          /\ t[s].lock = p /\ t[s].valid
          /\ \A x \in Slot : t[x].ref = itable[x].ref
      <3>1. \A x \in Slot : t[x].ref = itable[x].ref /\ t[x].inum = itable[x].inum
        BY <2>3, <2>4 DEF But
      <3>2. \A x \in Slot \ {q} : t[x] = u[x]
        BY <2>4 DEF But
      <3>3. t[q].valid /\ t[q].d = itable[q].d /\ u[q] = itable[q]
        BY <1>1, <1>8, <2>2, <2>3, <2>4
      <3>4. KeptIn(t, p)
        BY <2>2, <2>3, <3>1, <3>2 DEF KeptIn
      <3>5. t[s].lock = p /\ t[s].valid
        BY <1>1, <1>8, <2>3, <3>2
      <3> QED BY <2>4, <3>1, <3>3, <3>4, <3>5 DEF But
    <2>6. /\ Iupdate(t, q, d) /\ d.type = t[q].d.type /\ d.addrs = t[q].d.addrs \cup new /\ itable[q].lock = p
          /\ used' = used \cup new /\ new \subseteq Block \ used
      BY <1>1, <2>1, <2>5, <2>2
    <2>7. /\ t \in Table /\ KeptIn(t, p) /\ Coherent(t, dinode) /\ t[q].valid /\ itable[q].lock \in {None, p}
          /\ q \in Slot /\ itable[q].ref > 0 /\ (\A x \in Slot : t[x].ref = itable[x].ref)
          /\ new \subseteq Block \ used /\ used' = used \cup new
          /\ Iupdate(t, q, d) /\ d.type = t[q].d.type /\ d.addrs = t[q].d.addrs \cup new
      BY <1>1, <1>7, <1>8, <2>5, <2>6
    <2>8. /\ itable' \in Table /\ Coherent(itable', dinode') /\ KeptIn(itable', p)
          /\ \A x \in Slot \ {q} : itable'[x] = t[x]
          /\ \A x \in Slot : itable'[x].ref = itable[x].ref
          /\ itable'[q].lock = t[q].lock /\ itable'[q].valid
          /\ dinode' \in [Inum -> Inode] /\ used' \subseteq Block /\ BlockInv'
          /\ \A i \in Inum : dinode'[i].type = "none" => dinode[i].type = "none"
      BY <2>7, Written
    <2> QED BY <1>1, <1>8, <2>5, <2>8, <2>3
  <1>10. lost' \subseteq Inum /\ th[p].fail # "linkbad"
    BY <1>2, <1>7 DEF Continues, Linking, TypeOK
  <1>11. th'[p] \in Local
    <2>1. "unlinkdec" \in Where /\ "iput" \in Putting /\ 0 \in 0 .. NINODE /\ <<q>> \in Seq(Slot)
      BY <1>1, <1>8, Sizes DEF Where, HasIp, Putting
    <2> QED BY <1>2, <1>5, <1>6, <2>1, OfLocal, InLocal
  <1>12. Eff(th'[p]) = "unlinkdec" /\ Len(th'[p].puts) = 1 /\ (th'[p].puts # <<>> <=> 1 > 0)
    BY <1>6, <1>7 DEF Eff
  <1>13. PathInv(p)'
    <2>1. Variables(th'[p])
      BY <1>6, <1>7, <1>8, <1>9, <1>12, <1>10 DEF Variables, Putting, HasIp, HasDp, Where
    <2>2. Continues(th'[p])
      BY <1>6, <1>7, <1>12, <1>10 DEF Continues, Linking, Failing
    <2>3. Asked(th'[p])
      BY <1>6, <1>7, <1>12 DEF Asked, Serves, Opening, Creating, Naming
    <2> QED BY <2>1, <2>2, <2>3 DEF PathInv
  <1>14. LockInv(p)'
    <2>1. \A x \in Slot : ~Frees(th'[p], x)
      BY <1>6, <1>10 DEF Frees, HasIp, HasDp
    <2>2. \A x \in Slot : KeepsLocked(th'[p], x) => x = s
      BY <1>1, <1>6, <1>7, <1>12 DEF KeepsLocked, Keeping, HasDp
    <2> QED BY <1>2, <1>9, <2>1, <2>2, LocksStep
  <1>15. UserInv(p)'
    BY <1>6, <1>7 DEF UserInv, files, Locks
  <1>16. RefInv'
    <2>1. Held1(p, "dp") = q /\ Held1(p, "dp")' = 0 /\ Held1(p, "put1") = 0 /\ Held1(p, "put1")' = q
      BY <1>6, <1>7, <1>12, <1>1 DEF Held1
    <2>2. \A u \in LocalVar \ {"dp", "put1"} : Held1(p, u)' = Held1(p, u)
      BY <1>6, <1>7, <1>12 DEF Held1, LocalVar, files
    <2>3. "dp" \in LocalVar /\ "put1" \in LocalVar /\ "dp" # "put1"
      BY DEF LocalVar
    <2>4. \A x \in Slot : itable'[x].ref = itable[x].ref - One(Held1(p, "dp"), x) + One(Held1(p, "dp")', x)
                                             - One(Held1(p, "put1"), x) + One(Held1(p, "put1")', x)
      BY <1>8, <1>9, <2>1 DEF One
    <2> QED BY <1>4, <2>2, <2>3, <2>4, RefStep DEF IInv, files
  <1>17. ncalls' \in 0 .. MaxCalls
    BY <1>2 DEF TypeOK, Locks
  <1> QED
    BY <1>4, <1>9, <1>11, <1>13, <1>14, <1>15, <1>16, <1>17, <1>10, DiskStep DEF Locks

\* unlink() of the inode.
LEMMA UnlinkIpStep ==
  ASSUME IInv, NEW p \in Proc, UnlinkIp(p)
  PROVE  IInv'
  <1>1. /\ th[p].at = "unlinkip" /\ th[p].puts = <<>> /\ Eff(th[p]) = "unlinkip" /\ cwd[p] # 0
        /\ Variables(th[p]) /\ Continues(th[p]) /\ Asked(th[p])
        /\ th[p].tgt # 0 <=> th[p].fail = "linkbad"
        /\ th[p].ip # 0
        /\ th[p].dp # 0 /\ th[p].at \in Naming
    <2>1. th[p].at = "unlinkip" /\ th[p].at \notin Putting
      BY DEF UnlinkIp, At, Locks, Putting
    <2> QED BY <2>1, Standing DEF HasIp, HasDp, Naming
  <1>2. /\ itable \in Table /\ Coherent(itable, dinode) /\ 0 \notin Slot
        /\ \A x \in Slot : itable[x].ref \in Nat /\ itable[x].inum \in Inum /\ itable[x].d \in Inode
        /\ th[p].ip \in Slot /\ itable[th[p].ip].ref > 0
    BY <1>1, InUse, Sizes DEF Slot
  <1>3. PICK s \in Slot : s = th[p].ip
    BY <1>2
  <1>4. PICK q \in Slot : q = th[p].dp
    BY <1>1, InUse
  <1>5. UNCHANGED <<used, files, ncalls, lost>> /\ Locks(p, "unlinkip")
    BY DEF UnlinkIp
  <1>6. ASSUME GiveUp(p, s, "dropdp"), UNCHANGED <<disk, files, ncalls, lost>> PROVE IInv'
    <2>1. PICK w : w = "dropdp"
      BY <1>1 DEF Continues, Failing
    <2>2. th[p].at \in HasIp \ {"writei", "opentrunc"} /\ CanLock(s)
      BY <1>1, <1>3 DEF HasIp, UnlinkIp, Locks
    <2>3. w = "dropdp" <=> th[p].at \in HasDp
      BY <1>1, <2>1 DEF HasDp
    <2>4. w = "endop" => th[p].fail # "linkbad"
      BY <1>1, <2>1 DEF Continues, Linking
    <2>5. w = "linkbad" => th[p].fail = "linkbad"
      BY <1>1, <2>1 DEF Continues
    <2>6. w = "dropdp" => th[p].at \in Failing
      BY <1>1, <2>1 DEF Failing
    <2>7. w \in {"endop", "dropdp", "linkbad"} /\ GiveUp(p, s, w)
      BY <1>6, <2>1
    <2> QED BY <1>6, <1>1, <1>3, <2>2, <2>3, <2>4, <2>5, <2>6, <2>7, GiveUpStep
  <1>7. PICK name \in Name : name = LastOf(th[p].path)
    BY <1>1, <1>2, FoundIsNumber
  <1>8. PICK i, up : /\ i = itable[q].inum
                     /\ up = (IF Loaded(s).type = "dir" THEN itable[q].d.nlink - 1 ELSE itable[q].d.nlink)
    OBVIOUS
  <1>9. PICK d : d = [itable[q].d EXCEPT !.nlink = up]
    OBVIOUS
  <1>10. d \in Inode /\ d.type = itable[q].d.type /\ d.addrs = itable[q].d.addrs
    <2>1. itable[q].d \in Inode /\ up \in Int
      BY <1>2, <1>8 DEF Inode
    <2> QED BY <1>9, <2>1 DEF Inode
  <1>11. ASSUME dir' = [dir EXCEPT ![i][name] = 0], Iupdate(Unlock(Ilock(p, s), q), q, d),
                PutThen(p, <<q>>, "unlinkdec", [dp |-> 0])
         PROVE  IInv'
    <2>1. dir' \in [Inum -> [Name -> 0 .. NINODES]]
      <3>1. dir \in [Inum -> [Name -> 0 .. NINODES]] /\ 0 \in 0 .. NINODES
        BY Sizes DEF IInv, TypeOK
      <3> QED BY <1>11, <3>1
    <2> QED BY <1>3, <1>4, <1>5, <1>10, <1>11, <2>1, UnlinkIpStep1
  <1>12. CASE GiveUp(p, s, "dropdp") /\ UNCHANGED <<dinode, dir>>
    BY <1>5, <1>6, <1>12 DEF disk
  <1>13. CASE ~(GiveUp(p, s, "dropdp") /\ UNCHANGED <<dinode, dir>>)
    <2>1. /\ dir' = [dir EXCEPT ![i][name] = 0]
          /\ Iupdate(Unlock(Ilock(p, s), q), q, [itable[q].d EXCEPT !.nlink = IF Loaded(s).type = "dir" THEN @ - 1 ELSE @])
          /\ PutThen(p, <<q>>, "unlinkdec", [dp |-> 0])
      BY <1>3, <1>4, <1>7, <1>8, <1>13 DEF UnlinkIp
    <2>2. Iupdate(Unlock(Ilock(p, s), q), q, d)
      BY <1>8, <1>9, <2>1
    <2> QED BY <1>11, <2>1, <2>2
  <1> QED
    BY <1>12, <1>13
-----------------------------------------------------------------------------
(* sys_link() *)

\* sys_link() counts the new link before there is an entry for it.
LEMMA LinkIncStep1 ==
  ASSUME IInv, NEW p \in Proc, Locks(p, "linkinc"), NEW new, new = {},
         NEW d \in Inode, d.type = Loaded(th[p].ip).type, d.addrs = Loaded(th[p].ip).addrs,
         Iupdate(Unlock(Ilock(p, th[p].ip), th[p].ip), th[p].ip, d), Go(p, NewName(p)),
         UNCHANGED <<dir, used, files, ncalls, lost>>
  PROVE  IInv'
  <1>1. PICK s : s = th[p].ip
    OBVIOUS
  <1>2. TypeOK /\ PathInv(p) /\ UserInv(p) /\ LockInv(p) /\ th[p] \in Local
    BY DEF IInv, TypeOK
  <1>3. PICK r : r = [at |-> "namex", tgt |-> s, ip |-> 0, path |-> th[p].call.new, parent |-> TRUE, ok |-> "linkdp", fail |-> "linkbad"]
    OBVIOUS
  <1>4. /\ th'[p] = r \oplus th[p] /\ \A q \in Proc \ {p} : th'[q] = th[q]
        /\ th[p] = [f \in Fields |-> th[p][f]]
        /\ th'[p] \in Local => th' \in [Proc -> Local]
    BY <1>2, <1>3, <1>1, Goes DEF NewName
  <1>5. th'[p] = [f \in Fields |-> th'[p][f]]
    BY <1>3, <1>4 DEF \oplus, Fields
  <1>6. /\ th'[p].at = "namex" /\ th'[p].call = th[p].call /\ th'[p].path = th[p].call.new /\ th'[p].parent = TRUE
        /\ th'[p].ok = "linkdp" /\ th'[p].fail = "linkbad" /\ th'[p].then = th[p].then /\ th'[p].puts = th[p].puts
        /\ th'[p].ip = 0 /\ th'[p].dp = th[p].dp /\ th'[p].tgt = s /\ th'[p].inum = th[p].inum
    BY <1>3, <1>4 DEF \oplus, Fields
  <1>7. /\ th[p].at = "linkinc" /\ th[p].puts = <<>> /\ Eff(th[p]) = "linkinc" /\ cwd[p] # 0
        /\ Variables(th[p]) /\ Continues(th[p]) /\ Asked(th[p]) /\ \A x \in Slot : ~Frees(th[p], x)
        /\ Held1(p, "put1") = 0 /\ Held1(p, "put2") = 0
        /\ th[p].tgt # 0 <=> th[p].fail = "linkbad"
        /\ th[p].ip # 0 /\ th[p].dp = 0
    <2>1. th[p].at = "linkinc" /\ th[p].at \notin Putting
      BY DEF Locks, At, Locks, Putting
    <2> QED BY <2>1, Standing DEF HasIp, HasDp
  <1>8. /\ itable \in Table /\ Coherent(itable, dinode) /\ 0 \notin Slot
        /\ \A x \in Slot : itable[x].ref \in Nat /\ itable[x].inum \in Inum /\ itable[x].d \in Inode
        /\ th[p].ip \in Slot /\ itable[th[p].ip].ref > 0
    BY <1>7, InUse, Sizes DEF Slot
  <1>9. /\ itable' \in Table /\ Coherent(itable', dinode') /\ KeptIn(itable', p)
        /\ \A x \in Slot : itable'[x].ref = itable[x].ref
        /\ dinode' \in [Inum -> Inode] /\ used' \subseteq Block /\ BlockInv'
        /\ \A i \in Inum : dinode'[i].type = "none" => dinode[i].type = "none"
    <2>1. PICK t : t = Unlock(Ilock(p, s), s)
      OBVIOUS
    <2>2. CanLock(s)
      BY <1>1 DEF Locks
    <2>3. /\ t \in Table /\ Coherent(t, dinode) /\ KeptIn(t, p) /\ (\A x \in Slot : t[x].ref = itable[x].ref)
          /\ t[s].lock = None /\ t[s].valid /\ t[s].d = Loaded(s) /\ itable[s].lock = None
      BY <1>1, <1>8, <2>1, <2>2, Peeked
    <2>4. /\ t \in Table /\ Coherent(t, dinode) /\ KeptIn(t, p) /\ (\A x \in Slot : t[x].ref = itable[x].ref)
          /\ t[s].valid /\ t[s].d = Loaded(s)
      BY <2>3
    <2>5. /\ Iupdate(t, s, d) /\ d.type = t[s].d.type /\ d.addrs = t[s].d.addrs \cup new /\ itable[s].lock = None
          /\ used' = used \cup new /\ new \subseteq Block \ used
      BY <1>1, <2>1, <2>3
    <2>6. /\ t \in Table /\ KeptIn(t, p) /\ Coherent(t, dinode) /\ t[s].valid /\ itable[s].lock \in {None, p}
          /\ s \in Slot /\ itable[s].ref > 0 /\ (\A x \in Slot : t[x].ref = itable[x].ref)
          /\ new \subseteq Block \ used /\ used' = used \cup new
          /\ Iupdate(t, s, d) /\ d.type = t[s].d.type /\ d.addrs = t[s].d.addrs \cup new
      BY <1>1, <1>7, <1>8, <2>4, <2>5
    <2>7. /\ itable' \in Table /\ Coherent(itable', dinode') /\ KeptIn(itable', p)
          /\ \A x \in Slot \ {s} : itable'[x] = t[x]
          /\ \A x \in Slot : itable'[x].ref = itable[x].ref
          /\ itable'[s].lock = t[s].lock /\ itable'[s].valid
          /\ dinode' \in [Inum -> Inode] /\ used' \subseteq Block /\ BlockInv'
          /\ \A i \in Inum : dinode'[i].type = "none" => dinode[i].type = "none"
      BY <2>6, Written
    <2> QED BY <2>7
  <1>10. /\ th[p].fail # "linkbad" /\ th[p].tgt = 0 /\ lost' \subseteq Inum
         /\ dir' \in [Inum -> [Name -> 0 .. NINODES]] /\ IsPathname(th[p].call.new)
    <2>1. th[p].call \in Calls /\ th[p].call.op = "link"
      BY <1>7 DEF Asked, Serves
    <2>2. th[p].fail # "linkbad" /\ th[p].tgt = 0
      BY <1>7 DEF Continues, Linking
    <2> QED BY <1>2, <2>1, <2>2, CallFacts DEF TypeOK
  <1>11. th'[p] \in Local
    <2>1. {"namex", "linkdp", "linkbad"} \subseteq Where /\ {0, s} \subseteq 0 .. NINODE /\ th[p].call.new \in Seq(Name \cup {"/"})
      BY <1>1, <1>8, <1>10, Sizes DEF Where, HasIp, Slot, IsPathname
    <2> QED BY <1>2, <1>5, <1>6, <2>1, OfLocal, InLocal
  <1>12. Eff(th'[p]) = "namex" /\ Len(th'[p].puts) = 0 /\ (th'[p].puts # <<>> <=> 0 > 0)
    BY <1>6, <1>7 DEF Eff
  <1>13. PathInv(p)'
    <2>1. Variables(th'[p])
      BY <1>6, <1>7, <1>8, <1>9, <1>12, <1>1 DEF Variables, Putting, HasIp, HasDp, Where
    <2>2. Continues(th'[p])
      BY <1>6, <1>7, <1>12 DEF Continues, Linking, Failing
    <2>3. Asked(th'[p])
      BY <1>6, <1>7, <1>12, <1>10 DEF Asked, Serves, Opening, Creating, Naming
    <2> QED BY <2>1, <2>2, <2>3 DEF PathInv
  <1>14. LockInv(p)'
    <2>1. \A x \in Slot : ~Frees(th'[p], x)
      BY <1>6, <1>10 DEF Frees, HasIp, HasDp
    <2>2. \A x \in Slot : ~KeepsLocked(th'[p], x)
      BY <1>6, <1>8, <1>9, <1>12 DEF KeepsLocked, Keeping, HasDp
    <2> QED BY <1>2, <2>1, <2>2, LocksStep
  <1>15. UserInv(p)'
    BY <1>6, <1>7 DEF UserInv, files, Locks
  <1>16. RefInv'
    <2>1. Held1(p, "ip") = s /\ Held1(p, "ip")' = 0 /\ Held1(p, "tgt") = 0 /\ Held1(p, "tgt")' = s
      BY <1>6, <1>7, <1>12, <1>1, <1>10 DEF Held1
    <2>2. \A u \in LocalVar \ {"ip", "tgt"} : Held1(p, u)' = Held1(p, u)
      BY <1>6, <1>7, <1>12 DEF Held1, LocalVar, files
    <2>3. "ip" \in LocalVar /\ "tgt" \in LocalVar /\ "ip" # "tgt"
      BY DEF LocalVar
    <2>4. \A x \in Slot : itable'[x].ref = itable[x].ref - One(Held1(p, "ip"), x) + One(Held1(p, "ip")', x)
                                             - One(Held1(p, "tgt"), x) + One(Held1(p, "tgt")', x)
      BY <1>8, <1>9, <2>1 DEF One
    <2> QED BY <1>4, <2>2, <2>3, <2>4, RefStep DEF IInv, files
  <1>17. ncalls' \in 0 .. MaxCalls
    BY <1>2 DEF TypeOK, Locks
  <1> QED
    BY <1>4, <1>9, <1>11, <1>13, <1>14, <1>15, <1>16, <1>17, <1>10, DiskStep DEF Locks

\* sys_link() of the old name.
LEMMA LinkIncStep ==
  ASSUME IInv, NEW p \in Proc, LinkInc(p)
  PROVE  IInv'
  <1>1. /\ th[p].at = "linkinc" /\ th[p].puts = <<>> /\ Eff(th[p]) = "linkinc" /\ cwd[p] # 0
        /\ Variables(th[p]) /\ Continues(th[p]) /\ Asked(th[p])
        /\ th[p].tgt # 0 <=> th[p].fail = "linkbad"
        /\ th[p].ip # 0
    <2>1. th[p].at = "linkinc" /\ th[p].at \notin Putting
      BY DEF LinkInc, At, Locks, Putting
    <2> QED BY <2>1, Standing DEF HasIp, HasDp
  <1>2. /\ itable \in Table /\ Coherent(itable, dinode) /\ 0 \notin Slot
        /\ \A x \in Slot : itable[x].ref \in Nat /\ itable[x].inum \in Inum /\ itable[x].d \in Inode
        /\ th[p].ip \in Slot /\ itable[th[p].ip].ref > 0
    BY <1>1, InUse, Sizes DEF Slot
  <1>3. PICK s \in Slot : s = th[p].ip
    BY <1>2
  <1>4. UNCHANGED <<dir, used, files, ncalls, lost>> /\ Locks(p, "linkinc")
    BY DEF LinkInc
  <1>5. ASSUME GiveUp(p, s, "endop"), UNCHANGED <<disk, files, ncalls, lost>> PROVE IInv'
    <2>1. PICK w : w = "endop"
      BY <1>1 DEF Continues, Failing
    <2>2. th[p].at \in HasIp \ {"writei", "opentrunc"} /\ CanLock(s)
      BY <1>1, <1>3 DEF HasIp, LinkInc, Locks
    <2>3. w = "dropdp" <=> th[p].at \in HasDp
      BY <1>1, <2>1 DEF HasDp
    <2>4. w = "endop" => th[p].fail # "linkbad"
      BY <1>1, <2>1 DEF Continues, Linking
    <2>5. w = "linkbad" => th[p].fail = "linkbad"
      BY <1>1, <2>1 DEF Continues
    <2>6. w = "dropdp" => th[p].at \in Failing
      BY <1>1, <2>1 DEF Failing
    <2>7. w \in {"endop", "dropdp", "linkbad"} /\ GiveUp(p, s, w)
      BY <1>5, <2>1
    <2> QED BY <1>5, <1>1, <1>3, <2>2, <2>3, <2>4, <2>5, <2>6, <2>7, GiveUpStep
  <1>6. ASSUME Iupdate(Unlock(Ilock(p, s), s), s, [Loaded(s) EXCEPT !.nlink = @ + 1]), Go(p, NewName(p))
        PROVE  IInv'
    <2>1. PICK n : n = Loaded(s).nlink + 1
      OBVIOUS
    <2>2. PICK d : d = [Loaded(s) EXCEPT !.nlink = n]
      OBVIOUS
    <2>3. Loaded(s) \in Inode
      BY <1>2, <1>3, <1>4, Entered DEF Locks
    <2>4. n \in Int
      BY <2>1, <2>3 DEF Inode
    <2>5. d \in Inode /\ d.type = Loaded(s).type /\ d.addrs = Loaded(s).addrs
      BY <2>2, <2>3, <2>4 DEF Inode
    <2>6. Iupdate(Unlock(Ilock(p, s), s), s, d)
      BY <1>6, <2>1, <2>2
    <2> QED BY <1>3, <1>4, <1>6, <2>5, <2>6, LinkIncStep1
  <1>7. CASE GiveUp(p, s, "endop") /\ UNCHANGED dinode
    BY <1>4, <1>5, <1>7 DEF disk
  <1> QED
    BY <1>3, <1>6, <1>7 DEF LinkInc

\* sys_link() takes the link back.
LEMMA LinkBadStep1 ==
  ASSUME IInv, NEW p \in Proc, At(p, "linkbad"), CanLock(th[p].tgt), NEW new, new = {},
         NEW d \in Inode, d.type = Loaded(th[p].tgt).type, d.addrs = Loaded(th[p].tgt).addrs,
         Iupdate(Unlock(Ilock(p, th[p].tgt), th[p].tgt), th[p].tgt, d), PutThen(p, <<th[p].tgt>>, "endop", [tgt |-> 0]),
         UNCHANGED <<dir, used, files, ncalls, lost>>
  PROVE  IInv'
  <1>1. PICK s : s = th[p].tgt
    OBVIOUS
  <1>2. TypeOK /\ PathInv(p) /\ UserInv(p) /\ LockInv(p) /\ th[p] \in Local
    BY DEF IInv, TypeOK
  <1>3. PICK r : r = [tgt |-> 0] \oplus [at |-> "iput", puts |-> <<s>>, then |-> "endop"]
    OBVIOUS
  <1>4. /\ th'[p] = r \oplus th[p] /\ \A q \in Proc \ {p} : th'[q] = th[q]
        /\ th[p] = [f \in Fields |-> th[p][f]]
        /\ th'[p] \in Local => th' \in [Proc -> Local]
    BY <1>2, <1>3, <1>1, Goes DEF PutThen
  <1>5. th'[p] = [f \in Fields |-> th'[p][f]]
    BY <1>3, <1>4 DEF \oplus, Fields
  <1>6. /\ th'[p].at = "iput" /\ th'[p].call = th[p].call /\ th'[p].path = th[p].path /\ th'[p].parent = th[p].parent
        /\ th'[p].ok = th[p].ok /\ th'[p].fail = th[p].fail /\ th'[p].then = "endop" /\ th'[p].puts = <<s>>
        /\ th'[p].ip = th[p].ip /\ th'[p].dp = th[p].dp /\ th'[p].tgt = 0 /\ th'[p].inum = th[p].inum
    BY <1>3, <1>4 DEF \oplus, Fields
  <1>7. /\ th[p].at = "linkbad" /\ th[p].puts = <<>> /\ Eff(th[p]) = "linkbad" /\ cwd[p] # 0
        /\ Variables(th[p]) /\ Continues(th[p]) /\ Asked(th[p]) /\ \A x \in Slot : ~Frees(th[p], x)
        /\ Held1(p, "put1") = 0 /\ Held1(p, "put2") = 0
        /\ th[p].tgt # 0 <=> th[p].fail = "linkbad"
        /\ th[p].ip = 0 /\ th[p].dp = 0 /\ th[p].tgt # 0
    <2>1. th[p].at = "linkbad" /\ th[p].at \notin Putting
      BY DEF At, At, Locks, Putting
    <2> QED BY <2>1, Standing DEF HasIp, HasDp, Continues
  <1>8. /\ itable \in Table /\ Coherent(itable, dinode) /\ 0 \notin Slot
        /\ \A x \in Slot : itable[x].ref \in Nat /\ itable[x].inum \in Inum /\ itable[x].d \in Inode
        /\ th[p].tgt \in Slot /\ itable[th[p].tgt].ref > 0
    BY <1>7, InUse, Sizes DEF Slot
  <1>9. /\ itable' \in Table /\ Coherent(itable', dinode') /\ KeptIn(itable', p)
        /\ \A x \in Slot : itable'[x].ref = itable[x].ref
        /\ dinode' \in [Inum -> Inode] /\ used' \subseteq Block /\ BlockInv'
        /\ \A i \in Inum : dinode'[i].type = "none" => dinode[i].type = "none"
    <2>1. PICK t : t = Unlock(Ilock(p, s), s)
      OBVIOUS
    <2>2. CanLock(s)
      BY <1>1
    <2>3. /\ t \in Table /\ Coherent(t, dinode) /\ KeptIn(t, p) /\ (\A x \in Slot : t[x].ref = itable[x].ref)
          /\ t[s].lock = None /\ t[s].valid /\ t[s].d = Loaded(s) /\ itable[s].lock = None
      BY <1>1, <1>8, <2>1, <2>2, Peeked
    <2>4. /\ t \in Table /\ Coherent(t, dinode) /\ KeptIn(t, p) /\ (\A x \in Slot : t[x].ref = itable[x].ref)
          /\ t[s].valid /\ t[s].d = Loaded(s)
      BY <2>3
    <2>5. /\ Iupdate(t, s, d) /\ d.type = t[s].d.type /\ d.addrs = t[s].d.addrs \cup new /\ itable[s].lock = None
          /\ used' = used \cup new /\ new \subseteq Block \ used
      BY <1>1, <2>1, <2>3
    <2>6. /\ t \in Table /\ KeptIn(t, p) /\ Coherent(t, dinode) /\ t[s].valid /\ itable[s].lock \in {None, p}
          /\ s \in Slot /\ itable[s].ref > 0 /\ (\A x \in Slot : t[x].ref = itable[x].ref)
          /\ new \subseteq Block \ used /\ used' = used \cup new
          /\ Iupdate(t, s, d) /\ d.type = t[s].d.type /\ d.addrs = t[s].d.addrs \cup new
      BY <1>1, <1>7, <1>8, <2>4, <2>5
    <2>7. /\ itable' \in Table /\ Coherent(itable', dinode') /\ KeptIn(itable', p)
          /\ \A x \in Slot \ {s} : itable'[x] = t[x]
          /\ \A x \in Slot : itable'[x].ref = itable[x].ref
          /\ itable'[s].lock = t[s].lock /\ itable'[s].valid
          /\ dinode' \in [Inum -> Inode] /\ used' \subseteq Block /\ BlockInv'
          /\ \A i \in Inum : dinode'[i].type = "none" => dinode[i].type = "none"
      BY <2>6, Written
    <2> QED BY <2>7
  <1>10. lost' \subseteq Inum /\ dir' \in [Inum -> [Name -> 0 .. NINODES]]
    BY <1>2 DEF TypeOK
  <1>11. th'[p] \in Local
    <2>1. "endop" \in Where /\ "iput" \in Putting /\ 0 \in 0 .. NINODE /\ <<s>> \in Seq(Slot)
      BY <1>1, <1>8, Sizes DEF Where, Putting
    <2> QED BY <1>2, <1>5, <1>6, <2>1, OfLocal, InLocal
  <1>12. Eff(th'[p]) = "endop" /\ Len(th'[p].puts) = 1 /\ (th'[p].puts # <<>> <=> 1 > 0)
    BY <1>6, <1>7 DEF Eff
  <1>13. PathInv(p)'
    <2>1. Variables(th'[p])
      BY <1>6, <1>7, <1>8, <1>9, <1>12, <1>10 DEF Variables, Putting, HasIp, HasDp, Where
    <2>2. Continues(th'[p])
      BY <1>6, <1>7, <1>12 DEF Continues, Linking, Failing
    <2>3. Asked(th'[p])
      BY <1>6, <1>7, <1>12 DEF Asked, Serves, Opening, Creating, Naming
    <2> QED BY <2>1, <2>2, <2>3 DEF PathInv
  <1>14. LockInv(p)'
    <2>1. \A x \in Slot : ~Frees(th'[p], x)
      BY <1>6, <1>10 DEF Frees, HasIp, HasDp
    <2>2. \A x \in Slot : ~KeepsLocked(th'[p], x)
      BY <1>6, <1>8, <1>9, <1>12 DEF KeepsLocked, Keeping, HasDp
    <2> QED BY <1>2, <2>1, <2>2, LocksStep
  <1>15. UserInv(p)'
    BY <1>6, <1>7 DEF UserInv, files, At
  <1>16. RefInv'
    <2>1. Held1(p, "tgt") = s /\ Held1(p, "tgt")' = 0 /\ Held1(p, "put1") = 0 /\ Held1(p, "put1")' = s
      BY <1>6, <1>7, <1>12, <1>1 DEF Held1
    <2>2. \A u \in LocalVar \ {"tgt", "put1"} : Held1(p, u)' = Held1(p, u)
      BY <1>6, <1>7, <1>12 DEF Held1, LocalVar, files
    <2>3. "tgt" \in LocalVar /\ "put1" \in LocalVar /\ "tgt" # "put1"
      BY DEF LocalVar
    <2>4. \A x \in Slot : itable'[x].ref = itable[x].ref - One(Held1(p, "tgt"), x) + One(Held1(p, "tgt")', x)
                                             - One(Held1(p, "put1"), x) + One(Held1(p, "put1")', x)
      BY <1>8, <1>9, <2>1 DEF One
    <2> QED BY <1>4, <2>2, <2>3, <2>4, RefStep DEF IInv, files
  <1>17. ncalls' \in 0 .. MaxCalls
    BY <1>2 DEF TypeOK, At
  <1> QED
    BY <1>4, <1>9, <1>11, <1>13, <1>14, <1>15, <1>16, <1>17, <1>10, DiskStep DEF At

\* sys_link() fails.
LEMMA LinkBadStep ==
  ASSUME IInv, NEW p \in Proc, LinkBad(p)
  PROVE  IInv'
  <1>1. th[p].at = "linkbad" /\ th[p].at \notin Putting
    BY DEF LinkBad, At, Putting
  <1>2. th[p].tgt # 0
    BY <1>1, Standing DEF Continues
  <1>3. PICK s \in Slot : s = th[p].tgt /\ itable[s].ref > 0
    BY <1>2, InUse
  <1>4. CanLock(s) /\ At(p, "linkbad") /\ UNCHANGED <<dir, used, files, ncalls, lost>>
    BY <1>3 DEF LinkBad
  <1>5. PICK n : n = Loaded(s).nlink - 1
    OBVIOUS
  <1>6. PICK d : d = [Loaded(s) EXCEPT !.nlink = n]
    OBVIOUS
  <1>7. Loaded(s) \in Inode
    BY <1>3, <1>4, Entered
  <1>8. d \in Inode /\ d.type = Loaded(s).type /\ d.addrs = Loaded(s).addrs
    <2>1. n \in Int
      BY <1>5, <1>7 DEF Inode
    <2> QED BY <1>6, <1>7, <2>1 DEF Inode
  <1>9. Iupdate(Unlock(Ilock(p, s), s), s, d) /\ PutThen(p, <<s>>, "endop", [tgt |-> 0])
    BY <1>3, <1>5, <1>6 DEF LinkBad
  <1> QED
    BY <1>3, <1>4, <1>8, <1>9, LinkBadStep1

\* The new name exists: what was found is dropped with the directory locked.
LEMMA LinkFoundStep ==
  ASSUME IInv, NEW p \in Proc, Locks(p, "linkdp"), NEW i \in Inum, HasEntry(Ilock(p, th[p].ip), i),
         itable' = Iget(Ilock(p, th[p].ip), i),
         PutThen(p, <<EntryFor(Ilock(p, th[p].ip), i)>>, "dropdp", [dp |-> th[p].ip, ip |-> 0]),
         UNCHANGED <<disk, files, ncalls, lost>>
  PROVE  IInv'
  <1>1. PICK s, t, e : s = th[p].ip /\ t = Ilock(p, s) /\ e = EntryFor(t, i)
    OBVIOUS
  <1>2. TypeOK /\ PathInv(p) /\ UserInv(p) /\ LockInv(p) /\ th[p] \in Local
    BY DEF IInv, TypeOK
  <1>3. PICK r : r = [dp |-> s, ip |-> 0] \oplus [at |-> "iput", puts |-> <<e>>, then |-> "dropdp"]
    OBVIOUS
  <1>4. /\ th'[p] = r \oplus th[p] /\ \A q \in Proc \ {p} : th'[q] = th[q]
        /\ th[p] = [f \in Fields |-> th[p][f]]
        /\ th'[p] \in Local => th' \in [Proc -> Local]
    BY <1>2, <1>3, <1>1, Goes DEF PutThen
  <1>5. th'[p] = [f \in Fields |-> th'[p][f]]
    BY <1>3, <1>4 DEF \oplus, Fields
  <1>6. /\ th'[p].at = "iput" /\ th'[p].call = th[p].call /\ th'[p].path = th[p].path /\ th'[p].parent = th[p].parent
        /\ th'[p].ok = th[p].ok /\ th'[p].fail = th[p].fail /\ th'[p].then = "dropdp" /\ th'[p].puts = <<e>>
        /\ th'[p].ip = 0 /\ th'[p].dp = s /\ th'[p].tgt = th[p].tgt /\ th'[p].inum = th[p].inum
    BY <1>3, <1>4 DEF \oplus, Fields
  <1>7. /\ th[p].at = "linkdp" /\ th[p].puts = <<>> /\ Eff(th[p]) = "linkdp" /\ cwd[p] # 0
        /\ Variables(th[p]) /\ Continues(th[p]) /\ Asked(th[p]) /\ \A x \in Slot : ~Frees(th[p], x)
        /\ Held1(p, "put1") = 0 /\ Held1(p, "put2") = 0
        /\ th[p].tgt # 0 <=> th[p].fail = "linkbad"
        /\ th[p].ip # 0 /\ th[p].dp = 0
    <2>1. th[p].at = "linkdp" /\ th[p].at \notin Putting
      BY DEF Locks, At, Locks, Putting
    <2> QED BY <2>1, Standing DEF HasIp, HasDp
  <1>8. /\ itable \in Table /\ Coherent(itable, dinode) /\ 0 \notin Slot
        /\ \A x \in Slot : itable[x].ref \in Nat /\ itable[x].inum \in Inum /\ itable[x].d \in Inode
        /\ th[p].ip \in Slot /\ itable[th[p].ip].ref > 0
    BY <1>7, InUse, Sizes DEF Slot
  <1>9. /\ e \in Slot /\ itable' \in Table /\ Coherent(itable', dinode) /\ KeptIn(itable', p)
        /\ \A x \in Slot : itable'[x].ref = itable[x].ref + One(e, x)
        /\ itable'[s].lock = p /\ itable'[s].valid
    <2>1. CanLock(s)
      BY <1>1 DEF Locks
    <2>2. /\ t \in Table /\ KeptIn(t, p) /\ Coherent(t, dinode) /\ (\A x \in Slot : t[x].ref = itable[x].ref)
          /\ t[s].lock = p /\ t[s].valid
      BY <1>1, <1>8, <2>1, Entered DEF Like
    <2>3. HasEntry(t, i) /\ itable' = Iget(t, i)
      BY <1>1
    <2>4. /\ e \in Slot /\ itable' \in Table /\ Coherent(itable', dinode) /\ KeptIn(itable', p)
          /\ \A x \in Slot : /\ itable'[x].ref = itable[x].ref + One(e, x) /\ itable'[x].lock = t[x].lock
                             /\ itable[x].ref > 0 => itable'[x].valid = t[x].valid /\ itable'[x].d = t[x].d
      BY <1>1, <2>2, <2>3, GotAfter
    <2> QED BY <1>1, <1>8, <2>2, <2>4
  <1>10. th[p].fail = "linkbad" /\ th[p].tgt # 0
    BY <1>7 DEF Continues
  <1>11. th'[p] \in Local
    <2>1. "dropdp" \in Where /\ "iput" \in Putting /\ {0, s} \subseteq 0 .. NINODE /\ <<e>> \in Seq(Slot)
      BY <1>1, <1>8, <1>9, Sizes DEF Where, HasDp, Slot, Putting
    <2> QED BY <1>2, <1>5, <1>6, <2>1, OfLocal, InLocal
  <1>12. Eff(th'[p]) = "dropdp" /\ Len(th'[p].puts) = 1 /\ (th'[p].puts # <<>> <=> 1 > 0)
    BY <1>6, <1>7 DEF Eff
  <1>13. PathInv(p)'
    <2>1. Variables(th'[p])
      BY <1>6, <1>7, <1>8, <1>9, <1>12, <1>1, <1>10 DEF Variables, Putting, HasIp, HasDp, Where
    <2>2. Continues(th'[p])
      BY <1>6, <1>7, <1>12, <1>10 DEF Continues, Linking, Failing
    <2>3. Asked(th'[p])
      BY <1>6, <1>7, <1>12 DEF Asked, Serves, Opening, Creating, Naming
    <2> QED BY <2>1, <2>2, <2>3 DEF PathInv
  <1>14. LockInv(p)'
    <2>1. \A x \in Slot : ~Frees(th'[p], x)
      BY <1>6, <1>10 DEF Frees, HasIp, HasDp
    <2>2. \A x \in Slot : KeepsLocked(th'[p], x) => x = s
      BY <1>1, <1>6, <1>7, <1>12 DEF KeepsLocked, Keeping, HasDp
    <2> QED BY <1>2, <1>9, <2>1, <2>2, LocksStep
  <1>15. UserInv(p)'
    BY <1>6, <1>7 DEF UserInv, files, Locks
  <1>16. RefInv'
    <2>1. /\ Held1(p, "ip") = s /\ Held1(p, "ip")' = 0 /\ Held1(p, "dp") = 0 /\ Held1(p, "dp")' = s
         /\ Held1(p, "put1") = 0 /\ Held1(p, "put1")' = e /\ Held1(p, "put2") = 0 /\ Held1(p, "put2")' = 0
      BY <1>6, <1>7, <1>12, <1>1 DEF Held1
    <2>2. \A u \in LocalVar \ {"ip", "dp", "put1", "put2"} : Held1(p, u)' = Held1(p, u)
      BY <1>6, <1>7, <1>12 DEF Held1, LocalVar, files
    <2>3. "ip" \in LocalVar /\ "dp" \in LocalVar /\ "put1" \in LocalVar /\ "put2" \in LocalVar /\ "ip" # "dp" /\ "ip" # "put1" /\ "ip" # "put2" /\ "dp" # "put1" /\ "dp" # "put2" /\ "put1" # "put2"
      BY DEF LocalVar
    <2>4. \A x \in Slot : itable'[x].ref = itable[x].ref - One(Held1(p, "ip"), x) + One(Held1(p, "ip")', x)
                                             - One(Held1(p, "dp"), x) + One(Held1(p, "dp")', x)
                                             - One(Held1(p, "put1"), x) + One(Held1(p, "put1")', x)
                                             - One(Held1(p, "put2"), x) + One(Held1(p, "put2")', x)
      <3>1. ASSUME NEW x \in Slot, NEW n, n = itable[x].ref
            PROVE  itable'[x].ref = n - One(Held1(p, "ip"), x) + One(Held1(p, "ip")', x)
                                             - One(Held1(p, "dp"), x) + One(Held1(p, "dp")', x)
                                             - One(Held1(p, "put1"), x) + One(Held1(p, "put1")', x)
                                             - One(Held1(p, "put2"), x) + One(Held1(p, "put2")', x)
        <4>1. One(0, x) = 0 /\ (\A y : One(y, x) \in Int) /\ n \in Int
          BY <1>8, <3>1 DEF One
        <4>2. itable'[x].ref = n + One(e, x)
          BY <1>9, <3>1
        <4> QED BY <2>1, <4>1, <4>2
      <3> QED BY <3>1
    <2>5. RefInv /\ UNCHANGED ftable /\ \A q \in Proc \ {p} : th'[q] = th[q] /\ cwd'[q] = cwd[q]
      BY <1>4 DEF IInv, files
    <2> QED BY <2>2, <2>3, <2>4, <2>5, RefFour
  <1>17. ncalls' \in 0 .. MaxCalls
    BY <1>2 DEF TypeOK, Locks
  <1> QED
    BY <1>4, <1>9, <1>11, <1>13, <1>14, <1>15, <1>16, <1>17, <1>10, TableStep DEF Locks

\* The new name is written, and the directory and the inode are let go.
LEMMA LinkNewStep ==
  ASSUME IInv, NEW p \in Proc, Locks(p, "linkdp"),
         NEW new, new \subseteq Block \ used, NEW d \in Inode, d.type = Loaded(th[p].ip).type, d.addrs = Loaded(th[p].ip).addrs \cup new,
         Iupdate(Unlock(Ilock(p, th[p].ip), th[p].ip), th[p].ip, d), used' = used \cup new,
         dir' \in [Inum -> [Name -> 0 .. NINODES]], lost' \subseteq Inum,
         PutThen(p, <<th[p].ip, th[p].tgt>>, "endop", [ip |-> 0, tgt |-> 0]),
         UNCHANGED <<files, ncalls>>
  PROVE  IInv'
  <1>1. PICK s, q : s = th[p].ip /\ q = th[p].tgt
    OBVIOUS
  <1>2. TypeOK /\ PathInv(p) /\ UserInv(p) /\ LockInv(p) /\ th[p] \in Local
    BY DEF IInv, TypeOK
  <1>3. PICK r : r = [ip |-> 0, tgt |-> 0] \oplus [at |-> "iput", puts |-> <<s, q>>, then |-> "endop"]
    OBVIOUS
  <1>4. /\ th'[p] = r \oplus th[p] /\ \A x \in Proc \ {p} : th'[x] = th[x]
        /\ th[p] = [f \in Fields |-> th[p][f]]
        /\ th'[p] \in Local => th' \in [Proc -> Local]
    BY <1>2, <1>3, <1>1, Goes DEF PutThen
  <1>5. th'[p] = [f \in Fields |-> th'[p][f]]
    BY <1>3, <1>4 DEF \oplus, Fields
  <1>6. /\ th'[p].at = "iput" /\ th'[p].call = th[p].call /\ th'[p].path = th[p].path /\ th'[p].parent = th[p].parent
        /\ th'[p].ok = th[p].ok /\ th'[p].fail = th[p].fail /\ th'[p].then = "endop" /\ th'[p].puts = <<s, q>>
        /\ th'[p].ip = 0 /\ th'[p].dp = th[p].dp /\ th'[p].tgt = 0 /\ th'[p].inum = th[p].inum
    BY <1>3, <1>4 DEF \oplus, Fields
  <1>7. /\ th[p].at = "linkdp" /\ th[p].puts = <<>> /\ Eff(th[p]) = "linkdp" /\ cwd[p] # 0
        /\ Variables(th[p]) /\ Continues(th[p]) /\ Asked(th[p]) /\ \A x \in Slot : ~Frees(th[p], x)
        /\ Held1(p, "put1") = 0 /\ Held1(p, "put2") = 0
        /\ th[p].tgt # 0 <=> th[p].fail = "linkbad"
        /\ th[p].ip # 0 /\ th[p].dp = 0
    <2>1. th[p].at = "linkdp" /\ th[p].at \notin Putting
      BY DEF Locks, At, Locks, Putting
    <2> QED BY <2>1, Standing DEF HasIp, HasDp
  <1>8. /\ itable \in Table /\ Coherent(itable, dinode) /\ 0 \notin Slot
        /\ \A x \in Slot : itable[x].ref \in Nat /\ itable[x].inum \in Inum /\ itable[x].d \in Inode
        /\ th[p].ip \in Slot /\ itable[th[p].ip].ref > 0
    BY <1>7, InUse, Sizes DEF Slot
  <1>9. /\ itable' \in Table /\ Coherent(itable', dinode') /\ KeptIn(itable', p)
        /\ \A x \in Slot : itable'[x].ref = itable[x].ref
        /\ dinode' \in [Inum -> Inode] /\ used' \subseteq Block /\ BlockInv'
        /\ \A i \in Inum : dinode'[i].type = "none" => dinode[i].type = "none"
    <2>1. PICK t : t = Unlock(Ilock(p, s), s)
      OBVIOUS
    <2>2. CanLock(s)
      BY <1>1 DEF Locks
    <2>3. /\ t \in Table /\ Coherent(t, dinode) /\ KeptIn(t, p) /\ (\A x \in Slot : t[x].ref = itable[x].ref)
          /\ t[s].lock = None /\ t[s].valid /\ t[s].d = Loaded(s) /\ itable[s].lock = None
      BY <1>1, <1>8, <2>1, <2>2, Peeked
    <2>4. /\ t \in Table /\ Coherent(t, dinode) /\ KeptIn(t, p) /\ (\A x \in Slot : t[x].ref = itable[x].ref)
          /\ t[s].valid /\ t[s].d = Loaded(s)
      BY <2>3
    <2>5. /\ Iupdate(t, s, d) /\ d.type = t[s].d.type /\ d.addrs = t[s].d.addrs \cup new /\ itable[s].lock = None
          /\ used' = used \cup new /\ new \subseteq Block \ used
      BY <1>1, <2>1, <2>3
    <2>6. /\ t \in Table /\ KeptIn(t, p) /\ Coherent(t, dinode) /\ t[s].valid /\ itable[s].lock \in {None, p}
          /\ s \in Slot /\ itable[s].ref > 0 /\ (\A x \in Slot : t[x].ref = itable[x].ref)
          /\ new \subseteq Block \ used /\ used' = used \cup new
          /\ Iupdate(t, s, d) /\ d.type = t[s].d.type /\ d.addrs = t[s].d.addrs \cup new
      BY <1>1, <1>7, <1>8, <2>4, <2>5
    <2>7. /\ itable' \in Table /\ Coherent(itable', dinode') /\ KeptIn(itable', p)
          /\ \A x \in Slot \ {s} : itable'[x] = t[x]
          /\ \A x \in Slot : itable'[x].ref = itable[x].ref
          /\ itable'[s].lock = t[s].lock /\ itable'[s].valid
          /\ dinode' \in [Inum -> Inode] /\ used' \subseteq Block /\ BlockInv'
          /\ \A i \in Inum : dinode'[i].type = "none" => dinode[i].type = "none"
      BY <2>6, Written
    <2> QED BY <2>7
  <1>10. th[p].fail = "linkbad" /\ th[p].tgt # 0 /\ th[p].tgt \in Slot
    BY <1>7, InUse DEF Continues
  <1>11. th'[p] \in Local
    <2>1. "endop" \in Where /\ "iput" \in Putting /\ 0 \in 0 .. NINODE /\ <<s, q>> \in Seq(Slot)
      BY <1>1, <1>8, <1>10, Sizes DEF Where, Putting
    <2> QED BY <1>2, <1>5, <1>6, <2>1, OfLocal, InLocal
  <1>12. Eff(th'[p]) = "endop" /\ Len(th'[p].puts) = 2 /\ (th'[p].puts # <<>> <=> 2 > 0)
    BY <1>6, <1>7 DEF Eff
  <1>13. PathInv(p)'
    <2>1. Variables(th'[p])
      BY <1>6, <1>7, <1>8, <1>9, <1>12, <1>10 DEF Variables, Putting, HasIp, HasDp, Where
    <2>2. Continues(th'[p])
      BY <1>6, <1>7, <1>12 DEF Continues, Linking, Failing
    <2>3. Asked(th'[p])
      BY <1>6, <1>7, <1>12 DEF Asked, Serves, Opening, Creating, Naming
    <2> QED BY <2>1, <2>2, <2>3 DEF PathInv
  <1>14. LockInv(p)'
    <2>1. \A x \in Slot : ~Frees(th'[p], x)
      BY <1>6, <1>10 DEF Frees, HasIp, HasDp
    <2>2. \A x \in Slot : ~KeepsLocked(th'[p], x)
      BY <1>6, <1>8, <1>9, <1>12 DEF KeepsLocked, Keeping, HasDp
    <2> QED BY <1>2, <2>1, <2>2, LocksStep
  <1>15. UserInv(p)'
    BY <1>6, <1>7 DEF UserInv, files, Locks
  <1>16. RefInv'
    <2>1. /\ Held1(p, "ip") = s /\ Held1(p, "ip")' = 0 /\ Held1(p, "tgt") = q /\ Held1(p, "tgt")' = 0
         /\ Held1(p, "put1") = 0 /\ Held1(p, "put1")' = s /\ Held1(p, "put2") = 0 /\ Held1(p, "put2")' = q
      BY <1>6, <1>7, <1>12, <1>1 DEF Held1
    <2>2. \A u \in LocalVar \ {"ip", "tgt", "put1", "put2"} : Held1(p, u)' = Held1(p, u)
      BY <1>6, <1>7, <1>12 DEF Held1, LocalVar, files
    <2>3. "ip" \in LocalVar /\ "tgt" \in LocalVar /\ "put1" \in LocalVar /\ "put2" \in LocalVar /\ "ip" # "tgt" /\ "ip" # "put1" /\ "ip" # "put2" /\ "tgt" # "put1" /\ "tgt" # "put2" /\ "put1" # "put2"
      BY DEF LocalVar
    <2>4. \A x \in Slot : itable'[x].ref = itable[x].ref - One(Held1(p, "ip"), x) + One(Held1(p, "ip")', x)
                                             - One(Held1(p, "tgt"), x) + One(Held1(p, "tgt")', x)
                                             - One(Held1(p, "put1"), x) + One(Held1(p, "put1")', x)
                                             - One(Held1(p, "put2"), x) + One(Held1(p, "put2")', x)
      <3>1. ASSUME NEW x \in Slot, NEW n, n = itable[x].ref
            PROVE  itable'[x].ref = n - One(Held1(p, "ip"), x) + One(Held1(p, "ip")', x)
                                             - One(Held1(p, "tgt"), x) + One(Held1(p, "tgt")', x)
                                             - One(Held1(p, "put1"), x) + One(Held1(p, "put1")', x)
                                             - One(Held1(p, "put2"), x) + One(Held1(p, "put2")', x)
        <4>1. One(0, x) = 0 /\ (\A y : One(y, x) \in Int) /\ n \in Int
          BY <1>8, <3>1 DEF One
        <4>2. itable'[x].ref = n
          BY <1>9, <3>1
        <4> QED BY <2>1, <4>1, <4>2
      <3> QED BY <3>1
    <2>5. RefInv /\ UNCHANGED ftable /\ \A x \in Proc \ {p} : th'[x] = th[x] /\ cwd'[x] = cwd[x]
      BY <1>4 DEF IInv, files
    <2> QED BY <2>2, <2>3, <2>4, <2>5, RefFour
  <1>17. ncalls' \in 0 .. MaxCalls
    BY <1>2 DEF TypeOK, Locks
  <1> QED
    BY <1>4, <1>9, <1>11, <1>13, <1>14, <1>15, <1>16, <1>17, <1>10, DiskStep DEF Locks

\* sys_link() in the directory of the new name.
LEMMA LinkDpStep ==
  ASSUME IInv, NEW p \in Proc, LinkDp(p)
  PROVE  IInv'
  <1>1. /\ th[p].at = "linkdp" /\ th[p].puts = <<>> /\ Eff(th[p]) = "linkdp" /\ cwd[p] # 0
        /\ Variables(th[p]) /\ Continues(th[p]) /\ Asked(th[p])
        /\ th[p].tgt # 0 <=> th[p].fail = "linkbad"
        /\ th[p].ip # 0
    <2>1. th[p].at = "linkdp" /\ th[p].at \notin Putting
      BY DEF LinkDp, At, Locks, Putting
    <2> QED BY <2>1, Standing DEF HasIp, HasDp
  <1>2. /\ itable \in Table /\ Coherent(itable, dinode) /\ 0 \notin Slot
        /\ \A x \in Slot : itable[x].ref \in Nat /\ itable[x].inum \in Inum /\ itable[x].d \in Inode
        /\ th[p].ip \in Slot /\ itable[th[p].ip].ref > 0
    BY <1>1, InUse, Sizes DEF Slot
  <1>3. PICK s \in Slot : s = th[p].ip
    BY <1>2
  <1>4. PICK t, i : t = Ilock(p, s) /\ i = Found(p)
    OBVIOUS
  <1>5. UNCHANGED <<files, ncalls>> /\ Locks(p, "linkdp")
    BY DEF LinkDp
  <1>6. ASSUME GiveUp(p, s, "linkbad"), UNCHANGED <<disk, files, ncalls, lost>> PROVE IInv'
    <2>1. PICK w : w = "linkbad" /\ th[p].fail = "linkbad"
      BY <1>1 DEF Continues, Failing
    <2>2. th[p].at \in HasIp \ {"writei", "opentrunc"} /\ CanLock(s)
      BY <1>1, <1>3 DEF HasIp, LinkDp, Locks
    <2>3. w = "dropdp" <=> th[p].at \in HasDp
      BY <1>1, <2>1 DEF HasDp
    <2>4. w = "endop" => th[p].fail # "linkbad"
      BY <1>1, <2>1 DEF Continues, Linking
    <2>5. w = "linkbad" => th[p].fail = "linkbad"
      BY <1>1, <2>1 DEF Continues
    <2>6. w = "dropdp" => th[p].at \in Failing
      BY <1>1, <2>1 DEF Failing
    <2>7. w \in {"endop", "dropdp", "linkbad"} /\ GiveUp(p, s, w)
      BY <1>6, <2>1
    <2> QED BY <1>6, <1>1, <1>3, <2>2, <2>3, <2>4, <2>5, <2>6, <2>7, GiveUpStep
  <1>7. ASSUME i # 0, HasEntry(t, i), itable' = Iget(t, i),
               PutThen(p, <<EntryFor(t, i)>>, "dropdp", [dp |-> s, ip |-> 0]), UNCHANGED <<disk, lost>>
        PROVE  IInv'
    <2>1. i \in Inum
      BY <1>1, <1>3, <1>4, <1>7, FoundIsNumber DEF Naming
    <2> QED BY <1>3, <1>4, <1>5, <1>7, <2>1, LinkFoundStep
  <1>8. ASSUME Dirlink(t, s, LastOf(th[p].path), itable[th[p].tgt].inum, 0),
               PutThen(p, <<s, th[p].tgt>>, "endop", [ip |-> 0, tgt |-> 0])
        PROVE  IInv'
    <2>1. CanLock(s)
      BY <1>3, <1>5 DEF Locks
    <2>2. t \in Table /\ t[s].d = Loaded(s)
      BY <1>2, <1>3, <1>4, <2>1, Entered DEF Like
    <2>3. LastOf(th[p].path) \in Name
      BY <1>1, <1>2, FoundIsNumber DEF Naming
    <2>4. itable[th[p].tgt].inum \in Inum
      <3>1. th[p].tgt # 0
        BY <1>1 DEF Continues
      <3>2. th[p].tgt \in Slot
        BY <3>1, InUse
      <3> QED BY <1>2, <3>2
    <2>5. 0 \in {0, 1}
      OBVIOUS
    <2>6. /\ dir' \in [Inum -> [Name -> 0 .. NINODES]] /\ lost' \subseteq Inum
          /\ Writes(t, s)
      BY <1>8, <2>2, <2>3, <2>4, <2>5, DirlinkFacts
    <2> QED BY <1>3, <1>4, <1>5, <1>8, <2>2, <2>6, LinkNewStep DEF Writes
  <1> QED
    BY <1>3, <1>4, <1>5, <1>6, <1>7, <1>8 DEF LinkDp
-----------------------------------------------------------------------------
(* iunlockput() *)

\* A path lets go of its inode.
LEMMA DropIpStep1 ==
  ASSUME IInv, NEW p \in Proc, At(p, "dropip"), itable' = Unlock(itable, th[p].ip),
         PutThen(p, <<th[p].ip>>, "endop", [ip |-> 0]), UNCHANGED <<disk, files, ncalls, lost>>
  PROVE  IInv'
  <1>1. PICK s : s = th[p].ip
    OBVIOUS
  <1>2. TypeOK /\ PathInv(p) /\ UserInv(p) /\ LockInv(p) /\ th[p] \in Local
    BY DEF IInv, TypeOK
  <1>3. PICK r : r = [ip |-> 0] \oplus [at |-> "iput", puts |-> <<s>>, then |-> "endop"]
    OBVIOUS
  <1>4. /\ th'[p] = r \oplus th[p] /\ \A q \in Proc \ {p} : th'[q] = th[q]
        /\ th[p] = [f \in Fields |-> th[p][f]]
        /\ th'[p] \in Local => th' \in [Proc -> Local]
    BY <1>2, <1>3, <1>1, Goes DEF PutThen
  <1>5. th'[p] = [f \in Fields |-> th'[p][f]]
    BY <1>3, <1>4 DEF \oplus, Fields
  <1>6. /\ th'[p].at = "iput" /\ th'[p].call = th[p].call /\ th'[p].path = th[p].path /\ th'[p].parent = th[p].parent
        /\ th'[p].ok = th[p].ok /\ th'[p].fail = th[p].fail /\ th'[p].then = "endop" /\ th'[p].puts = <<s>>
        /\ th'[p].ip = 0 /\ th'[p].dp = th[p].dp /\ th'[p].tgt = th[p].tgt /\ th'[p].inum = th[p].inum
    BY <1>3, <1>4 DEF \oplus, Fields
  <1>7. /\ th[p].at = "dropip" /\ th[p].puts = <<>> /\ Eff(th[p]) = "dropip" /\ cwd[p] # 0
        /\ Variables(th[p]) /\ Continues(th[p]) /\ Asked(th[p]) /\ \A x \in Slot : ~Frees(th[p], x)
        /\ Held1(p, "put1") = 0 /\ Held1(p, "put2") = 0
        /\ th[p].tgt # 0 <=> th[p].fail = "linkbad"
        /\ th[p].ip # 0 /\ th[p].dp = 0
    <2>1. th[p].at = "dropip" /\ th[p].at \notin Putting
      BY DEF At, At, Locks, Putting
    <2> QED BY <2>1, Standing DEF HasIp, HasDp
  <1>8. /\ itable \in Table /\ Coherent(itable, dinode) /\ 0 \notin Slot
        /\ \A x \in Slot : itable[x].ref \in Nat /\ itable[x].inum \in Inum /\ itable[x].d \in Inode
        /\ th[p].ip \in Slot /\ itable[th[p].ip].ref > 0
    BY <1>7, InUse, Sizes DEF Slot
  <1>9. /\ itable' \in Table /\ Coherent(itable', dinode) /\ KeptIn(itable', p)
        /\ \A x \in Slot : itable'[x].ref = itable[x].ref
    <2>1. itable[s].lock = p /\ itable[s].valid
      <3>1. KeepsLocked(th[p], s)
        BY <1>1, <1>7 DEF KeepsLocked, Keeping
      <3> QED BY <1>1, <1>2, <1>8, <3>1 DEF LockInv
    <2>2. itable' = Unlock(itable, s)
      BY <1>1
    <2> QED BY <1>1, <1>8, <2>1, <2>2, LetGo DEF Like
  <1>10. th[p].fail # "linkbad"
    BY <1>7 DEF Continues, Linking
  <1>11. th'[p] \in Local
    <2>1. "endop" \in Where /\ "iput" \in Putting /\ 0 \in 0 .. NINODE /\ <<s>> \in Seq(Slot)
      BY <1>1, <1>8, Sizes DEF Where, Putting, HasDp
    <2> QED BY <1>2, <1>5, <1>6, <2>1, OfLocal, InLocal
  <1>12. Eff(th'[p]) = "endop" /\ Len(th'[p].puts) = 1 /\ (th'[p].puts # <<>> <=> 1 > 0)
    BY <1>6, <1>7 DEF Eff
  <1>13. PathInv(p)'
    <2>1. Variables(th'[p])
      BY <1>6, <1>7, <1>8, <1>9, <1>12, <1>10 DEF Variables, Putting, HasIp, HasDp, Where
    <2>2. Continues(th'[p])
      BY <1>6, <1>7, <1>12 DEF Continues, Linking, Failing
    <2>3. Asked(th'[p])
      BY <1>6, <1>7, <1>12 DEF Asked, Serves, Opening, Creating, Naming
    <2> QED BY <2>1, <2>2, <2>3 DEF PathInv
  <1>14. LockInv(p)'
    <2>1. \A x \in Slot : ~Frees(th'[p], x)
      BY <1>6, <1>10 DEF Frees, HasIp, HasDp
    <2>2. \A x \in Slot : ~KeepsLocked(th'[p], x)
      BY <1>6, <1>8, <1>9, <1>12 DEF KeepsLocked, Keeping, HasDp
    <2> QED BY <1>2, <2>1, <2>2, LocksStep
  <1>15. UserInv(p)'
    BY <1>6, <1>7 DEF UserInv, files, At
  <1>16. RefInv'
    <2>1. Held1(p, "ip") = s /\ Held1(p, "ip")' = 0 /\ Held1(p, "put1") = 0 /\ Held1(p, "put1")' = s
      BY <1>6, <1>7, <1>12, <1>1 DEF Held1
    <2>2. \A u \in LocalVar \ {"ip", "put1"} : Held1(p, u)' = Held1(p, u)
      BY <1>6, <1>7, <1>12 DEF Held1, LocalVar, files
    <2>3. "ip" \in LocalVar /\ "put1" \in LocalVar /\ "ip" # "put1"
      BY DEF LocalVar
    <2>4. \A x \in Slot : itable'[x].ref = itable[x].ref - One(Held1(p, "ip"), x) + One(Held1(p, "ip")', x)
                                             - One(Held1(p, "put1"), x) + One(Held1(p, "put1")', x)
      BY <1>8, <1>9, <2>1 DEF One
    <2> QED BY <1>4, <2>2, <2>3, <2>4, RefStep DEF IInv, files
  <1>17. ncalls' \in 0 .. MaxCalls
    BY <1>2 DEF TypeOK, At
  <1> QED
    BY <1>4, <1>9, <1>11, <1>13, <1>14, <1>15, <1>16, <1>17, <1>10, TableStep DEF At

\* A path lets go of its directory.
LEMMA DropDpStep1 ==
  ASSUME IInv, NEW p \in Proc, At(p, "dropdp"), itable' = Unlock(itable, th[p].dp),
         NEW w \in {"endop", "linkbad"}, w = th[p].fail,
         PutThen(p, <<th[p].dp>>, w, [dp |-> 0]), UNCHANGED <<disk, files, ncalls, lost>>
  PROVE  IInv'
  <1>1. PICK s : s = th[p].dp
    OBVIOUS
  <1>2. TypeOK /\ PathInv(p) /\ UserInv(p) /\ LockInv(p) /\ th[p] \in Local
    BY DEF IInv, TypeOK
  <1>3. PICK r : r = [dp |-> 0] \oplus [at |-> "iput", puts |-> <<s>>, then |-> w]
    OBVIOUS
  <1>4. /\ th'[p] = r \oplus th[p] /\ \A q \in Proc \ {p} : th'[q] = th[q]
        /\ th[p] = [f \in Fields |-> th[p][f]]
        /\ th'[p] \in Local => th' \in [Proc -> Local]
    BY <1>2, <1>3, <1>1, Goes DEF PutThen
  <1>5. th'[p] = [f \in Fields |-> th'[p][f]]
    BY <1>3, <1>4 DEF \oplus, Fields
  <1>6. /\ th'[p].at = "iput" /\ th'[p].call = th[p].call /\ th'[p].path = th[p].path /\ th'[p].parent = th[p].parent
        /\ th'[p].ok = th[p].ok /\ th'[p].fail = th[p].fail /\ th'[p].then = w /\ th'[p].puts = <<s>>
        /\ th'[p].ip = th[p].ip /\ th'[p].dp = 0 /\ th'[p].tgt = th[p].tgt /\ th'[p].inum = th[p].inum
    BY <1>3, <1>4 DEF \oplus, Fields
  <1>7. /\ th[p].at = "dropdp" /\ th[p].puts = <<>> /\ Eff(th[p]) = "dropdp" /\ cwd[p] # 0
        /\ Variables(th[p]) /\ Continues(th[p]) /\ Asked(th[p]) /\ \A x \in Slot : ~Frees(th[p], x)
        /\ Held1(p, "put1") = 0 /\ Held1(p, "put2") = 0
        /\ th[p].tgt # 0 <=> th[p].fail = "linkbad"
        /\ th[p].ip = 0 /\ th[p].dp # 0
    <2>1. th[p].at = "dropdp" /\ th[p].at \notin Putting
      BY DEF At, At, Locks, Putting
    <2> QED BY <2>1, Standing DEF HasIp, HasDp
  <1>8. /\ itable \in Table /\ Coherent(itable, dinode) /\ 0 \notin Slot
        /\ \A x \in Slot : itable[x].ref \in Nat /\ itable[x].inum \in Inum /\ itable[x].d \in Inode
        /\ th[p].dp \in Slot /\ itable[th[p].dp].ref > 0
    BY <1>7, InUse, Sizes DEF Slot
  <1>9. /\ itable' \in Table /\ Coherent(itable', dinode) /\ KeptIn(itable', p)
        /\ \A x \in Slot : itable'[x].ref = itable[x].ref
    <2>1. itable[s].lock = p /\ itable[s].valid
      <3>1. KeepsLocked(th[p], s)
        BY <1>1, <1>7 DEF KeepsLocked, HasDp
      <3> QED BY <1>1, <1>2, <1>8, <3>1 DEF LockInv
    <2>2. itable' = Unlock(itable, s)
      BY <1>1
    <2> QED BY <1>1, <1>8, <2>1, <2>2, LetGo DEF Like
  <1>10. th'[p] \in Local
    <2>1. w \in Where /\ "iput" \in Putting /\ 0 \in 0 .. NINODE /\ <<s>> \in Seq(Slot)
      BY <1>1, <1>8, Sizes DEF Where, Putting, HasDp
    <2> QED BY <1>2, <1>5, <1>6, <2>1, OfLocal, InLocal
  <1>11. Eff(th'[p]) = w /\ Len(th'[p].puts) = 1 /\ (th'[p].puts # <<>> <=> 1 > 0)
    BY <1>6, <1>7 DEF Eff
  <1>12. PathInv(p)'
    <2>1. Variables(th'[p])
      BY <1>6, <1>7, <1>8, <1>9, <1>11 DEF Variables, Putting, HasIp, HasDp, Where
    <2>2. Continues(th'[p])
      BY <1>6, <1>7, <1>11 DEF Continues, Linking, Failing
    <2>3. Asked(th'[p])
      BY <1>6, <1>7, <1>11 DEF Asked, Serves, Opening, Creating, Naming
    <2> QED BY <2>1, <2>2, <2>3 DEF PathInv
  <1>13. LockInv(p)'
    <2>1. \A x \in Slot : ~Frees(th'[p], x)
      BY <1>6 DEF Frees
    <2>2. \A x \in Slot : ~KeepsLocked(th'[p], x)
      BY <1>6, <1>8, <1>9, <1>11 DEF KeepsLocked, Keeping, HasDp
    <2> QED BY <1>2, <2>1, <2>2, LocksStep
  <1>14. UserInv(p)'
    BY <1>6, <1>7 DEF UserInv, files, At
  <1>15. RefInv'
    <2>1. Held1(p, "dp") = s /\ Held1(p, "dp")' = 0 /\ Held1(p, "put1") = 0 /\ Held1(p, "put1")' = s
      BY <1>6, <1>7, <1>11, <1>1 DEF Held1
    <2>2. \A u \in LocalVar \ {"dp", "put1"} : Held1(p, u)' = Held1(p, u)
      BY <1>6, <1>7, <1>11 DEF Held1, LocalVar, files
    <2>3. "dp" \in LocalVar /\ "put1" \in LocalVar /\ "dp" # "put1"
      BY DEF LocalVar
    <2>4. \A x \in Slot : itable'[x].ref = itable[x].ref - One(Held1(p, "dp"), x) + One(Held1(p, "dp")', x)
                                             - One(Held1(p, "put1"), x) + One(Held1(p, "put1")', x)
      BY <1>8, <1>9, <2>1 DEF One
    <2> QED BY <1>4, <2>2, <2>3, <2>4, RefStep DEF IInv, files
  <1>16. ncalls' \in 0 .. MaxCalls
    BY <1>2 DEF TypeOK, At
  <1> QED
    BY <1>4, <1>9, <1>10, <1>12, <1>13, <1>14, <1>15, <1>16, TableStep DEF At

\* iunlockput() of the inode.
LEMMA DropIpStep ==
  ASSUME IInv, NEW p \in Proc, DropIp(p)
  PROVE  IInv'
  BY DropIpStep1 DEF DropIp

\* iunlockput() of the directory.
LEMMA DropDpStep ==
  ASSUME IInv, NEW p \in Proc, DropDp(p)
  PROVE  IInv'
  <1>1. th[p].at = "dropdp" /\ th[p].at \notin Putting
    BY DEF DropDp, At, Putting
  <1>2. PICK w \in {"endop", "linkbad"} : w = th[p].fail
    BY <1>1, Standing DEF Continues, Failing
  <1> QED
    BY <1>2, DropDpStep1 DEF DropDp
-----------------------------------------------------------------------------
(* end_op(), and steps that change the files *)

\* Back in user space, or in exit(), a process holds its directory and nothing else.
LEMMA EndOpFacts ==
  ASSUME IInv, NEW p \in Proc, Go(p, EndOp(p))
  PROVE  /\ \A q \in Proc \ {p} : th'[q] = th[q]
         /\ th' \in [Proc -> Local] /\ PathInv(p)'
         /\ th'[p].at \in {"idle", "exit"} /\ (cwd[p] = 0 => th'[p].at = "idle") /\ Eff(th'[p]) = th'[p].at
         /\ \A x \in Slot : ~KeepsLocked(th'[p], x) /\ ~Frees(th'[p], x)
         /\ \A u \in LocalVar \ {"cwd"} : Held1(p, u)' = 0
  <1>1. TypeOK /\ th[p] \in Local
    BY DEF IInv, TypeOK
  <1>2. PICK w \in {"idle", "exit"} : w = (IF th[p].call.op = "exit" /\ cwd[p] # 0 THEN "exit" ELSE "idle")
    OBVIOUS
  <1>3. PICK r : r = EndOp(p)
    OBVIOUS
  <1>4. /\ th'[p] = r \oplus th[p] /\ \A q \in Proc \ {p} : th'[q] = th[q]
        /\ th[p] = [f \in Fields |-> th[p][f]]
        /\ th'[p] \in Local => th' \in [Proc -> Local]
    BY <1>1, <1>3, Goes
  <1>5. /\ DOMAIN r = Fields
        /\ r.at = w /\ r.call = NoCall /\ r.path = <<>> /\ r.parent = FALSE
        /\ r.ok = "none" /\ r.fail = "none" /\ r.then = "none" /\ r.puts = <<>>
        /\ r.ip = 0 /\ r.dp = 0 /\ r.tgt = 0 /\ r.inum = 0
    <2>1. PICK a : a = [at |-> w]
      OBVIOUS
    <2>2. DOMAIN a = {"at"} /\ a.at = w
      BY <2>1
    <2>3. r = a \oplus NoPath
      BY <1>2, <1>3, <2>1 DEF EndOp
    <2>4. /\ DOMAIN NoPath = Fields \ {"at"} /\ "at" \notin DOMAIN NoPath
          /\ NoPath.call = NoCall /\ NoPath.path = <<>> /\ NoPath.parent = FALSE
          /\ NoPath.ok = "none" /\ NoPath.fail = "none" /\ NoPath.then = "none" /\ NoPath.puts = <<>>
          /\ NoPath.ip = 0 /\ NoPath.dp = 0 /\ NoPath.tgt = 0 /\ NoPath.inum = 0
      BY DEF NoPath, Fields
    <2> HIDE DEF NoPath
    <2>5. r = [x \in Fields |-> IF x = "at" THEN w ELSE NoPath[x]]
      BY <2>2, <2>3, <2>4 DEF \oplus, Fields
    <2> QED BY <2>4, <2>5 DEF Fields
  <1>6. /\ th'[p] = [f \in Fields |-> th'[p][f]]
        /\ th'[p] = [f \in Fields |-> r[f]]
    BY <1>4, <1>5 DEF \oplus
  <1>7. /\ th'[p].at = w /\ th'[p].call = NoCall /\ th'[p].path = <<>> /\ th'[p].parent = FALSE
        /\ th'[p].ok = "none" /\ th'[p].fail = "none" /\ th'[p].then = "none" /\ th'[p].puts = <<>>
        /\ th'[p].ip = 0 /\ th'[p].dp = 0 /\ th'[p].tgt = 0 /\ th'[p].inum = 0
    BY <1>5, <1>6 DEF Fields
  <1>8. th'[p] \in Local
    <2>1. /\ w \in Where /\ NoCall \in AnyCall /\ <<>> \in Seq(Name \cup {"/"}) /\ <<>> \in Seq(Slot)
          /\ 0 \in 0 .. NINODE /\ 0 \in 0 .. NINODES
      BY Sizes DEF Where, AnyCall
    <2> QED BY <1>6, <1>7, <2>1, InLocal
  <1>9. Eff(th'[p]) = w
    BY <1>7 DEF Eff
  <1>10. PathInv(p)'
    <2>1. Variables(th'[p])
      BY <1>7, <1>9 DEF Variables, Putting, HasIp, HasDp, Where
    <2>2. Continues(th'[p])
      BY <1>7, <1>9 DEF Continues, Failing
    <2>3. Asked(th'[p])
      BY <1>7, <1>9 DEF Asked, Serves, Opening, Creating, Naming
    <2> QED BY <2>1, <2>2, <2>3 DEF PathInv
  <1>11. \A x \in Slot : ~KeepsLocked(th'[p], x) /\ ~Frees(th'[p], x)
    BY <1>7, <1>9 DEF KeepsLocked, Frees, Keeping, HasDp
  <1>12. \A u \in LocalVar \ {"cwd"} : Held1(p, u)' = 0
    BY <1>7 DEF Held1, LocalVar
  <1> QED
    BY <1>2, <1>4, <1>7, <1>8, <1>9, <1>10, <1>11, <1>12

\* Only inodes in use before, and those p has at hand, are in use afterwards.
UsesOnly(p) ==
  \A s \in Slot : OpenOn(s)' # {} \/ WorkingIn(s)' # {} =>
    \/ OpenOn(s) # {} \/ WorkingIn(s) # {}
    \/ itable[s].ref > 0 /\ itable[s].lock \in {None, p} /\ dinode[itable[s].inum].type # "none"

\* A step that changes files, and not the disk: what is left to show.
LEMMA FilesStep ==
  ASSUME IInv, NEW p \in Proc, \A q \in Proc \ {p} : th'[q] = th[q], th' \in [Proc -> Local],
         UNCHANGED <<disk, lost>>, ncalls' \in 0 .. MaxCalls,
         ftable' \in [File -> OpenFileEntry], ofile' \in [Proc -> [Fd -> 0 .. NFILE]], cwd' \in [Proc -> 0 .. NINODE],
         itable' \in Table, Coherent(itable', dinode), KeptIn(itable', p),
         PathInv(p)', LockInv(p)', \A q \in Proc : UserInv(q)', RefInv', FileInv', UsesOnly(p)
  PROVE  IInv'
  <1>1. dinode' = dinode /\ dir' = dir /\ used' = used
    BY DEF disk
  <1>2. TypeOK'
    BY <1>1 DEF IInv, TypeOK, Table
  <1>3. CacheInv'
    BY <1>1 DEF Coherent, CacheInv
  <1>4. BlockInv'
    BY <1>1, BlocksStay DEF IInv
  <1>5. \A q \in Proc : PathInv(q)'
    BY DEF IInv, PathInv
  <1>6. \A q \in Proc : LockInv(q)'
    <2>1. ASSUME NEW q \in Proc \ {p}, NEW s \in Slot, Frees(th[q], s)
          PROVE  OpenOn(s)' = {} /\ WorkingIn(s)' = {}
      <3>1. itable[s].lock = q /\ OpenOn(s) = {} /\ WorkingIn(s) = {}
        BY <2>1 DEF IInv, LockInv
      <3>2. q \notin {None, p}
        BY Sizes
      <3> QED BY <3>1, <3>2 DEF UsesOnly
    <2>2. \A q \in Proc \ {p} : LockInv(q)'
      BY <2>1, OthersLocks
    <2> QED BY <2>2
  <1>7. InUseIsAllocated'
    <2> SUFFICES ASSUME NEW s \in Slot, OpenOn(s)' # {} \/ WorkingIn(s)' # {}
                 PROVE  dinode'[itable'[s].inum].type # "none"
      BY DEF InUseIsAllocated
    <2>1. itable[s].ref > 0 /\ dinode[itable[s].inum].type # "none"
      BY VarsAreCounted DEF IInv, InUseIsAllocated, UsesOnly
    <2> QED BY <1>1, <2>1 DEF KeptIn
  <1> QED
    BY <1>2, <1>3, <1>4, <1>5, <1>6, <1>7 DEF IInv

\* filewrite() begins.
LEMMA WriteStep ==
  ASSUME IInv, NEW p \in Proc, NEW fd \in Fd, Write(p, fd)
  PROVE  IInv'
  <1>1. PICK s : s = ftable[ofile[p][fd]].ip
    OBVIOUS
  <1>2. TypeOK /\ PathInv(p) /\ UserInv(p) /\ th[p] \in Local
    BY DEF IInv, TypeOK
  <1>3. PICK r : r = [at |-> "writei", ip |-> s]
    OBVIOUS
  <1>4. /\ th'[p] = r \oplus th[p] /\ \A q \in Proc \ {p} : th'[q] = th[q]
        /\ th[p] = [f \in Fields |-> th[p][f]]
        /\ th'[p] \in Local => th' \in [Proc -> Local]
    BY <1>1, <1>2, <1>3, Goes DEF Write
  <1>5. th'[p] = [f \in Fields |-> th'[p][f]]
    BY <1>3, <1>4 DEF \oplus, Fields
  <1>6. /\ th'[p].at = "writei" /\ th'[p].call = th[p].call /\ th'[p].path = th[p].path /\ th'[p].parent = th[p].parent
        /\ th'[p].ok = th[p].ok /\ th'[p].fail = th[p].fail /\ th'[p].then = th[p].then /\ th'[p].puts = th[p].puts
        /\ th'[p].ip = s /\ th'[p].dp = th[p].dp /\ th'[p].tgt = th[p].tgt /\ th'[p].inum = th[p].inum
    BY <1>3, <1>4 DEF \oplus, Fields
  <1>7. th[p].at = "idle" /\ cwd[p] # 0
    BY DEF Write, Idle, At
  <1>8. /\ th[p].puts = <<>> /\ th[p].ip = 0 /\ th[p].dp = 0 /\ th[p].tgt = 0 /\ th[p].fail # "linkbad"
        /\ Variables(th[p])
    BY <1>2, <1>7 DEF PathInv, Variables, Continues, Eff, Putting, HasIp, HasDp, Linking
  <1>9. s \in Slot /\ s # 0 /\ ofile[p][fd] # 0
    <2>1. ofile[p][fd] # 0
      BY DEF Write
    <2> QED BY <1>1, <1>2, <2>1, OpenFd, Sizes DEF IInv, Slot
  <1>10. th'[p] \in Local
    <2>1. s \in 0 .. NINODE /\ "writei" \in Where
      BY <1>9, Sizes DEF Slot, Where, HasIp
    <2> QED BY <1>2, <1>5, <1>6, <2>1, OfLocal, InLocal
  <1>11. Eff(th'[p]) = "writei"
    BY <1>6, <1>8 DEF Eff
  <1>12. PathInv(p)'
    <2>1. Variables(th'[p])
      BY <1>6, <1>8, <1>9, <1>11 DEF Variables, Putting, HasIp, HasDp, Where
    <2>2. Continues(th'[p])
      BY <1>6, <1>8, <1>11 DEF Continues, Failing
    <2>3. Asked(th'[p])
      BY <1>11 DEF Asked, Serves, Opening, Creating, Naming
    <2> QED BY <2>1, <2>2, <2>3 DEF PathInv
  <1>13. UserInv(p)'
    <2>1. ofile' = ofile /\ ftable' = ftable /\ cwd' = cwd
      BY DEF Write, files
    <2> QED BY <1>1, <1>6, <1>7, <1>9, <2>1 DEF UserInv
  <1>14. KeepsNoMore(p)
    BY <1>6, <1>8, <1>11 DEF KeepsNoMore, KeepsLocked, Frees, Keeping, HasDp
  <1>15. \A u \in LocalVar : Held1(p, u)' = Held1(p, u)
    BY <1>6, <1>7, <1>8 DEF Held1, Write, files
  <1>16. ncalls' \in 0 .. MaxCalls
    BY <1>2, Sizes DEF Write, Calling, TypeOK
  <1> QED
    BY <1>4, <1>10, <1>12, <1>13, <1>14, <1>15, <1>16, PathStep DEF Write

\* A step back to user space that leaves the files alone and changes what is on the disk.
LEMMA DoneStep ==
  ASSUME IInv, NEW p \in Proc, Go(p, EndOp(p)),
         UNCHANGED files, ncalls' = ncalls, dinode' \in [Inum -> Inode],
         dir' \in [Inum -> [Name -> 0 .. NINODES]], used' \subseteq Block, lost' \subseteq Inum,
         itable' \in Table, Coherent(itable', dinode'), KeptIn(itable', p), RefInv', BlockInv',
         \A i \in Inum : dinode'[i].type = "none" =>
           dinode[i].type = "none" \/ \E s \in Slot : Frees(th[p], s) /\ itable[s].inum = i
  PROVE  IInv'
  <1>1. /\ \A q \in Proc \ {p} : th'[q] = th[q]
        /\ th' \in [Proc -> Local] /\ PathInv(p)'
        /\ th'[p].at \in {"idle", "exit"} /\ (cwd[p] = 0 => th'[p].at = "idle") /\ Eff(th'[p]) = th'[p].at
        /\ \A x \in Slot : ~KeepsLocked(th'[p], x) /\ ~Frees(th'[p], x)
    BY EndOpFacts
  <1>2. UserInv(p)'
    BY <1>1 DEF IInv, UserInv, files
  <1>3. LockInv(p)'
    BY <1>1 DEF LockInv
  <1>4. ncalls' \in 0 .. MaxCalls
    BY DEF IInv, TypeOK
  <1> QED
    BY <1>1, <1>2, <1>3, <1>4, DiskStep

\* A step back to user space of a process that held its directory only.
LEMMA DoneRefs ==
  ASSUME IInv, NEW p \in Proc, Go(p, EndOp(p)), UNCHANGED <<cwd, ftable>>,
         \A u \in LocalVar \ {"cwd"} : Held1(p, u) = 0, \A s \in Slot : itable'[s].ref = itable[s].ref
  PROVE  RefInv'
  <1>1. /\ \A q \in Proc \ {p} : th'[q] = th[q]
        /\ \A u \in LocalVar \ {"cwd"} : Held1(p, u)' = 0
    BY EndOpFacts
  <1>2. \A u \in LocalVar : Held1(p, u)' = Held1(p, u)
    BY <1>1 DEF Held1, LocalVar
  <1> QED
    BY <1>1, <1>2, RefSame

\* A block of the file, perhaps a new one, is written.
LEMMA WriteIStep ==
  ASSUME IInv, NEW p \in Proc, WriteI(p)
  PROVE  IInv'
  <1>1. th[p].at = "writei" /\ th[p].at \notin Putting
    BY DEF WriteI, Locks, At, Putting
  <1>2. /\ th[p].ip # 0 /\ th[p].dp = 0 /\ th[p].tgt = 0 /\ th[p].puts = <<>>
        /\ \A x \in Slot : ~Frees(th[p], x)
    BY <1>1, Standing DEF HasIp, HasDp, Continues, Linking
  <1>3. PICK s \in Slot : s = th[p].ip /\ itable[s].ref > 0
    BY <1>2, InUse
  <1>4. CanLock(s) /\ UNCHANGED <<dir, files, ncalls, lost>> /\ Go(p, EndOp(p))
    BY <1>3 DEF WriteI, Locks
  <1>5. PICK new : new = IF Loaded(s).addrs # {} \/ used = Block THEN {} ELSE {Least(Block \ used)}
    OBVIOUS
  <1>6. new \subseteq Block \ used
    <2>1. CASE Loaded(s).addrs # {} \/ used = Block
      BY <1>5, <2>1
    <2>2. CASE ~(Loaded(s).addrs # {} \/ used = Block)
      <3>1. Block \ used # {} /\ Block \ used \subseteq Nat
        BY <2>2, Sizes DEF IInv, TypeOK
      <3>2. Least(Block \ used) \in Block \ used
        BY <3>1, LeastNatural
      <3> QED BY <1>5, <2>2, <3>2
    <2> QED BY <2>1, <2>2
  <1>7. PICK t : t = Unlock(Ilock(p, s), s)
    OBVIOUS
  <1>8. /\ t \in Table /\ Coherent(t, dinode) /\ KeptIn(t, p) /\ (\A x \in Slot : t[x].ref = itable[x].ref)
        /\ t[s].lock = None /\ t[s].valid /\ t[s].d = Loaded(s) /\ itable[s].lock = None
    BY <1>3, <1>4, <1>7, Peeked
  <1>9. Loaded(s) \in Inode
    BY <1>3, <1>4, Entered
  <1>10. PICK d : d = WithBlocks(Loaded(s), new)
    OBVIOUS
  <1>11. d \in Inode /\ d.type = t[s].d.type /\ d.addrs = t[s].d.addrs \cup new
    BY <1>6, <1>8, <1>9, <1>10 DEF Inode, WithBlocks
  <1>12. /\ Iupdate(t, s, d) /\ used' = used \cup new /\ itable[s].lock \in {None, p}
    BY <1>3, <1>5, <1>7, <1>8, <1>10 DEF WriteI
  <1>13. /\ itable' \in Table /\ Coherent(itable', dinode') /\ KeptIn(itable', p)
         /\ \A x \in Slot : itable'[x].ref = itable[x].ref
         /\ dinode' \in [Inum -> Inode] /\ used' \subseteq Block /\ BlockInv'
         /\ \A i \in Inum : dinode'[i].type = "none" => dinode[i].type = "none"
    BY <1>3, <1>6, <1>8, <1>11, <1>12, Written
  <1>14. RefInv'
    <2>1. \A u \in LocalVar \ {"cwd"} : Held1(p, u) = 0
      BY <1>1, <1>2 DEF Held1, LocalVar
    <2> QED BY <1>4, <1>13, <2>1, DoneRefs DEF files
  <1>15. dir' \in [Inum -> [Name -> 0 .. NINODES]] /\ lost' \subseteq Inum
    BY <1>4 DEF IInv, TypeOK
  <1> QED
    BY <1>4, <1>13, <1>14, <1>15, DoneStep

\* open() with O_TRUNC gives the blocks of the file back.
LEMMA OpenTruncStep ==
  ASSUME IInv, NEW p \in Proc, OpenTrunc(p)
  PROVE  IInv'
  <1>1. th[p].at = "opentrunc" /\ th[p].at \notin Putting
    BY DEF OpenTrunc, At, Putting
  <1>2. /\ th[p].ip # 0 /\ th[p].dp = 0 /\ th[p].tgt = 0 /\ th[p].puts = <<>> /\ Eff(th[p]) = "opentrunc"
        /\ \A x \in Slot : ~Frees(th[p], x)
    BY <1>1, Standing DEF HasIp, HasDp, Continues, Linking
  <1>3. PICK s \in Slot : s = th[p].ip /\ itable[s].ref > 0
    BY <1>2, InUse
  <1>4. UNCHANGED <<dir, files, ncalls, lost>> /\ Go(p, EndOp(p))
    BY DEF OpenTrunc
  <1>5. itable[s].lock = p /\ itable[s].valid
    <2>1. KeepsLocked(th[p], s)
      BY <1>2, <1>3 DEF KeepsLocked, Keeping
    <2> QED BY <2>1 DEF IInv, LockInv
  <1>6. PICK t : t = Unlock(itable, s)
    OBVIOUS
  <1>7. /\ Like(t, s) /\ Coherent(t, dinode) /\ KeptIn(t, p)
        /\ t[s].lock = None /\ t[s].valid /\ t[s].d = itable[s].d
    BY <1>5, <1>6, LetGo
  <1>8. PICK d : d = [t[s].d EXCEPT !.addrs = {}]
    OBVIOUS
  <1>9. t[s].d \in Inode /\ itable[s].d.type # "none" /\ TypeOK /\ BlockInv
    BY <1>3, <1>5, <1>7, InUse DEF IInv, CacheInv
  <1>10. d \in Inode /\ d.type # "none" /\ d.addrs = {}
    BY <1>7, <1>8, <1>9 DEF Inode
  <1>11. Iupdate(t, s, d) /\ used' = used \ t[s].d.addrs
    BY <1>3, <1>6, <1>8 DEF OpenTrunc, Trunc
  <1>12. PICK i : i = t[s].inum
    OBVIOUS
  <1>13. t \in Table /\ t[s].ref > 0
    BY <1>3, <1>7 DEF Like
  <1>14. /\ But(t, itable', s) /\ Coherent(itable', dinode') /\ i \in Inum
         /\ itable'[s].lock = t[s].lock /\ itable'[s].valid = t[s].valid /\ itable'[s].d = d
         /\ itable'[s].ref = t[s].ref /\ itable'[s].inum = t[s].inum
         /\ dinode' \in [Inum -> Inode] /\ dinode'[i] = d
         /\ \A j \in Inum \ {i} : dinode'[j] = dinode[j]
         /\ t[s].d = dinode[i]
    BY <1>7, <1>9, <1>10, <1>11, <1>12, <1>13, Iupdated
  <1>15. BlockInv'
    <2>1. /\ dinode'[i].addrs = {} /\ used' = (used \ dinode[i].addrs) \cup {}
          /\ {} \cap (used \ dinode[i].addrs) = {}
      BY <1>10, <1>11, <1>14
    <2> QED BY <1>9, <1>14, <2>1, BlocksChange
  <1>16. KeptIn(itable', p) /\ itable' \in Table /\ \A x \in Slot : itable'[x].ref = itable[x].ref
    <2>1. \A x \in Slot : itable'[x].ref = itable[x].ref /\ itable'[x].inum = itable[x].inum
      BY <1>7, <1>14 DEF But, Like
    <2>2. \A x \in Slot \ {s} : itable'[x] = itable[x]
      BY <1>7, <1>14 DEF But, Like
    <2> QED BY <1>5, <1>14, <2>1, <2>2 DEF KeptIn, But
  <1>17. \A j \in Inum : dinode'[j].type = "none" => dinode[j].type = "none"
    BY <1>10, <1>14
  <1>18. RefInv'
    <2>1. \A u \in LocalVar \ {"cwd"} : Held1(p, u) = 0
      BY <1>1, <1>2 DEF Held1, LocalVar
    <2> QED BY <1>4, <1>16, <2>1, DoneRefs DEF files
  <1>19. dir' \in [Inum -> [Name -> 0 .. NINODES]] /\ lost' \subseteq Inum /\ used' \subseteq Block
    BY <1>4, <1>9, <1>11 DEF TypeOK
  <1> QED
    BY <1>4, <1>14, <1>15, <1>16, <1>17, <1>18, <1>19, DoneStep
-----------------------------------------------------------------------------
(* sys_chdir() and sys_open() *)

\* The current directory changes.
LEMMA ChdirDirStep ==
  ASSUME IInv, NEW p \in Proc, Locks(p, "chdirip"), itable' = Unlock(Ilock(p, th[p].ip), th[p].ip), cwd' = [cwd EXCEPT ![p] = th[p].ip],
         PutThen(p, <<cwd[p]>>, "endop", [ip |-> 0]), UNCHANGED <<disk, ftable, ofile, ncalls, lost>>
  PROVE  IInv'
  <1>1. PICK s, c : s = th[p].ip /\ c = cwd[p]
    OBVIOUS
  <1>2. TypeOK /\ PathInv(p) /\ UserInv(p) /\ LockInv(p) /\ th[p] \in Local
    BY DEF IInv, TypeOK
  <1>3. PICK r : r = [ip |-> 0] \oplus [at |-> "iput", puts |-> <<c>>, then |-> "endop"]
    OBVIOUS
  <1>4. /\ th'[p] = r \oplus th[p] /\ \A q \in Proc \ {p} : th'[q] = th[q]
        /\ th[p] = [f \in Fields |-> th[p][f]]
        /\ th'[p] \in Local => th' \in [Proc -> Local]
    BY <1>2, <1>3, <1>1, Goes DEF PutThen
  <1>5. th'[p] = [f \in Fields |-> th'[p][f]]
    BY <1>3, <1>4 DEF \oplus, Fields
  <1>6. /\ th'[p].at = "iput" /\ th'[p].call = th[p].call /\ th'[p].path = th[p].path /\ th'[p].parent = th[p].parent
        /\ th'[p].ok = th[p].ok /\ th'[p].fail = th[p].fail /\ th'[p].then = "endop" /\ th'[p].puts = <<c>>
        /\ th'[p].ip = 0 /\ th'[p].dp = th[p].dp /\ th'[p].tgt = th[p].tgt /\ th'[p].inum = th[p].inum
    BY <1>3, <1>4 DEF \oplus, Fields
  <1>7. /\ th[p].at = "chdirip" /\ th[p].puts = <<>> /\ Eff(th[p]) = "chdirip" /\ cwd[p] # 0
        /\ Variables(th[p]) /\ Continues(th[p]) /\ Asked(th[p]) /\ \A x \in Slot : ~Frees(th[p], x)
        /\ Held1(p, "put1") = 0 /\ Held1(p, "put2") = 0
        /\ th[p].tgt # 0 <=> th[p].fail = "linkbad"
        /\ th[p].ip # 0 /\ th[p].dp = 0
    <2>1. th[p].at = "chdirip" /\ th[p].at \notin Putting
      BY DEF Locks, At, Locks, Putting
    <2> QED BY <2>1, Standing DEF HasIp, HasDp
  <1>8. /\ itable \in Table /\ Coherent(itable, dinode) /\ 0 \notin Slot
        /\ \A x \in Slot : itable[x].ref \in Nat /\ itable[x].inum \in Inum /\ itable[x].d \in Inode
        /\ th[p].ip \in Slot /\ itable[th[p].ip].ref > 0
        /\ cwd[p] \in Slot
    BY <1>7, InUse, Sizes DEF Slot
  <1>9. /\ itable' \in Table /\ Coherent(itable', dinode) /\ KeptIn(itable', p)
        /\ \A x \in Slot : itable'[x].ref = itable[x].ref
        /\ itable[s].lock = None /\ Loaded(s) = dinode[itable[s].inum] /\ Loaded(s).type # "none"
    <2>1. CanLock(s) /\ itable' = Unlock(Ilock(p, s), s)
      BY <1>1 DEF Locks
    <2> QED BY <1>1, <1>8, <2>1, Peeked
  <1>10. /\ cwd'[p] = s /\ cwd' \in [Proc -> 0 .. NINODE] /\ (\A q \in Proc \ {p} : cwd'[q] = cwd[q])
         /\ ftable' = ftable /\ ofile' = ofile /\ dinode' = dinode
         /\ ftable' \in [File -> OpenFileEntry] /\ ofile' \in [Proc -> [Fd -> 0 .. NFILE]]
         /\ FileInv' /\ (\A q \in Proc \ {p} : UserInv(q)') /\ UsesOnly(p) /\ th[p].fail # "linkbad"
    <2>1. cwd'[p] = s /\ cwd' \in [Proc -> 0 .. NINODE] /\ \A q \in Proc \ {p} : cwd'[q] = cwd[q]
      <3>1. cwd \in [Proc -> 0 .. NINODE] /\ s \in 0 .. NINODE
        BY <1>1, <1>2, <1>8, Sizes DEF TypeOK, Slot
      <3> QED BY <1>1, <3>1
    <2>2. ftable' = ftable /\ ofile' = ofile /\ ftable' \in [File -> OpenFileEntry] /\ ofile' \in [Proc -> [Fd -> 0 .. NFILE]]
      BY <1>2 DEF TypeOK
    <2>3. FileInv'
      BY <2>2 DEF IInv, FileInv, Descriptors
    <2>4. \A q \in Proc \ {p} : UserInv(q)'
      BY <1>4, <2>1, <2>2 DEF IInv, UserInv
    <2>5. UsesOnly(p)
      <3>1. ASSUME NEW x \in Slot \ {s} PROVE OpenOn(x)' = OpenOn(x) /\ WorkingIn(x)' \subseteq WorkingIn(x)
        BY <2>1, <2>2 DEF OpenOn, WorkingIn
      <3>2. itable[s].ref > 0 /\ itable[s].lock \in {None, p} /\ dinode[itable[s].inum].type # "none"
        BY <1>1, <1>8, <1>9
      <3> QED BY <3>1, <3>2 DEF UsesOnly
    <2>6. th[p].fail # "linkbad"
      BY <1>7 DEF Continues, Linking
    <2> QED BY <2>1, <2>2, <2>3, <2>4, <2>5, <2>6 DEF disk
  <1>11. th'[p] \in Local
    <2>1. "endop" \in Where /\ "iput" \in Putting /\ 0 \in 0 .. NINODE /\ <<c>> \in Seq(Slot)
      BY <1>1, <1>8, Sizes DEF Where, Putting
    <2> QED BY <1>2, <1>5, <1>6, <2>1, OfLocal, InLocal
  <1>12. Eff(th'[p]) = "endop" /\ Len(th'[p].puts) = 1 /\ (th'[p].puts # <<>> <=> 1 > 0)
    BY <1>6, <1>7 DEF Eff
  <1>13. PathInv(p)'
    <2>1. Variables(th'[p])
      BY <1>6, <1>7, <1>8, <1>9, <1>12, <1>10 DEF Variables, Putting, HasIp, HasDp, Where
    <2>2. Continues(th'[p])
      BY <1>6, <1>7, <1>12, <1>10 DEF Continues, Linking, Failing
    <2>3. Asked(th'[p])
      BY <1>6, <1>7, <1>12 DEF Asked, Serves, Opening, Creating, Naming
    <2> QED BY <2>1, <2>2, <2>3 DEF PathInv
  <1>14. LockInv(p)'
    <2>1. \A x \in Slot : ~Frees(th'[p], x)
      BY <1>6, <1>10 DEF Frees, HasIp, HasDp
    <2>2. \A x \in Slot : ~KeepsLocked(th'[p], x)
      BY <1>6, <1>8, <1>9, <1>12 DEF KeepsLocked, Keeping, HasDp
    <2> QED BY <1>2, <2>1, <2>2, LocksStep
  <1>15. UserInv(p)'
    BY <1>6, <1>7, <1>1, <1>8, <1>10 DEF UserInv, files, Locks
  <1>16. RefInv'
    <2>1. /\ Held1(p, "cwd") = c /\ Held1(p, "cwd")' = s /\ Held1(p, "ip") = s /\ Held1(p, "ip")' = 0
         /\ Held1(p, "put1") = 0 /\ Held1(p, "put1")' = c /\ Held1(p, "put2") = 0 /\ Held1(p, "put2")' = 0
      BY <1>6, <1>7, <1>12, <1>1, <1>10 DEF Held1
    <2>2. \A u \in LocalVar \ {"cwd", "ip", "put1", "put2"} : Held1(p, u)' = Held1(p, u)
      BY <1>6, <1>7, <1>12 DEF Held1, LocalVar, files
    <2>3. "cwd" \in LocalVar /\ "ip" \in LocalVar /\ "put1" \in LocalVar /\ "put2" \in LocalVar /\ "cwd" # "ip" /\ "cwd" # "put1" /\ "cwd" # "put2" /\ "ip" # "put1" /\ "ip" # "put2" /\ "put1" # "put2"
      BY DEF LocalVar
    <2>4. \A x \in Slot : itable'[x].ref = itable[x].ref - One(Held1(p, "cwd"), x) + One(Held1(p, "cwd")', x)
                                             - One(Held1(p, "ip"), x) + One(Held1(p, "ip")', x)
                                             - One(Held1(p, "put1"), x) + One(Held1(p, "put1")', x)
                                             - One(Held1(p, "put2"), x) + One(Held1(p, "put2")', x)
      <3>1. ASSUME NEW x \in Slot, NEW n, n = itable[x].ref
            PROVE  itable'[x].ref = n - One(Held1(p, "cwd"), x) + One(Held1(p, "cwd")', x)
                                             - One(Held1(p, "ip"), x) + One(Held1(p, "ip")', x)
                                             - One(Held1(p, "put1"), x) + One(Held1(p, "put1")', x)
                                             - One(Held1(p, "put2"), x) + One(Held1(p, "put2")', x)
        <4>1. One(0, x) = 0 /\ (\A y : One(y, x) \in Int) /\ n \in Int
          BY <1>8, <3>1 DEF One
        <4>2. itable'[x].ref = n
          BY <1>9, <3>1
        <4> QED BY <2>1, <4>1, <4>2
      <3> QED BY <3>1
    <2>5. RefInv /\ UNCHANGED ftable /\ \A q \in Proc \ {p} : th'[q] = th[q] /\ cwd'[q] = cwd[q]
      BY <1>4, <1>10 DEF IInv, files
    <2> QED BY <2>2, <2>3, <2>4, <2>5, RefFour
  <1>17. ncalls' \in 0 .. MaxCalls
    BY <1>2 DEF TypeOK, Locks
  <1> QED
    BY <1>4, <1>9, <1>11, <1>13, <1>14, <1>15, <1>16, <1>17, <1>10, FilesStep DEF Locks

\* sys_chdir().
LEMMA ChdirIpStep ==
  ASSUME IInv, NEW p \in Proc, ChdirIp(p)
  PROVE  IInv'
  <1>1. /\ th[p].at = "chdirip" /\ th[p].puts = <<>> /\ Eff(th[p]) = "chdirip" /\ cwd[p] # 0
        /\ Variables(th[p]) /\ Continues(th[p]) /\ Asked(th[p])
        /\ th[p].tgt # 0 <=> th[p].fail = "linkbad"
        /\ th[p].ip # 0
    <2>1. th[p].at = "chdirip" /\ th[p].at \notin Putting
      BY DEF ChdirIp, At, Locks, Putting
    <2> QED BY <2>1, Standing DEF HasIp, HasDp
  <1>2. /\ itable \in Table /\ Coherent(itable, dinode) /\ 0 \notin Slot
        /\ \A x \in Slot : itable[x].ref \in Nat /\ itable[x].inum \in Inum /\ itable[x].d \in Inode
        /\ th[p].ip \in Slot /\ itable[th[p].ip].ref > 0
    BY <1>1, InUse, Sizes DEF Slot
  <1>3. PICK s \in Slot : s = th[p].ip
    BY <1>2
  <1>4. UNCHANGED <<disk, ftable, ofile, ncalls, lost>> /\ Locks(p, "chdirip") /\ itable' = Unlock(Ilock(p, s), s)
    BY <1>3 DEF ChdirIp
  <1>5. ASSUME GiveUp(p, s, "endop"), UNCHANGED <<disk, files, ncalls, lost>> PROVE IInv'
    <2>1. PICK w : w = "endop"
      BY <1>1 DEF Continues, Failing
    <2>2. th[p].at \in HasIp \ {"writei", "opentrunc"} /\ CanLock(s)
      BY <1>1, <1>3 DEF HasIp, ChdirIp, Locks
    <2>3. w = "dropdp" <=> th[p].at \in HasDp
      BY <1>1, <2>1 DEF HasDp
    <2>4. w = "endop" => th[p].fail # "linkbad"
      BY <1>1, <2>1 DEF Continues, Linking
    <2>5. w = "linkbad" => th[p].fail = "linkbad"
      BY <1>1, <2>1 DEF Continues
    <2>6. w = "dropdp" => th[p].at \in Failing
      BY <1>1, <2>1 DEF Failing
    <2>7. w \in {"endop", "dropdp", "linkbad"} /\ GiveUp(p, s, w)
      BY <1>5, <2>1
    <2> QED BY <1>5, <1>1, <1>3, <2>2, <2>3, <2>4, <2>5, <2>6, <2>7, GiveUpStep
  <1>6. CASE Loaded(s).type = "dir"
    <2>1. cwd' = [cwd EXCEPT ![p] = s] /\ PutThen(p, <<cwd[p]>>, "endop", [ip |-> 0])
      BY <1>3, <1>6 DEF ChdirIp
    <2> QED BY <1>3, <1>4, <2>1, ChdirDirStep
  <1>7. CASE Loaded(s).type # "dir"
    <2>1. cwd' = cwd /\ PutThen(p, <<s>>, "endop", [ip |-> 0])
      BY <1>3, <1>7 DEF ChdirIp
    <2> QED BY <1>4, <1>5, <2>1 DEF GiveUp, files
  <1> QED
    BY <1>6, <1>7

\* The descriptors are finitely many.
LEMMA DescriptorsFinite ==
  ASSUME NEW S \in SUBSET (Proc \X Fd)
  PROVE  IsFiniteSet(S) /\ Cardinality(S) \in Nat /\ (Cardinality(S) = 0 <=> S = {})
  <1>1. IsFiniteSet(Fd)
    BY Sizes, FS_Interval DEF Fd
  <1>2. IsFiniteSet(Proc \X Fd)
    BY <1>1, Sizes, FS_Product
  <1>3. IsFiniteSet(S)
    BY <1>2, FS_Subset
  <1> QED
    BY <1>3, FS_CardinalityType, FS_EmptySet

\* filealloc() and fdalloc() find file f and descriptor d; s is the inode.
Opened(p, f, d, s, b) ==
  /\ ftable' = [ftable EXCEPT ![f] = [ref |-> 1, ip |-> s, writable |-> b]]
  /\ ofile' = [ofile EXCEPT ![p][d] = f]
  /\ cwd' = cwd

\* A file that was free, with one descriptor.
LEMMA OpenedFacts ==
  ASSUME IInv, NEW p \in Proc, NEW f \in File, ftable[f].ref = 0, NEW d \in Fd, ofile[p][d] = 0,
         NEW s \in Slot, NEW b \in BOOLEAN, Opened(p, f, d, s, b),
         \A q \in Proc \ {p} : th'[q] = th[q],
         itable[s].ref > 0, itable[s].lock \in {None, p}, dinode[itable[s].inum].type # "none"
  PROVE  /\ ftable' \in [File -> OpenFileEntry] /\ ofile' \in [Proc -> [Fd -> 0 .. NFILE]]
         /\ cwd' \in [Proc -> 0 .. NINODE]
         /\ FileInv' /\ UsesOnly(p) /\ \A q \in Proc \ {p} : UserInv(q)'
         /\ ftable'[f].ref = 1 /\ ftable'[f].ip = s /\ \A g \in File \ {f} : ftable'[g] = ftable[g]
         /\ ofile'[p][d] = f /\ f # 0
  <1>1. TypeOK /\ FileInv
    BY DEF IInv
  <1>2. f # 0 /\ f \in 0 .. NFILE /\ s \in 0 .. NINODE /\ s # 0
    BY Sizes DEF File, Slot
  <1>3. /\ ftable' \in [File -> OpenFileEntry] /\ ftable'[f].ref = 1 /\ ftable'[f].ip = s
        /\ \A g \in File \ {f} : ftable'[g] = ftable[g]
    <2>1. PICK e : e = [ref |-> 1, ip |-> s, writable |-> b]
      OBVIOUS
    <2>2. e \in OpenFileEntry /\ e.ref = 1 /\ e.ip = s
      BY <1>2, <2>1 DEF OpenFileEntry
    <2>3. ftable' = [ftable EXCEPT ![f] = e] /\ ftable \in [File -> OpenFileEntry]
      BY <1>1, <2>1 DEF Opened, TypeOK
    <2> QED BY <2>2, <2>3
  <1>4. /\ ofile' \in [Proc -> [Fd -> 0 .. NFILE]] /\ ofile'[p][d] = f
        /\ \A c \in Fd \ {d} : ofile'[p][c] = ofile[p][c]
        /\ \A q \in Proc \ {p} : ofile'[q] = ofile[q]
    BY <1>1, <1>2 DEF Opened, TypeOK
  <1>5. cwd' = cwd /\ cwd' \in [Proc -> 0 .. NINODE]
    BY <1>1 DEF Opened, TypeOK
  <1>6. FileInv'
    <2>1. ASSUME NEW g \in File \ {f} PROVE Descriptors(g)' = Descriptors(g)
      <3>1. g # 0
        BY Sizes DEF File
      <3>2. ASSUME NEW q \in Proc, NEW c \in Fd PROVE ofile'[q][c] = g <=> ofile[q][c] = g
        BY <1>4, <3>1
      <3> QED BY <3>2 DEF Descriptors
    <2>2. Descriptors(f) = {}
      <3>1. Descriptors(f) \in SUBSET (Proc \X Fd)
        BY DEF Descriptors
      <3>2. Cardinality(Descriptors(f)) = 0
        BY <1>1 DEF FileInv
      <3> QED BY <3>1, <3>2, DescriptorsFinite
    <2>3. Descriptors(f)' = {<<p, d>>}
      <3>1. ASSUME NEW q \in Proc, NEW c \in Fd PROVE ofile'[q][c] = f <=> q = p /\ c = d
        <4>1. ofile[q][c] # f
          <5>1. <<q, c>> \notin Descriptors(f)
            BY <2>2
          <5> QED BY <5>1 DEF Descriptors
        <4> QED BY <1>4, <4>1
      <3> QED BY <3>1 DEF Descriptors
    <2>4. Cardinality(Descriptors(f)') = 1
      BY <2>3, FS_Singleton
    <2> QED BY <1>1, <1>2, <1>3, <2>1, <2>4 DEF FileInv
  <1>7. ASSUME NEW q \in Proc \ {p} PROVE UserInv(q)'
    <2>1. UserInv(q)
      BY DEF IInv
    <2>2. ASSUME NEW c \in Fd, ofile[q][c] # 0 PROVE ftable'[ofile'[q][c]].ip = ftable[ofile[q][c]].ip
      BY <1>1, <1>3, <1>4, <2>2, OpenFd
    <2> QED BY <1>4, <1>5, <2>1, <2>2 DEF UserInv
  <1>8. UsesOnly(p)
    <2>1. ASSUME NEW x \in Slot \ {s} PROVE OpenOn(x)' = OpenOn(x) /\ WorkingIn(x)' = WorkingIn(x)
      BY <1>3, <1>5 DEF OpenOn, WorkingIn
    <2> QED BY <2>1 DEF UsesOnly
  <1> QED
    BY <1>2, <1>3, <1>4, <1>5, <1>6, <1>7, <1>8

\* open() finds no file or no descriptor.
LEMMA OpenFullStep ==
  ASSUME IInv, NEW p \in Proc, At(p, "openfile"), Go(p, [at |-> "dropip"]), UNCHANGED itable, UNCHANGED <<disk, files, ncalls, lost>>
  PROVE  IInv'
  <1>1. TypeOK /\ PathInv(p) /\ UserInv(p) /\ LockInv(p) /\ th[p] \in Local
    BY DEF IInv, TypeOK
  <1>2. PICK r : r = [at |-> "dropip"]
    OBVIOUS
  <1>3. /\ th'[p] = r \oplus th[p] /\ \A q \in Proc \ {p} : th'[q] = th[q]
        /\ th[p] = [f \in Fields |-> th[p][f]]
        /\ th'[p] \in Local => th' \in [Proc -> Local]
    BY <1>1, <1>2, Goes DEF At
  <1>4. /\ th'[p] = [f \in Fields |-> th'[p][f]]
        /\ th'[p] = [f \in Fields |-> IF f = "at" THEN "dropip" ELSE th[p][f]]
    <2>1. DOMAIN r = {"at"} /\ r.at = "dropip" /\ DOMAIN th[p] = Fields
      BY <1>2, <1>3
    <2> QED BY <1>3, <2>1 DEF \oplus, Fields
  <1>5. /\ th'[p].at = "dropip" /\ th'[p].call = th[p].call /\ th'[p].path = th[p].path /\ th'[p].parent = th[p].parent
        /\ th'[p].ok = th[p].ok /\ th'[p].fail = th[p].fail /\ th'[p].then = th[p].then /\ th'[p].puts = th[p].puts
        /\ th'[p].ip = th[p].ip /\ th'[p].dp = th[p].dp /\ th'[p].tgt = th[p].tgt /\ th'[p].inum = th[p].inum
    <2>1. th'[p] = [f \in Fields |-> IF f = "at" THEN "dropip" ELSE th[p][f]]
      BY <1>4
    <2> QED BY <2>1 DEF Fields
  <1>6. /\ th[p].at = "openfile" /\ th[p].puts = <<>> /\ Eff(th[p]) = "openfile" /\ cwd[p] # 0
        /\ Variables(th[p]) /\ Continues(th[p]) /\ Asked(th[p]) /\ \A x \in Slot : ~Frees(th[p], x)
        /\ Held1(p, "put1") = 0 /\ Held1(p, "put2") = 0
        /\ th[p].tgt # 0 <=> th[p].fail = "linkbad"
        /\ th[p].ip # 0 /\ th[p].dp = 0
    <2>1. th[p].at = "openfile" /\ th[p].at \notin Putting
      BY DEF At, At, Locks, Putting
    <2> QED BY <2>1, Standing DEF HasIp, HasDp
  <1>7. /\ itable \in Table /\ Coherent(itable, dinode) /\ 0 \notin Slot
        /\ \A x \in Slot : itable[x].ref \in Nat /\ itable[x].inum \in Inum /\ itable[x].d \in Inode
    BY <1>6, InUse, Sizes DEF Slot
  <1>8. /\ itable' \in Table /\ Coherent(itable', dinode) /\ KeptIn(itable', p)
        /\ \A x \in Slot : itable'[x].ref = itable[x].ref
        /\ \A x \in Slot : itable'[x].lock = itable[x].lock /\ (itable[x].ref > 0 => itable'[x].valid = itable[x].valid)
    <2>1. itable' = itable /\ dinode' = dinode
      BY DEF disk, At
    <2> QED BY <1>7, <2>1 DEF KeptIn
  <1>9. th'[p] \in Local
    <2>1. "dropip" \in Where
      BY Zenon DEF Where, HasIp
    <2> QED BY <1>1, <1>4, <1>5, <2>1, OfLocal, InLocal
  <1>10. Eff(th'[p]) = "dropip" /\ Len(th'[p].puts) = 0 /\ (th'[p].puts # <<>> <=> 0 > 0)
    BY <1>5, <1>6 DEF Eff
  <1>11. PathInv(p)'
    <2>1. Variables(th'[p])
      BY <1>5, <1>6, <1>7, <1>8, <1>10 DEF Variables, Putting, HasIp, HasDp, Where
    <2>2. Continues(th'[p])
      BY <1>5, <1>6, <1>10 DEF Continues, Linking, Failing
    <2>3. Asked(th'[p])
      BY <1>5, <1>6, <1>10 DEF Asked, Serves, Opening, Creating, Naming
    <2> QED BY <2>1, <2>2, <2>3 DEF PathInv
  <1>12. LockInv(p)'
    <2>1. \A x \in Slot : ~Frees(th'[p], x)
      BY <1>5 DEF Frees
    <2>2. \A x \in Slot : KeepsLocked(th'[p], x) => KeepsLocked(th[p], x)
      BY <1>5, <1>6, <1>10 DEF KeepsLocked, Keeping, HasDp
    <2>3. \A x \in Slot : KeepsLocked(th[p], x) => itable[x].ref > 0
      BY LockedIsCounted
    <2> QED BY <1>1, <1>8, <2>1, <2>2, <2>3, LocksStep
  <1>13. UserInv(p)'
    BY <1>5, <1>6 DEF UserInv, files, At
  <1>14. RefInv'
    <2>1. \A u \in LocalVar : Held1(p, u)' = Held1(p, u)
      BY <1>5, <1>6, <1>10 DEF Held1, LocalVar, files
    <2> QED BY <1>3, <1>8, <2>1, RefSame DEF files
  <1>15. ncalls' \in 0 .. MaxCalls
    BY <1>1 DEF TypeOK, At
  <1> QED
    BY <1>3, <1>8, <1>9, <1>11, <1>12, <1>13, <1>14, <1>15, TableStep DEF At

\* open() with O_TRUNC keeps the inode locked.
LEMMA OpenLaterStep ==
  ASSUME IInv, NEW p \in Proc, At(p, "openfile"), NEW f \in File, ftable[f].ref = 0, NEW d \in Fd, ofile[p][d] = 0, NEW s \in Slot, s = th[p].ip, NEW b \in BOOLEAN,
         Opened(p, f, d, s, b),
         Go(p, [at |-> "opentrunc"]), UNCHANGED <<itable, disk, ncalls, lost>>
  PROVE  IInv'
  <1>1. TypeOK /\ PathInv(p) /\ UserInv(p) /\ LockInv(p) /\ th[p] \in Local
    BY DEF IInv, TypeOK
  <1>2. PICK r : r = [at |-> "opentrunc"]
    OBVIOUS
  <1>3. /\ th'[p] = r \oplus th[p] /\ \A q \in Proc \ {p} : th'[q] = th[q]
        /\ th[p] = [k \in Fields |-> th[p][k]]
        /\ th'[p] \in Local => th' \in [Proc -> Local]
    BY <1>1, <1>2, Goes DEF At
  <1>4. /\ th'[p] = [k \in Fields |-> th'[p][k]]
        /\ th'[p] = [k \in Fields |-> IF k = "at" THEN "opentrunc" ELSE th[p][k]]
    <2>1. DOMAIN r = {"at"} /\ r.at = "opentrunc" /\ DOMAIN th[p] = Fields
      BY <1>2, <1>3
    <2> QED BY <1>3, <2>1 DEF \oplus, Fields
  <1>5. /\ th'[p].at = "opentrunc" /\ th'[p].call = th[p].call /\ th'[p].path = th[p].path /\ th'[p].parent = th[p].parent
        /\ th'[p].ok = th[p].ok /\ th'[p].fail = th[p].fail /\ th'[p].then = th[p].then /\ th'[p].puts = th[p].puts
        /\ th'[p].ip = th[p].ip /\ th'[p].dp = th[p].dp /\ th'[p].tgt = th[p].tgt /\ th'[p].inum = th[p].inum
    <2>1. th'[p] = [k \in Fields |-> IF k = "at" THEN "opentrunc" ELSE th[p][k]]
      BY <1>4
    <2> QED BY <2>1 DEF Fields
  <1>6. /\ th[p].at = "openfile" /\ th[p].puts = <<>> /\ Eff(th[p]) = "openfile" /\ cwd[p] # 0
        /\ Variables(th[p]) /\ Continues(th[p]) /\ Asked(th[p]) /\ \A x \in Slot : ~Frees(th[p], x)
        /\ Held1(p, "put1") = 0 /\ Held1(p, "put2") = 0
        /\ th[p].tgt # 0 <=> th[p].fail = "linkbad"
        /\ th[p].ip # 0 /\ th[p].dp = 0
    <2>1. th[p].at = "openfile" /\ th[p].at \notin Putting
      BY DEF At, At, Locks, Putting
    <2> QED BY <2>1, Standing DEF HasIp, HasDp
  <1>7. /\ itable \in Table /\ Coherent(itable, dinode) /\ 0 \notin Slot
        /\ \A x \in Slot : itable[x].ref \in Nat /\ itable[x].inum \in Inum /\ itable[x].d \in Inode
        /\ th[p].ip \in Slot /\ itable[th[p].ip].ref > 0
    BY <1>6, InUse, Sizes DEF Slot
  <1>8. /\ itable' \in Table /\ Coherent(itable', dinode) /\ KeptIn(itable', p)
        /\ \A x \in Slot : itable'[x].ref = itable[x].ref
        /\ \A x \in Slot : itable'[x].lock = itable[x].lock /\ (itable[x].ref > 0 => itable'[x].valid = itable[x].valid)
    <2>1. itable' = itable /\ dinode' = dinode
      BY DEF disk, At
    <2> QED BY <1>7, <2>1 DEF KeptIn
  <1>9. /\ ftable' \in [File -> OpenFileEntry] /\ ofile' \in [Proc -> [Fd -> 0 .. NFILE]]
         /\ cwd' \in [Proc -> 0 .. NINODE] /\ cwd' = cwd
         /\ FileInv' /\ UsesOnly(p) /\ (\A q \in Proc \ {p} : UserInv(q)')
         /\ ftable'[f].ref = 1 /\ ftable'[f].ip = s /\ (\A g \in File \ {f} : ftable'[g] = ftable[g])
         /\ ofile'[p][d] = f /\ f # 0
    <2>1. cwd' = cwd
      BY DEF Opened
    <2>2. itable[s].lock = p /\ itable[s].valid
      <3>1. KeepsLocked(th[p], s)
        BY <1>6 DEF KeepsLocked, Keeping
      <3> QED BY <1>1, <1>7, <3>1 DEF LockInv
    <2>3. itable[s].ref > 0 /\ itable[s].lock \in {None, p} /\ dinode[itable[s].inum].type # "none"
      BY <1>7, <2>2 DEF Coherent
    <2> QED BY <1>3, <2>1, <2>3, OpenedFacts
  <1>10. th'[p] \in Local
    <2>1. "opentrunc" \in Where
      BY Zenon DEF Where, HasIp
    <2> QED BY <1>1, <1>4, <1>5, <2>1, OfLocal, InLocal
  <1>11. Eff(th'[p]) = "opentrunc" /\ Len(th'[p].puts) = 0 /\ (th'[p].puts # <<>> <=> 0 > 0)
    BY <1>5, <1>6 DEF Eff
  <1>12. PathInv(p)'
    <2>1. Variables(th'[p])
      BY <1>5, <1>6, <1>7, <1>8, <1>11, <1>9 DEF Variables, Putting, HasIp, HasDp, Where
    <2>2. Continues(th'[p])
      BY <1>5, <1>6, <1>11 DEF Continues, Linking, Failing
    <2>3. Asked(th'[p])
      BY <1>5, <1>6, <1>11, <1>9 DEF Asked, Serves, Opening, Creating, Naming
    <2> QED BY <2>1, <2>2, <2>3 DEF PathInv
  <1>13. LockInv(p)'
    <2>1. \A x \in Slot : ~Frees(th'[p], x)
      BY <1>5, <1>9 DEF Frees, HasIp, HasDp
    <2>2. \A x \in Slot : KeepsLocked(th'[p], x) => KeepsLocked(th[p], x)
      BY <1>5, <1>6, <1>11 DEF KeepsLocked, Keeping, HasDp
    <2>3. \A x \in Slot : KeepsLocked(th[p], x) => itable[x].ref > 0
      BY LockedIsCounted
    <2> QED BY <1>1, <1>8, <2>1, <2>2, <2>3, LocksStep
  <1>14. UserInv(p)'
    BY <1>5, <1>6, <1>9 DEF UserInv
  <1>15. RefInv'
    <2>1. Held1(p, "ip") = s /\ Held1(p, "ip")' = 0 /\ "ip" \in LocalVar
      BY <1>5, <1>6 DEF Held1, LocalVar
    <2>2. \A u \in LocalVar \ {"ip"} : Held1(p, u)' = Held1(p, u)
      BY <1>5, <1>6, <1>9 DEF Held1, LocalVar
    <2>3. 0 = (IF ftable[f].ref > 0 THEN ftable[f].ip ELSE 0) /\ s = (IF ftable'[f].ref > 0 THEN ftable'[f].ip ELSE 0)
      BY <1>9
    <2>4. \A x \in Slot : itable'[x].ref = itable[x].ref - One(Held1(p, "ip"), x) + One(Held1(p, "ip")', x)
                                             - One(0, x) + One(s, x)
      BY <1>7, <1>8, <2>1 DEF One
    <2>5. RefInv /\ (\A q \in Proc \ {p} : th'[q] = th[q] /\ cwd'[q] = cwd[q]) /\ \A g \in File \ {f} : ftable'[g] = ftable[g]
      BY <1>3, <1>9 DEF IInv
    <2> QED BY <2>1, <2>2, <2>3, <2>4, <2>5, RefFile
  <1>16. ncalls' \in 0 .. MaxCalls
    BY <1>1 DEF TypeOK, At
  <1> QED
    BY <1>3, <1>8, <1>10, <1>12, <1>13, <1>14, <1>15, <1>16, <1>9, FilesStep DEF At

\* open() is done.
LEMMA OpenedStep ==
  ASSUME IInv, NEW p \in Proc, At(p, "openfile"), NEW f \in File, ftable[f].ref = 0, NEW d \in Fd, ofile[p][d] = 0, NEW s \in Slot, s = th[p].ip, NEW b \in BOOLEAN,
         Opened(p, f, d, s, b),
         Go(p, EndOp(p)), itable' = Unlock(itable, s), UNCHANGED <<disk, ncalls, lost>>
  PROVE  IInv'
  <1>1. TypeOK /\ LockInv(p)
    BY DEF IInv
  <1>2. /\ th[p].at = "openfile" /\ th[p].puts = <<>> /\ Eff(th[p]) = "openfile" /\ cwd[p] # 0
        /\ th[p].dp = 0 /\ th[p].tgt = 0 /\ Held1(p, "put1") = 0 /\ Held1(p, "put2") = 0
    <2>1. th[p].at = "openfile" /\ th[p].at \notin Putting
      BY DEF At, Putting
    <2> QED BY <2>1, Standing DEF HasIp, HasDp, Continues, Linking
  <1>3. itable[s].lock = p /\ itable[s].valid /\ itable[s].ref > 0
    <2>1. KeepsLocked(th[p], s)
      BY <1>2 DEF KeepsLocked, Keeping
    <2> QED BY <2>1, LockedIsCounted
  <1>4. /\ \A q \in Proc \ {p} : th'[q] = th[q]
        /\ th' \in [Proc -> Local] /\ PathInv(p)'
        /\ th'[p].at \in {"idle", "exit"} /\ Eff(th'[p]) = th'[p].at
        /\ \A x \in Slot : ~KeepsLocked(th'[p], x) /\ ~Frees(th'[p], x)
        /\ \A u \in LocalVar \ {"cwd"} : Held1(p, u)' = 0
    BY EndOpFacts
  <1>5. /\ itable' \in Table /\ Coherent(itable', dinode) /\ KeptIn(itable', p)
        /\ \A x \in Slot : itable'[x].ref = itable[x].ref
    BY <1>3, LetGo DEF Like
  <1>6. dinode[itable[s].inum].type # "none" /\ itable[s].lock \in {None, p}
    BY <1>3 DEF IInv, CacheInv
  <1>7. /\ ftable' \in [File -> OpenFileEntry] /\ ofile' \in [Proc -> [Fd -> 0 .. NFILE]]
        /\ cwd' \in [Proc -> 0 .. NINODE]
        /\ FileInv' /\ UsesOnly(p) /\ \A q \in Proc \ {p} : UserInv(q)'
        /\ ftable'[f].ref = 1 /\ ftable'[f].ip = s /\ \A g \in File \ {f} : ftable'[g] = ftable[g]
    BY <1>3, <1>4, <1>6, OpenedFacts
  <1>8. cwd' = cwd
    BY DEF Opened
  <1>9. UserInv(p)'
    BY <1>2, <1>4, <1>8 DEF UserInv
  <1>10. LockInv(p)'
    BY <1>4 DEF LockInv
  <1>11. RefInv'
    <2>1. Held1(p, "ip") = s /\ Held1(p, "ip")' = 0 /\ "ip" \in LocalVar
      BY <1>2, <1>4 DEF Held1, LocalVar
    <2>2. \A u \in LocalVar \ {"ip"} : Held1(p, u)' = Held1(p, u)
      <3>1. Held1(p, "cwd")' = Held1(p, "cwd")
        BY <1>8 DEF Held1
      <3>2. Held1(p, "dp") = 0 /\ Held1(p, "tgt") = 0
        BY <1>2 DEF Held1
      <3> QED BY <1>2, <1>4, <3>1, <3>2 DEF LocalVar
    <2>3. 0 = (IF ftable[f].ref > 0 THEN ftable[f].ip ELSE 0) /\ s = (IF ftable'[f].ref > 0 THEN ftable'[f].ip ELSE 0)
      BY <1>7
    <2>4. \A x \in Slot : itable'[x].ref = itable[x].ref - One(Held1(p, "ip"), x) + One(Held1(p, "ip")', x)
                                             - One(0, x) + One(s, x)
      <3>1. \A x \in Slot : itable[x].ref \in Nat
        BY InUse
      <3> QED BY <1>5, <2>1, <3>1 DEF One
    <2>5. RefInv /\ (\A q \in Proc \ {p} : th'[q] = th[q] /\ cwd'[q] = cwd[q]) /\ \A g \in File \ {f} : ftable'[g] = ftable[g]
      BY <1>4, <1>7, <1>8 DEF IInv
    <2> QED BY <2>1, <2>2, <2>3, <2>4, <2>5, RefFile
  <1>12. ncalls' \in 0 .. MaxCalls
    BY <1>1 DEF TypeOK
  <1> QED
    BY <1>4, <1>5, <1>7, <1>9, <1>10, <1>11, <1>12, FilesStep

\* open() takes a file and a descriptor.
LEMMA OpenFileStep ==
  ASSUME IInv, NEW p \in Proc, OpenFile(p)
  PROVE  IInv'
  <1>1. /\ th[p].at = "openfile" /\ th[p].puts = <<>> /\ Eff(th[p]) = "openfile" /\ cwd[p] # 0
        /\ Variables(th[p]) /\ Continues(th[p]) /\ Asked(th[p])
        /\ th[p].tgt # 0 <=> th[p].fail = "linkbad"
        /\ th[p].ip # 0
    <2>1. th[p].at = "openfile" /\ th[p].at \notin Putting
      BY DEF OpenFile, At, Locks, Putting
    <2> QED BY <2>1, Standing DEF HasIp, HasDp
  <1>2. /\ itable \in Table /\ Coherent(itable, dinode) /\ 0 \notin Slot
        /\ \A x \in Slot : itable[x].ref \in Nat /\ itable[x].inum \in Inum /\ itable[x].d \in Inode
        /\ th[p].ip \in Slot /\ itable[th[p].ip].ref > 0
    BY <1>1, InUse, Sizes DEF Slot
  <1>3. PICK s \in Slot : s = th[p].ip
    BY <1>2
  <1>4. PICK trunc, full : /\ trunc = (th[p].call.trunc /\ itable[s].d.type = "file")
                           /\ full = (FreeFiles = {} \/ FreeFds(p) = {})
    OBVIOUS
  <1>5. UNCHANGED <<disk, ncalls, lost>> /\ At(p, "openfile")
    BY DEF OpenFile
  <1>6. CASE Go(p, [at |-> "dropip"]) /\ UNCHANGED <<itable, files>>
    BY <1>5, <1>6, OpenFullStep
  <1>7. CASE ~(Go(p, [at |-> "dropip"]) /\ UNCHANGED <<itable, files>>)
    <2>1. PICK f, d, b : f = Least(FreeFiles) /\ d = Least(FreeFds(p)) /\ b = th[p].call.write
      OBVIOUS
    <2>2. /\ FreeFiles # {} /\ FreeFds(p) # {}
          /\ ftable' = [ftable EXCEPT ![f] = [ref |-> 1, ip |-> s, writable |-> b]]
          /\ ofile' = [ofile EXCEPT ![p][d] = f]
          /\ itable' = IF trunc THEN itable ELSE Unlock(itable, s)
          /\ Go(p, IF trunc THEN [at |-> "opentrunc"] ELSE EndOp(p))
          /\ UNCHANGED cwd
      BY <1>3, <1>4, <1>7, <2>1 DEF OpenFile
    <2>3. f \in File /\ ftable[f].ref = 0
      <3>1. FreeFiles \subseteq Nat
        BY Sizes DEF FreeFiles, File
      <3>2. f \in FreeFiles
        BY <2>1, <2>2, <3>1, LeastNatural
      <3> QED BY <3>2 DEF FreeFiles
    <2>4. d \in Fd /\ ofile[p][d] = 0
      <3>1. FreeFds(p) \subseteq Nat
        BY Sizes DEF FreeFds, Fd
      <3>2. d \in FreeFds(p)
        BY <2>1, <2>2, <3>1, LeastNatural
      <3> QED BY <3>2 DEF FreeFds
    <2>5. b \in BOOLEAN
      <3>1. th[p].call \in Calls /\ th[p].call.op = "open"
        BY <1>1 DEF Asked, Serves, Opening
      <3> QED BY <2>1, <3>1, CallFacts
    <2>6. Opened(p, f, d, s, b)
      BY <2>2 DEF Opened
    <2>7. CASE trunc
      BY <1>3, <1>5, <2>2, <2>3, <2>4, <2>5, <2>6, <2>7, OpenLaterStep
    <2>8. CASE ~trunc
      BY <1>3, <1>5, <2>2, <2>3, <2>4, <2>5, <2>6, <2>8, OpenedStep
    <2> QED BY <2>7, <2>8
  <1> QED
    BY <1>6, <1>7
-----------------------------------------------------------------------------
(* close() and exit() *)

\* Descriptor d of p is closed, and its file f is e from now on.
Closed(p, d, f, e) ==
  /\ ofile' = [ofile EXCEPT ![p][d] = 0]
  /\ ftable' = [ftable EXCEPT ![f] = e]
  /\ cwd' = cwd

\* Numbers that are not 0, and not 1.
LEMMA Positive ==
  /\ \A n \in Nat : n # 0 => n > 0
  /\ \A n \in Int : n > 0 /\ n # 1 => n > 1 /\ n - 1 \in Int
OBVIOUS

\* A file with a descriptor less, which is free with the last.
LEMMA ClosedFacts ==
  ASSUME IInv, NEW p \in Proc, NEW d \in Fd, NEW f \in File, f = ofile[p][d],
         NEW e \in OpenFileEntry, e.ref = ftable[f].ref - 1, e.ref > 0 => e.ip = ftable[f].ip,
         Closed(p, d, f, e), \A q \in Proc \ {p} : th'[q] = th[q]
  PROVE  /\ ftable' \in [File -> OpenFileEntry] /\ ofile' \in [Proc -> [Fd -> 0 .. NFILE]]
         /\ cwd' \in [Proc -> 0 .. NINODE]
         /\ FileInv' /\ UsesOnly(p) /\ \A q \in Proc \ {p} : UserInv(q)'
         /\ ftable'[f] = e /\ \A g \in File \ {f} : ftable'[g] = ftable[g]
  <1>1. TypeOK /\ FileInv /\ f # 0
    BY Sizes DEF IInv, File
  <1>2. ftable' \in [File -> OpenFileEntry] /\ ftable'[f] = e /\ \A g \in File \ {f} : ftable'[g] = ftable[g]
    BY <1>1 DEF Closed, TypeOK
  <1>3. /\ ofile' \in [Proc -> [Fd -> 0 .. NFILE]] /\ ofile'[p][d] = 0
        /\ \A c \in Fd \ {d} : ofile'[p][c] = ofile[p][c]
        /\ \A q \in Proc \ {p} : ofile'[q] = ofile[q]
    <2>1. 0 \in 0 .. NFILE
      BY Sizes
    <2> QED BY <1>1, <2>1 DEF Closed, TypeOK
  <1>4. cwd' = cwd /\ cwd' \in [Proc -> 0 .. NINODE]
    BY <1>1 DEF Closed, TypeOK
  <1>5. Descriptors(f)' = Descriptors(f) \ {<<p, d>>}
    <2>1. ASSUME NEW q \in Proc, NEW c \in Fd PROVE ofile'[q][c] = f <=> ofile[q][c] = f /\ <<q, c>> # <<p, d>>
      BY <1>1, <1>3
    <2> QED BY <2>1 DEF Descriptors
  <1>6. Cardinality(Descriptors(f)') = e.ref /\ Descriptors(f)' \in SUBSET (Proc \X Fd)
    <2>1. <<p, d>> \in Descriptors(f) /\ Descriptors(f) \in SUBSET (Proc \X Fd)
      BY DEF Descriptors
    <2>2. Cardinality(Descriptors(f) \ {<<p, d>>}) = Cardinality(Descriptors(f)) - 1
      BY <2>1, DescriptorsFinite, FS_RemoveElement
    <2> QED BY <1>1, <1>5, <2>1, <2>2 DEF FileInv
  <1>7. FileInv'
    <2>1. ASSUME NEW g \in File \ {f} PROVE Descriptors(g)' = Descriptors(g)
      <3>1. g # 0
        BY Sizes DEF File
      <3>2. ASSUME NEW q \in Proc, NEW c \in Fd PROVE ofile'[q][c] = g <=> ofile[q][c] = g
        BY <1>3, <3>1
      <3> QED BY <3>2 DEF Descriptors
    <2>2. ftable[f].ip # 0
      BY <1>1, OpenFd DEF FileInv
    <2> QED BY <1>1, <1>2, <1>6, <2>1, <2>2 DEF FileInv
  <1>8. ASSUME NEW q \in Proc \ {p} PROVE UserInv(q)'
    <2>1. UserInv(q)
      BY DEF IInv
    <2>2. ASSUME NEW c \in Fd, ofile[q][c] # 0 PROVE ftable'[ofile'[q][c]].ip = ftable[ofile[q][c]].ip
      <3>1. CASE ofile[q][c] = f
        <4>1. <<q, c>> \in Descriptors(f) /\ <<q, c>> # <<p, d>>
          BY <3>1 DEF Descriptors
        <4>2. e.ref # 0
          BY <1>5, <1>6, <4>1, DescriptorsFinite
        <4>3. PICK n : n = e.ref
          OBVIOUS
        <4>4. n \in Nat
          <5>1. Cardinality(Descriptors(f)') \in Nat
            BY <1>6, DescriptorsFinite
          <5> QED BY <1>6, <4>3, <5>1
        <4>5. n > 0
          BY <4>2, <4>3, <4>4, Positive, Zenon
        <4> QED BY <1>2, <1>3, <3>1, <4>3, <4>5
      <3>2. CASE ofile[q][c] # f
        BY <1>1, <1>2, <1>3, <2>2, <3>2, OpenFd
      <3> QED BY <3>1, <3>2
    <2> QED BY <1>3, <1>4, <2>1, <2>2 DEF UserInv
  <1>9. UsesOnly(p)
    <2>1. e.ref \in Nat
      BY <1>6, DescriptorsFinite
    <2>2. e.ref > 0 => ftable[f].ref > 0
      <3>1. ftable[f].ref \in Int
        BY <1>1 DEF TypeOK, OpenFileEntry
      <3> QED BY <2>1, <3>1
    <2>3. \A s \in Slot : OpenOn(s)' \subseteq OpenOn(s) /\ WorkingIn(s)' = WorkingIn(s)
      BY <1>2, <1>4, <2>2 DEF OpenOn, WorkingIn
    <2> QED BY <2>3 DEF UsesOnly
  <1> QED
    BY <1>2, <1>3, <1>4, <1>7, <1>8, <1>9

\* The last descriptor of a file is closed, and the reference of the file is dropped next.
LEMMA CloseLastStep ==
  ASSUME IInv, NEW p \in Proc, NEW a \in {"idle", "exit"}, At(p, a), cwd[p] # 0, NEW d \in Fd, NEW f \in File, f = ofile[p][d],
         NEW e \in OpenFileEntry, ftable[f].ref = 1, NEW s \in Slot, s = ftable[f].ip,
         e = NoFile, Closed(p, d, f, e), NEW c \in AnyCall,
         PutThen(p, <<s>>, "endop", [call |-> c]), UNCHANGED <<disk, itable, ncalls, lost>>
  PROVE  IInv'
  <1>1. TypeOK /\ PathInv(p) /\ UserInv(p) /\ LockInv(p) /\ th[p] \in Local
    BY DEF IInv, TypeOK
  <1>2. PICK r : r = [call |-> c] \oplus [at |-> "iput", puts |-> <<s>>, then |-> "endop"]
    OBVIOUS
  <1>3. /\ th'[p] = r \oplus th[p] /\ \A q \in Proc \ {p} : th'[q] = th[q]
        /\ th[p] = [k \in Fields |-> th[p][k]]
        /\ th'[p] \in Local => th' \in [Proc -> Local]
    BY <1>1, <1>2, Goes DEF PutThen
  <1>4. th'[p] = [k \in Fields |-> th'[p][k]]
    BY <1>2, <1>3 DEF \oplus, Fields
  <1>5. /\ th'[p].at = "iput" /\ th'[p].call = c /\ th'[p].path = th[p].path /\ th'[p].parent = th[p].parent
        /\ th'[p].ok = th[p].ok /\ th'[p].fail = th[p].fail /\ th'[p].then = "endop" /\ th'[p].puts = <<s>>
        /\ th'[p].ip = th[p].ip /\ th'[p].dp = th[p].dp /\ th'[p].tgt = th[p].tgt /\ th'[p].inum = th[p].inum
    BY <1>2, <1>3 DEF \oplus, Fields
  <1>6. /\ th[p].at = a /\ th[p].puts = <<>> /\ Eff(th[p]) = a /\ cwd[p] # 0
        /\ Variables(th[p]) /\ Continues(th[p]) /\ Asked(th[p]) /\ \A x \in Slot : ~Frees(th[p], x)
        /\ Held1(p, "put1") = 0 /\ Held1(p, "put2") = 0
        /\ th[p].tgt # 0 <=> th[p].fail = "linkbad"
        /\ th[p].ip = 0 /\ th[p].dp = 0
    <2>1. th[p].at = a /\ th[p].at \notin Putting
      BY DEF At, At, Locks, Putting
    <2> QED BY <2>1, Standing DEF HasIp, HasDp
  <1>7. /\ itable \in Table /\ Coherent(itable, dinode) /\ 0 \notin Slot
        /\ \A x \in Slot : itable[x].ref \in Nat /\ itable[x].inum \in Inum /\ itable[x].d \in Inode
    BY <1>6, InUse, Sizes DEF Slot
  <1>8. /\ itable' \in Table /\ Coherent(itable', dinode) /\ KeptIn(itable', p)
        /\ \A x \in Slot : itable'[x].ref = itable[x].ref
    <2>1. itable' = itable /\ dinode' = dinode
      BY DEF disk, At
    <2> QED BY <1>7, <2>1 DEF KeptIn
  <1>9. /\ e.ref = 0 /\ th[p].fail # "linkbad" /\ ftable' \in [File -> OpenFileEntry] /\ ofile' \in [Proc -> [Fd -> 0 .. NFILE]]
         /\ cwd' \in [Proc -> 0 .. NINODE] /\ cwd' = cwd
         /\ FileInv' /\ UsesOnly(p) /\ (\A q \in Proc \ {p} : UserInv(q)')
         /\ ftable'[f] = e /\ (\A g \in File \ {f} : ftable'[g] = ftable[g])
    <2>1. cwd' = cwd
      BY DEF Closed
    <2>2. e.ref = ftable[f].ref - 1 /\ ~(e.ref > 0)
      BY DEF NoFile
    <2>3. th[p].fail # "linkbad" /\ e.ref = 0
      BY <1>6 DEF Continues, Linking, NoFile
    <2> QED BY <1>3, <2>1, <2>2, <2>3, ClosedFacts
  <1>10. th'[p] \in Local
    <2>1. "endop" \in Where /\ "iput" \in Putting /\ <<s>> \in Seq(Slot)
      BY <1>7 DEF Where, Putting
    <2> QED BY <1>1, <1>4, <1>5, <2>1, OfLocal, InLocal
  <1>11. Eff(th'[p]) = "endop" /\ Len(th'[p].puts) = 1 /\ (th'[p].puts # <<>> <=> 1 > 0)
    BY <1>5, <1>6 DEF Eff
  <1>12. PathInv(p)'
    <2>1. Variables(th'[p])
      BY <1>5, <1>6, <1>7, <1>8, <1>11, <1>9 DEF Variables, Putting, HasIp, HasDp, Where
    <2>2. Continues(th'[p])
      BY <1>5, <1>6, <1>11, <1>9 DEF Continues, Linking, Failing
    <2>3. Asked(th'[p])
      BY <1>5, <1>6, <1>11 DEF Asked, Serves, Opening, Creating, Naming
    <2> QED BY <2>1, <2>2, <2>3 DEF PathInv
  <1>13. LockInv(p)'
    <2>1. \A x \in Slot : ~Frees(th'[p], x)
      BY <1>5, <1>9 DEF Frees, HasIp, HasDp
    <2>2. \A x \in Slot : ~KeepsLocked(th'[p], x)
      BY <1>5, <1>7, <1>8, <1>11 DEF KeepsLocked, Keeping, HasDp
    <2> QED BY <1>1, <2>1, <2>2, LocksStep
  <1>14. UserInv(p)'
    BY <1>5, <1>6, <1>11, <1>9 DEF UserInv
  <1>15. RefInv'
    <2>1. Held1(p, "put1") = 0 /\ Held1(p, "put1")' = s /\ "put1" \in LocalVar
      BY <1>5, <1>6, <1>11 DEF Held1, LocalVar
    <2>2. \A u \in LocalVar \ {"put1"} : Held1(p, u)' = Held1(p, u)
      BY <1>5, <1>6, <1>11, <1>9 DEF Held1, LocalVar
    <2>3. s = (IF ftable[f].ref > 0 THEN ftable[f].ip ELSE 0) /\ 0 = (IF ftable'[f].ref > 0 THEN ftable'[f].ip ELSE 0)
      BY <1>9
    <2>4. \A x \in Slot : itable'[x].ref = itable[x].ref - One(Held1(p, "put1"), x) + One(Held1(p, "put1")', x)
                                             - One(s, x) + One(0, x)
      BY <1>7, <1>8, <2>1 DEF One
    <2>5. RefInv /\ (\A q \in Proc \ {p} : th'[q] = th[q] /\ cwd'[q] = cwd[q]) /\ \A g \in File \ {f} : ftable'[g] = ftable[g]
      BY <1>3, <1>9 DEF IInv
    <2> QED BY <2>1, <2>2, <2>3, <2>4, <2>5, RefFile
  <1>16. ncalls' \in 0 .. MaxCalls
    BY <1>1 DEF TypeOK, At
  <1> QED
    BY <1>3, <1>8, <1>10, <1>12, <1>13, <1>14, <1>15, <1>16, <1>9, FilesStep DEF At

\* A file keeps a descriptor.
LEMMA CloseStep1 ==
  ASSUME IInv, NEW p \in Proc, NEW a \in {"idle", "exit"}, At(p, a), cwd[p] # 0, NEW d \in Fd, NEW f \in File, f = ofile[p][d],
         NEW e \in OpenFileEntry, ftable[f].ref > 1, e.ref = ftable[f].ref - 1, e.ip = ftable[f].ip,
         Closed(p, d, f, e), NEW w \in {"idle", "exit"},
         Go(p, [at |-> w]), UNCHANGED <<disk, itable, ncalls, lost>>
  PROVE  IInv'
  <1>1. TypeOK /\ PathInv(p) /\ UserInv(p) /\ LockInv(p) /\ th[p] \in Local
    BY DEF IInv, TypeOK
  <1>2. PICK r : r = [at |-> w]
    OBVIOUS
  <1>3. /\ th'[p] = r \oplus th[p] /\ \A q \in Proc \ {p} : th'[q] = th[q]
        /\ th[p] = [k \in Fields |-> th[p][k]]
        /\ th'[p] \in Local => th' \in [Proc -> Local]
    BY <1>1, <1>2, Goes DEF At
  <1>4. /\ th'[p] = [k \in Fields |-> th'[p][k]]
        /\ th'[p] = [k \in Fields |-> IF k = "at" THEN w ELSE th[p][k]]
    <2>1. DOMAIN r = {"at"} /\ r.at = w /\ DOMAIN th[p] = Fields
      BY <1>2, <1>3
    <2> QED BY <1>3, <2>1 DEF \oplus, Fields
  <1>5. /\ th'[p].at = w /\ th'[p].call = th[p].call /\ th'[p].path = th[p].path /\ th'[p].parent = th[p].parent
        /\ th'[p].ok = th[p].ok /\ th'[p].fail = th[p].fail /\ th'[p].then = th[p].then /\ th'[p].puts = th[p].puts
        /\ th'[p].ip = th[p].ip /\ th'[p].dp = th[p].dp /\ th'[p].tgt = th[p].tgt /\ th'[p].inum = th[p].inum
    <2>1. th'[p] = [k \in Fields |-> IF k = "at" THEN w ELSE th[p][k]]
      BY <1>4
    <2> QED BY <2>1 DEF Fields
  <1>6. /\ th[p].at = a /\ th[p].puts = <<>> /\ Eff(th[p]) = a /\ cwd[p] # 0
        /\ Variables(th[p]) /\ Continues(th[p]) /\ Asked(th[p]) /\ \A x \in Slot : ~Frees(th[p], x)
        /\ Held1(p, "put1") = 0 /\ Held1(p, "put2") = 0
        /\ th[p].tgt # 0 <=> th[p].fail = "linkbad"
        /\ th[p].ip = 0 /\ th[p].dp = 0
    <2>1. th[p].at = a /\ th[p].at \notin Putting
      BY DEF At, At, Locks, Putting
    <2> QED BY <2>1, Standing DEF HasIp, HasDp
  <1>7. /\ itable \in Table /\ Coherent(itable, dinode) /\ 0 \notin Slot
        /\ \A x \in Slot : itable[x].ref \in Nat /\ itable[x].inum \in Inum /\ itable[x].d \in Inode
    BY <1>6, InUse, Sizes DEF Slot
  <1>8. /\ itable' \in Table /\ Coherent(itable', dinode) /\ KeptIn(itable', p)
        /\ \A x \in Slot : itable'[x].ref = itable[x].ref
    <2>1. itable' = itable /\ dinode' = dinode
      BY DEF disk, At
    <2> QED BY <1>7, <2>1 DEF KeptIn
  <1>9. /\ e.ref > 0 /\ ftable[f].ref > 0 /\ ftable' \in [File -> OpenFileEntry] /\ ofile' \in [Proc -> [Fd -> 0 .. NFILE]]
         /\ cwd' \in [Proc -> 0 .. NINODE] /\ cwd' = cwd
         /\ FileInv' /\ UsesOnly(p) /\ (\A q \in Proc \ {p} : UserInv(q)')
         /\ ftable'[f] = e /\ (\A g \in File \ {f} : ftable'[g] = ftable[g])
    <2>1. cwd' = cwd
      BY DEF Closed
    <2>2. e.ref > 0 => e.ip = ftable[f].ip
      OBVIOUS
    <2>3. e.ref > 0 /\ ftable[f].ref > 0
      <3>1. ftable[f].ref \in Int
        BY <1>1, Sizes, OpenFd DEF TypeOK, OpenFileEntry, IInv
      <3> QED BY <3>1
    <2> QED BY <1>3, <2>1, <2>2, <2>3, ClosedFacts
  <1>10. th'[p] \in Local
    <2>1. w \in Where
      BY Zenon DEF Where
    <2> QED BY <1>1, <1>4, <1>5, <2>1, OfLocal, InLocal
  <1>11. Eff(th'[p]) = w /\ Len(th'[p].puts) = 0 /\ (th'[p].puts # <<>> <=> 0 > 0)
    BY <1>5, <1>6 DEF Eff
  <1>12. PathInv(p)'
    <2>1. Variables(th'[p])
      BY <1>5, <1>6, <1>7, <1>8, <1>11, <1>9 DEF Variables, Putting, HasIp, HasDp, Where
    <2>2. Continues(th'[p])
      BY <1>5, <1>6, <1>11 DEF Continues, Linking, Failing
    <2>3. Asked(th'[p])
      BY <1>5, <1>6, <1>11 DEF Asked, Serves, Opening, Creating, Naming
    <2> QED BY <2>1, <2>2, <2>3 DEF PathInv
  <1>13. LockInv(p)'
    <2>1. \A x \in Slot : ~Frees(th'[p], x)
      BY <1>5, <1>9 DEF Frees, HasIp, HasDp
    <2>2. \A x \in Slot : ~KeepsLocked(th'[p], x)
      BY <1>5, <1>7, <1>8, <1>11 DEF KeepsLocked, Keeping, HasDp
    <2> QED BY <1>1, <2>1, <2>2, LocksStep
  <1>14. UserInv(p)'
    BY <1>5, <1>6, <1>11, <1>9 DEF UserInv
  <1>15. RefInv'
    <2>1. Held1(p, "ip") = 0 /\ Held1(p, "ip")' = 0 /\ "ip" \in LocalVar
      BY <1>5, <1>6, <1>11 DEF Held1, LocalVar
    <2>2. \A u \in LocalVar \ {"ip"} : Held1(p, u)' = Held1(p, u)
      BY <1>5, <1>6, <1>11, <1>9 DEF Held1, LocalVar
    <2>3. e.ip = (IF ftable[f].ref > 0 THEN ftable[f].ip ELSE 0) /\ e.ip = (IF ftable'[f].ref > 0 THEN ftable'[f].ip ELSE 0)
      BY <1>9
    <2>4. \A x \in Slot : itable'[x].ref = itable[x].ref - One(Held1(p, "ip"), x) + One(Held1(p, "ip")', x)
                                             - One(e.ip, x) + One(e.ip, x)
      BY <1>7, <1>8, <2>1 DEF One
    <2>5. RefInv /\ (\A q \in Proc \ {p} : th'[q] = th[q] /\ cwd'[q] = cwd[q]) /\ \A g \in File \ {f} : ftable'[g] = ftable[g]
      BY <1>3, <1>9 DEF IInv
    <2> QED BY <2>1, <2>2, <2>3, <2>4, <2>5, RefFile
  <1>16. ncalls' \in 0 .. MaxCalls
    BY <1>1 DEF TypeOK, At
  <1> QED
    BY <1>3, <1>8, <1>10, <1>12, <1>13, <1>14, <1>15, <1>16, <1>9, FilesStep DEF At

\* fileclose(), from close() and from exit().
LEMMA FilecloseStep ==
  ASSUME IInv, NEW p \in Proc, NEW a \in {"idle", "exit"}, At(p, a), cwd[p] # 0,
         NEW d \in Fd, NEW op \in {"close", "exit"}, Fileclose(p, d, op)
  PROVE  IInv'
  <1>1. PICK f : f = ofile[p][d]
    OBVIOUS
  <1>2. f # 0
    BY <1>1 DEF Fileclose
  <1>3. f \in File /\ ftable[f].ref > 0 /\ ftable[f].ip \in Slot
    BY <1>1, <1>2, OpenFd DEF IInv
  <1>4. ftable[f] \in OpenFileEntry
    BY <1>3 DEF IInv, TypeOK
  <1>5. UNCHANGED <<disk, itable, cwd, ncalls, lost>>
    BY DEF Fileclose
  <1>6. CASE ftable[f].ref = 1
    <2>1. PICK c, e, s : c = [op |-> op] /\ e = NoFile /\ s = ftable[f].ip
      OBVIOUS
    <2>2. c \in AnyCall
      BY <2>1 DEF AnyCall
    <2>3. e \in OpenFileEntry
      BY <2>1, Sizes DEF OpenFileEntry, NoFile
    <2>4. Closed(p, d, f, e) /\ PutThen(p, <<s>>, "endop", [call |-> c]) /\ ftable[f].ref = 1
      BY <1>1, <1>6, <2>1 DEF Fileclose, Closed
    <2> QED BY <1>1, <1>3, <1>5, <2>1, <2>2, <2>3, <2>4, CloseLastStep
  <1>7. CASE ftable[f].ref # 1
    <2>1. PICK n : n = ftable[f].ref - 1
      OBVIOUS
    <2>2. PICK e, w : e = [ftable[f] EXCEPT !.ref = n] /\ w = (IF op = "exit" THEN "exit" ELSE "idle")
      OBVIOUS
    <2>3. n \in Int /\ ftable[f].ref > 1
      <3>1. PICK m : m = ftable[f].ref
        OBVIOUS
      <3>2. m \in Int
        BY <1>4, <3>1 DEF OpenFileEntry
      <3> QED BY <1>3, <1>7, <2>1, <3>1, <3>2, Positive, Zenon
    <2>4. e \in OpenFileEntry /\ e.ref = ftable[f].ref - 1 /\ e.ip = ftable[f].ip
      BY <1>4, <2>1, <2>2, <2>3 DEF OpenFileEntry
    <2>5. Closed(p, d, f, e) /\ Go(p, [at |-> w])
      <3>1. ftable' = [ftable EXCEPT ![f] = [ftable[f] EXCEPT !.ref = ftable[f].ref - 1]]
        BY <1>1, <1>3, <1>7 DEF Fileclose, IInv, TypeOK
      <3> QED BY <1>1, <1>7, <2>1, <2>2, <3>1 DEF Fileclose, Closed
    <2>6. w \in {"idle", "exit"}
      BY <2>2
    <2> QED BY <1>1, <1>3, <1>5, <2>3, <2>4, <2>5, <2>6, CloseStep1
  <1> QED
    BY <1>6, <1>7

\* A process that exits has a directory.
LEMMA ExitingFacts ==
  ASSUME IInv, NEW p \in Proc, Exiting(p)
  PROVE  th[p].at \in {"idle", "exit"} /\ cwd[p] # 0
  <1>1. CASE At(p, "exit")
    <2>1. th[p].at = "exit" /\ th[p].at \notin Putting
      BY <1>1 DEF At, Putting
    <2> QED BY <2>1, Standing
  <1> QED
    BY <1>1 DEF Exiting, Idle, At

\* close().
LEMMA CloseStep ==
  ASSUME IInv, NEW p \in Proc, NEW d \in Fd, Close(p, d)
  PROVE  IInv'
  BY FilecloseStep DEF Close, Idle

\* exit() closes a descriptor.
LEMMA ExitCloseStep ==
  ASSUME IInv, NEW p \in Proc, NEW d \in Fd, ExitClose(p, d)
  PROVE  IInv'
  <1>1. th[p].at \in {"idle", "exit"} /\ cwd[p] # 0 /\ Fileclose(p, d, "exit")
    BY ExitingFacts DEF ExitClose
  <1>2. PICK a \in {"idle", "exit"} : At(p, a)
    BY <1>1 DEF At
  <1> QED
    BY <1>1, <1>2, FilecloseStep

\* exit() drops the current directory.
LEMMA ExitCwdStep1 ==
  ASSUME IInv, NEW p \in Proc, NEW a \in {"idle", "exit"}, At(p, a), cwd[p] # 0, \A d \in Fd : ofile[p][d] = 0, cwd' = [cwd EXCEPT ![p] = 0],
         PutThen(p, <<cwd[p]>>, "endop", [call |-> NoCall]), UNCHANGED <<disk, itable, ftable, ofile, ncalls, lost>>
  PROVE  IInv'
  <1>1. PICK c, n : c = cwd[p] /\ n = NoCall
    OBVIOUS
  <1>2. TypeOK /\ PathInv(p) /\ UserInv(p) /\ LockInv(p) /\ th[p] \in Local
    BY DEF IInv, TypeOK
  <1>3. PICK r : r = [call |-> n] \oplus [at |-> "iput", puts |-> <<c>>, then |-> "endop"]
    OBVIOUS
  <1>4. /\ th'[p] = r \oplus th[p] /\ \A q \in Proc \ {p} : th'[q] = th[q]
        /\ th[p] = [f \in Fields |-> th[p][f]]
        /\ th'[p] \in Local => th' \in [Proc -> Local]
    BY <1>2, <1>3, <1>1, Goes DEF PutThen
  <1>5. th'[p] = [f \in Fields |-> th'[p][f]]
    BY <1>3, <1>4 DEF \oplus, Fields
  <1>6. /\ th'[p].at = "iput" /\ th'[p].call = n /\ th'[p].path = th[p].path /\ th'[p].parent = th[p].parent
        /\ th'[p].ok = th[p].ok /\ th'[p].fail = th[p].fail /\ th'[p].then = "endop" /\ th'[p].puts = <<c>>
        /\ th'[p].ip = th[p].ip /\ th'[p].dp = th[p].dp /\ th'[p].tgt = th[p].tgt /\ th'[p].inum = th[p].inum
    BY <1>3, <1>4 DEF \oplus, Fields
  <1>7. /\ th[p].at = a /\ th[p].puts = <<>> /\ Eff(th[p]) = a /\ cwd[p] # 0
        /\ Variables(th[p]) /\ Continues(th[p]) /\ Asked(th[p]) /\ \A x \in Slot : ~Frees(th[p], x)
        /\ Held1(p, "put1") = 0 /\ Held1(p, "put2") = 0
        /\ th[p].tgt # 0 <=> th[p].fail = "linkbad"
        /\ th[p].ip = 0 /\ th[p].dp = 0
    <2>1. th[p].at = a /\ th[p].at \notin Putting
      BY DEF At, At, Locks, Putting
    <2> QED BY <2>1, Standing DEF HasIp, HasDp
  <1>8. /\ itable \in Table /\ Coherent(itable, dinode) /\ 0 \notin Slot
        /\ \A x \in Slot : itable[x].ref \in Nat /\ itable[x].inum \in Inum /\ itable[x].d \in Inode
        /\ cwd[p] \in Slot
    BY <1>7, InUse, Sizes DEF Slot
  <1>9. /\ itable' \in Table /\ Coherent(itable', dinode) /\ KeptIn(itable', p)
        /\ \A x \in Slot : itable'[x].ref = itable[x].ref
    <2>1. itable' = itable /\ dinode' = dinode
      BY DEF disk, At
    <2> QED BY <1>8, <2>1 DEF KeptIn
  <1>10. /\ cwd'[p] = 0 /\ cwd' \in [Proc -> 0 .. NINODE] /\ (\A q \in Proc \ {p} : cwd'[q] = cwd[q])
         /\ ftable' = ftable /\ ofile' = ofile /\ dinode' = dinode
         /\ ftable' \in [File -> OpenFileEntry] /\ ofile' \in [Proc -> [Fd -> 0 .. NFILE]]
         /\ FileInv' /\ (\A q \in Proc \ {p} : UserInv(q)') /\ UsesOnly(p) /\ th[p].fail # "linkbad"
         /\ \A d \in Fd : ofile'[p][d] = 0
    <2>1. cwd'[p] = 0 /\ cwd' \in [Proc -> 0 .. NINODE] /\ \A q \in Proc \ {p} : cwd'[q] = cwd[q]
      <3>1. cwd \in [Proc -> 0 .. NINODE] /\ 0 \in 0 .. NINODE
        BY <1>2, Sizes DEF TypeOK
      <3> QED BY <3>1
    <2>2. ftable' = ftable /\ ofile' = ofile /\ ftable' \in [File -> OpenFileEntry] /\ ofile' \in [Proc -> [Fd -> 0 .. NFILE]]
      BY <1>2 DEF TypeOK
    <2>3. FileInv'
      BY <2>2 DEF IInv, FileInv, Descriptors
    <2>4. \A q \in Proc \ {p} : UserInv(q)'
      BY <1>4, <2>1, <2>2 DEF IInv, UserInv
    <2>5. UsesOnly(p)
      <3>1. ASSUME NEW x \in Slot PROVE OpenOn(x)' = OpenOn(x) /\ WorkingIn(x)' \subseteq WorkingIn(x)
        <4>1. x # 0
          BY <1>8
        <4> QED BY <2>1, <2>2, <4>1 DEF OpenOn, WorkingIn
      <3> QED BY <3>1 DEF UsesOnly
    <2>6. th[p].fail # "linkbad"
      BY <1>7 DEF Continues, Linking
    <2> QED BY <2>1, <2>2, <2>3, <2>4, <2>5, <2>6 DEF disk
  <1>11. th'[p] \in Local
    <2>1. "endop" \in Where /\ "iput" \in Putting /\ <<c>> \in Seq(Slot) /\ n \in AnyCall
      BY <1>1, <1>8 DEF Where, Putting, AnyCall
    <2> QED BY <1>2, <1>5, <1>6, <2>1, OfLocal, InLocal
  <1>12. Eff(th'[p]) = "endop" /\ Len(th'[p].puts) = 1 /\ (th'[p].puts # <<>> <=> 1 > 0)
    BY <1>6, <1>7 DEF Eff
  <1>13. PathInv(p)'
    <2>1. Variables(th'[p])
      BY <1>6, <1>7, <1>8, <1>9, <1>12, <1>10 DEF Variables, Putting, HasIp, HasDp, Where
    <2>2. Continues(th'[p])
      BY <1>6, <1>7, <1>12, <1>10 DEF Continues, Linking, Failing
    <2>3. Asked(th'[p])
      BY <1>6, <1>7, <1>12 DEF Asked, Serves, Opening, Creating, Naming
    <2> QED BY <2>1, <2>2, <2>3 DEF PathInv
  <1>14. LockInv(p)'
    <2>1. \A x \in Slot : ~Frees(th'[p], x)
      BY <1>6, <1>10 DEF Frees, HasIp, HasDp
    <2>2. \A x \in Slot : ~KeepsLocked(th'[p], x)
      BY <1>6, <1>8, <1>9, <1>12 DEF KeepsLocked, Keeping, HasDp
    <2> QED BY <1>2, <2>1, <2>2, LocksStep
  <1>15. UserInv(p)'
    BY <1>6, <1>7, <1>12, <1>10 DEF UserInv
  <1>16. RefInv'
    <2>1. /\ Held1(p, "cwd") = c /\ Held1(p, "cwd")' = 0 /\ Held1(p, "ip") = 0 /\ Held1(p, "ip")' = 0
         /\ Held1(p, "put1") = 0 /\ Held1(p, "put1")' = c /\ Held1(p, "put2") = 0 /\ Held1(p, "put2")' = 0
      BY <1>6, <1>7, <1>12, <1>1, <1>10 DEF Held1
    <2>2. \A u \in LocalVar \ {"cwd", "ip", "put1", "put2"} : Held1(p, u)' = Held1(p, u)
      BY <1>6, <1>7, <1>12 DEF Held1, LocalVar, files
    <2>3. "cwd" \in LocalVar /\ "ip" \in LocalVar /\ "put1" \in LocalVar /\ "put2" \in LocalVar /\ "cwd" # "ip" /\ "cwd" # "put1" /\ "cwd" # "put2" /\ "ip" # "put1" /\ "ip" # "put2" /\ "put1" # "put2"
      BY DEF LocalVar
    <2>4. \A x \in Slot : itable'[x].ref = itable[x].ref - One(Held1(p, "cwd"), x) + One(Held1(p, "cwd")', x)
                                             - One(Held1(p, "ip"), x) + One(Held1(p, "ip")', x)
                                             - One(Held1(p, "put1"), x) + One(Held1(p, "put1")', x)
                                             - One(Held1(p, "put2"), x) + One(Held1(p, "put2")', x)
      <3>1. ASSUME NEW x \in Slot, NEW h, h = itable[x].ref
            PROVE  itable'[x].ref = h - One(Held1(p, "cwd"), x) + One(Held1(p, "cwd")', x)
                                             - One(Held1(p, "ip"), x) + One(Held1(p, "ip")', x)
                                             - One(Held1(p, "put1"), x) + One(Held1(p, "put1")', x)
                                             - One(Held1(p, "put2"), x) + One(Held1(p, "put2")', x)
        <4>1. One(0, x) = 0 /\ (\A y : One(y, x) \in Int) /\ h \in Int
          BY <1>8, <3>1 DEF One
        <4>2. itable'[x].ref = h
          BY <1>9, <3>1
        <4> QED BY <2>1, <4>1, <4>2
      <3> QED BY <3>1
    <2>5. RefInv /\ UNCHANGED ftable /\ \A q \in Proc \ {p} : th'[q] = th[q] /\ cwd'[q] = cwd[q]
      BY <1>4, <1>10 DEF IInv, files
    <2> QED BY <2>2, <2>3, <2>4, <2>5, RefFour
  <1>17. ncalls' \in 0 .. MaxCalls
    BY <1>2 DEF TypeOK, At
  <1> QED
    BY <1>4, <1>9, <1>11, <1>13, <1>14, <1>15, <1>16, <1>17, <1>10, FilesStep DEF At

\* exit() is left with its directory.
LEMMA ExitCwdStep ==
  ASSUME IInv, NEW p \in Proc, ExitCwd(p)
  PROVE  IInv'
  <1>1. th[p].at \in {"idle", "exit"} /\ cwd[p] # 0
    BY ExitingFacts DEF ExitCwd
  <1>2. PICK a \in {"idle", "exit"} : At(p, a)
    BY <1>1 DEF At
  <1> QED
    BY <1>1, <1>2, ExitCwdStep1 DEF ExitCwd
-----------------------------------------------------------------------------
(* dup() and fork() *)

\* A process in user space has nothing locked.
LEMMA IdleFacts ==
  ASSUME IInv, NEW p \in Proc, Idle(p)
  PROVE  /\ th[p].at = "idle" /\ cwd[p] # 0 /\ cwd[p] \in Slot /\ itable[cwd[p]].ref > 0
         /\ \A x \in Slot : ~KeepsLocked(th[p], x) /\ ~Frees(th[p], x)
  <1>1. th[p].at = "idle" /\ th[p].at \notin Putting /\ cwd[p] # 0
    BY DEF Idle, At, Putting
  <1>2. Eff(th[p]) = "idle" /\ \A x \in Slot : ~Frees(th[p], x)
    BY <1>1, Standing
  <1>3. \A x \in Slot : ~KeepsLocked(th[p], x)
    BY <1>2 DEF KeepsLocked, Keeping, HasDp
  <1> QED
    BY <1>1, <1>2, <1>3, InUse

\* One descriptor more for an open file.
Duplicated(p, c, f, e) ==
  /\ ofile' = [ofile EXCEPT ![p][c] = f] /\ ftable' = [ftable EXCEPT ![f] = e]
  /\ e.ref = ftable[f].ref + 1 /\ e.ip = ftable[f].ip
  /\ UNCHANGED <<disk, itable, cwd, th, lost>>

\* dup() of file f to descriptor c.
LEMMA DupStep1 ==
  ASSUME IInv, NEW p \in Proc, Idle(p), NEW f \in File, NEW d \in Fd, ofile[p][d] = f,
         NEW c \in Fd, ofile[p][c] = 0, NEW e \in OpenFileEntry, Duplicated(p, c, f, e),
         ncalls' \in 0 .. MaxCalls
  PROVE  IInv'
  <1>1. TypeOK /\ FileInv /\ f # 0 /\ f \in 0 .. NFILE
    BY Sizes DEF IInv, File
  <1>2. /\ ftable[f].ref \in Nat /\ ftable[f].ref > 0
        /\ ftable[f].ref = Cardinality(Descriptors(f)) /\ Descriptors(f) \in SUBSET (Proc \X Fd)
    <2>1. Descriptors(f) \in SUBSET (Proc \X Fd)
      BY DEF Descriptors
    <2>2. ftable[f].ref = Cardinality(Descriptors(f))
      BY <1>1 DEF FileInv
    <2>3. ftable[f].ref > 0
      BY <1>1, OpenFd
    <2> QED BY <2>1, <2>2, <2>3, DescriptorsFinite
  <1>3. /\ ftable' \in [File -> OpenFileEntry] /\ ftable'[f] = e
        /\ \A g \in File \ {f} : ftable'[g] = ftable[g]
    BY <1>1 DEF Duplicated, TypeOK
  <1>4. /\ e.ip = ftable[f].ip /\ e.ref = ftable[f].ref + 1 /\ e.ref > 0
    <2>1. PICK n \in Nat : n = ftable[f].ref
      BY <1>2
    <2>2. e.ip = ftable[f].ip /\ e.ref = n + 1
      BY <2>1 DEF Duplicated
    <2> QED BY <2>1, <2>2
  <1>5. /\ ofile' \in [Proc -> [Fd -> 0 .. NFILE]] /\ ofile'[p][c] = f
        /\ \A x \in Fd \ {c} : ofile'[p][x] = ofile[p][x]
        /\ \A q \in Proc \ {p} : ofile'[q] = ofile[q]
    BY <1>1 DEF Duplicated, TypeOK
  <1>6. /\ itable' = itable /\ th' = th /\ cwd' = cwd /\ dinode' = dinode
        /\ UNCHANGED <<disk, lost>>
    BY DEF Duplicated, disk
  <1>7. FileInv'
    <2>1. ASSUME NEW g \in File \ {f} PROVE Descriptors(g)' = Descriptors(g)
      <3>1. g # 0
        BY Sizes DEF File
      <3>2. ASSUME NEW q \in Proc, NEW x \in Fd PROVE ofile'[q][x] = g <=> ofile[q][x] = g
        BY <1>5, <3>1
      <3> QED BY <3>2 DEF Descriptors
    <2>2. Descriptors(f)' = Descriptors(f) \cup {<<p, c>>}
      <3>1. ASSUME NEW q \in Proc, NEW x \in Fd
            PROVE  ofile'[q][x] = f <=> ofile[q][x] = f \/ <<q, x>> = <<p, c>>
        BY <1>1, <1>5
      <3> QED BY <3>1 DEF Descriptors
    <2>3. <<p, c>> \notin Descriptors(f)
      BY <1>1 DEF Descriptors
    <2>4. Cardinality(Descriptors(f)') = ftable[f].ref + 1
      BY <1>2, <2>2, <2>3, DescriptorsFinite, FS_AddElement
    <2>5. ftable[f].ip # 0
      BY <1>1, OpenFd DEF FileInv
    <2> QED BY <1>1, <1>3, <1>4, <2>1, <2>4, <2>5 DEF FileInv
  <1>8. \A s \in Slot : OpenOn(s)' = OpenOn(s) /\ WorkingIn(s)' = WorkingIn(s)
    BY <1>2, <1>3, <1>4, <1>6 DEF OpenOn, WorkingIn
  <1>9. ASSUME NEW q \in Proc PROVE UserInv(q)'
    <2>1. UserInv(q)
      BY DEF IInv
    <2>2. ASSUME NEW x \in Fd, ofile[q][x] # 0
          PROVE  ofile'[q][x] = ofile[q][x] /\ ftable'[ofile'[q][x]].ip = ftable[ofile[q][x]].ip
      <3>1. ofile'[q][x] = ofile[q][x] /\ ofile[q][x] \in File
        BY <1>1, <1>5, <2>2, OpenFd
      <3> QED BY <1>3, <1>4, <3>1
    <2>3. CASE q = p
      BY <1>6, <2>3, IdleFacts DEF UserInv
    <2>4. CASE q # p
      BY <1>5, <1>6, <2>1, <2>2, <2>4 DEF UserInv
    <2> QED BY <2>3, <2>4
  <1>10. RefInv'
    <2>1. /\ \A u \in LocalVar : Held1(p, u)' = Held1(p, u)
          /\ "ip" \in LocalVar
      BY <1>6 DEF Held1, LocalVar
    <2>2. PICK x : x = ftable[f].ip
      OBVIOUS
    <2>3. x = (IF ftable[f].ref > 0 THEN ftable[f].ip ELSE 0) /\ x = (IF ftable'[f].ref > 0 THEN ftable'[f].ip ELSE 0)
      BY <1>2, <1>3, <1>4, <2>2
    <2>4. \A s \in Slot : itable'[s].ref = itable[s].ref - One(Held1(p, "ip"), s) + One(Held1(p, "ip")', s)
                                                         - One(x, s) + One(x, s)
      <3>1. \A s \in Slot : itable[s].ref \in Nat
        BY VarsAreCounted DEF IInv
      <3> QED BY <1>6, <2>1, <3>1 DEF One
    <2>5. RefInv /\ (\A q \in Proc \ {p} : th'[q] = th[q] /\ cwd'[q] = cwd[q]) /\ \A g \in File \ {f} : ftable'[g] = ftable[g]
      BY <1>3, <1>6 DEF IInv
    <2> QED BY <2>1, <2>3, <2>4, <2>5, RefFile
  <1>11. /\ itable' \in Table /\ Coherent(itable', dinode) /\ KeptIn(itable', p)
         /\ \A q \in Proc \ {p} : th'[q] = th[q]
         /\ th' \in [Proc -> Local] /\ cwd' \in [Proc -> 0 .. NINODE]
         /\ PathInv(p)' /\ LockInv(p)' /\ UsesOnly(p)
    <2>1. itable' \in Table /\ Coherent(itable', dinode) /\ KeptIn(itable', p)
      BY <1>6, InUse DEF KeptIn
    <2>2. th' \in [Proc -> Local] /\ cwd' \in [Proc -> 0 .. NINODE]
      BY <1>1, <1>6 DEF TypeOK
    <2>3. PathInv(p)' /\ LockInv(p)'
      BY <1>6, IdleFacts DEF IInv, PathInv, LockInv
    <2>4. UsesOnly(p)
      BY <1>8 DEF UsesOnly
    <2> QED BY <1>6, <2>1, <2>2, <2>3, <2>4
  <1> QED
    BY <1>3, <1>5, <1>6, <1>7, <1>9, <1>10, <1>11, FilesStep

\* dup().
LEMMA DupStep ==
  ASSUME IInv, NEW p \in Proc, NEW d \in Fd, Dup(p, d)
  PROVE  IInv'
  <1>1. PICK f, c : f = ofile[p][d] /\ c = Least(FreeFds(p))
    OBVIOUS
  <1>2. TypeOK /\ FileInv /\ Idle(p) /\ f # 0
    BY <1>1 DEF Dup, IInv
  <1>3. f \in File /\ ftable[f] \in OpenFileEntry
    BY <1>1, <1>2, OpenFd DEF TypeOK
  <1>4. c \in Fd /\ ofile[p][c] = 0
    <2>1. FreeFds(p) # {} /\ FreeFds(p) \subseteq Nat
      BY Sizes DEF Dup, FreeFds, Fd
    <2>2. c \in FreeFds(p)
      BY <1>1, <2>1, LeastNatural
    <2> QED BY <2>2 DEF FreeFds
  <1>5. PICK n : n = ftable[f].ref + 1
    OBVIOUS
  <1>6. PICK e : e = [ftable[f] EXCEPT !.ref = n]
    OBVIOUS
  <1>7. n \in Int
    BY <1>3, <1>5 DEF OpenFileEntry
  <1>8. e \in OpenFileEntry /\ e.ref = n /\ e.ip = ftable[f].ip
    BY <1>3, <1>6, <1>7 DEF OpenFileEntry
  <1>9. Duplicated(p, c, f, e)
    <2>1. ftable' = [ftable EXCEPT ![f] = e]
      BY <1>1, <1>5, <1>6 DEF Dup
    <2> QED BY <1>1, <1>5, <1>8, <2>1 DEF Dup, Duplicated
  <1>10. ncalls' \in 0 .. MaxCalls
    BY <1>2, Sizes DEF Dup, Calling, TypeOK
  <1> QED
    BY <1>1, <1>2, <1>3, <1>4, <1>8, <1>9, <1>10, DupStep1

\* References stay exact when np gets directory s, and files keep their inodes.
LEMMA RefBirth ==
  ASSUME RefInv, NEW np \in Proc, NEW s \in Slot, cwd[np] = 0, cwd'[np] = s, th' = th,
         \A q \in Proc \ {np} : cwd'[q] = cwd[q],
         \A f \in File : ftable'[f].ip = ftable[f].ip /\ (ftable'[f].ref > 0 <=> ftable[f].ref > 0),
         \A x \in Slot : itable'[x].ref = itable[x].ref + One(s, x)
  PROVE  RefInv'
  <1>1. PICK H : H = Holds
    OBVIOUS
  <1>2. PICK G : G = Holds'
    OBVIOUS
  <1>3. HoldsFacts /\ HoldsFacts'
    BY HoldsAt, PTL
  <1>4. "cwd" \in LocalVar
    BY DEF LocalVar
  <1>5. PICK a \in Holder : a = <<np, "cwd">>
    BY <1>3, <1>4 DEF HoldsFacts
  <1>6. H[a] = 0 /\ G[a] = s
    BY <1>1, <1>2, <1>3, <1>4, <1>5 DEF HoldsFacts, Held1
  <1>7. AllBut(H, G, a)
    <2> SUFFICES ASSUME NEW h \in Holder \ {a} PROVE G[h] = H[h]
      BY DEF AllBut
    <2>1. CASE h \in Proc \X LocalVar
      <3>1. PICK q \in Proc, u \in LocalVar : h = <<q, u>>
        BY <2>1
      <3>2. Held1(q, u)' = Held1(q, u)
        <4>1. q = np => u # "cwd"
          BY <1>5, <3>1
        <4> QED BY <4>1 DEF Held1, LocalVar
      <3> QED BY <1>1, <1>2, <1>3, <3>1, <3>2 DEF HoldsFacts
    <2>2. CASE h \in File \X {"file"}
      <3>1. PICK f \in File : h = <<f, "file">>
        BY <2>2
      <3> QED BY <1>1, <1>2, <1>3, <3>1 DEF HoldsFacts
    <2> QED BY <2>1, <2>2 DEF Holder
  <1>8. ASSUME NEW x \in Slot PROVE itable'[x].ref = Count(G, x)
    <2>1. Count(G, x) = Count(H, x) - One(H[a], x) + One(G[a], x)
      BY <1>5, <1>7, CountOne
    <2>2. itable[x].ref = Count(H, x) /\ Count(H, x) \in Nat
      BY <1>1, HolderFinite DEF RefInv, Count
    <2>3. x # 0
      BY Sizes DEF Slot
    <2> QED BY <1>6, <2>1, <2>2, <2>3 DEF One
  <1> QED
    BY <1>2, <1>8 DEF RefInv

\* The descriptors of p for file f.
Copies(p, f) == {fd \in Fd : ofile[p][fd] = f}

\* np has the files of p besides: what each file is then.
Forked(p, np, s) ==
  /\ ofile' = [ofile EXCEPT ![np] = ofile[p]]
  /\ ftable' = [f \in File |-> [ftable[f] EXCEPT !.ref = ftable[f].ref + Cardinality(Copies(p, f))]]
  /\ cwd' = [cwd EXCEPT ![np] = s]
  /\ UNCHANGED <<disk, th, lost>>

\* Descriptors and files after fork().
LEMMA ForkedFacts ==
  ASSUME IInv, NEW p \in Proc, Idle(p), NEW np \in Proc, At(np, "idle"), cwd[np] = 0,
         NEW s \in Slot, s = cwd[p], Forked(p, np, s)
  PROVE  /\ ftable' \in [File -> OpenFileEntry] /\ ofile' \in [Proc -> [Fd -> 0 .. NFILE]]
         /\ cwd' \in [Proc -> 0 .. NINODE] /\ cwd'[np] = s /\ (\A q \in Proc \ {np} : cwd'[q] = cwd[q])
         /\ FileInv' /\ UsesOnly(p) /\ (\A q \in Proc : UserInv(q)')
         /\ \A f \in File : ftable'[f].ip = ftable[f].ip /\ (ftable'[f].ref > 0 <=> ftable[f].ref > 0)
  <1>1. TypeOK /\ FileInv /\ s \in 0 .. NINODE /\ s # 0 /\ p # np
    BY Sizes DEF IInv, Slot
  <1>2. /\ cwd' \in [Proc -> 0 .. NINODE] /\ cwd'[np] = s /\ (\A q \in Proc \ {np} : cwd'[q] = cwd[q])
    BY <1>1 DEF Forked, TypeOK
  <1>3. /\ ofile' \in [Proc -> [Fd -> 0 .. NFILE]] /\ ofile'[np] = ofile[p]
        /\ \A q \in Proc \ {np} : ofile'[q] = ofile[q]
    <2>1. ofile[p] \in [Fd -> 0 .. NFILE]
      BY <1>1 DEF TypeOK
    <2> QED BY <1>1, <2>1 DEF Forked, TypeOK
  <1>4. \A c \in Fd : ofile[np][c] = 0
    BY <1>1 DEF IInv, UserInv
  <1>5. ASSUME NEW f \in File
        PROVE  /\ f # 0 /\ Descriptors(f) \in SUBSET (Proc \X Fd) /\ {np} \X Copies(p, f) \in SUBSET (Proc \X Fd)
               /\ Descriptors(f) \cap ({np} \X Copies(p, f)) = {}
               /\ Descriptors(f)' = Descriptors(f) \cup ({np} \X Copies(p, f))
    <2>1. f # 0
      BY Sizes DEF File
    <2>2. ASSUME NEW q \in Proc, NEW c \in Fd
          PROVE  ofile'[q][c] = f <=> ofile[q][c] = f \/ (q = np /\ ofile[p][c] = f)
      BY <1>3, <1>4, <2>1
    <2>3. Descriptors(f)' = Descriptors(f) \cup ({np} \X Copies(p, f))
      BY <2>2 DEF Descriptors, Copies
    <2>4. Descriptors(f) \cap ({np} \X Copies(p, f)) = {}
      BY <1>4, <2>1 DEF Descriptors
    <2> QED BY <2>1, <2>3, <2>4 DEF Descriptors, Copies
  <1>6. ASSUME NEW f \in File
        PROVE  /\ Cardinality({np} \X Copies(p, f)) = Cardinality(Copies(p, f))
               /\ Cardinality(Copies(p, f)) \in Nat
               /\ Cardinality(Copies(p, f)) > 0 => Descriptors(f) # {}
    <2>1. IsFiniteSet(Fd) /\ Copies(p, f) \subseteq Fd
      <3>1. IsFiniteSet(Fd)
        BY Sizes, FS_Interval DEF Fd
      <3> QED BY <3>1 DEF Copies
    <2>2. IsFiniteSet(Copies(p, f)) /\ Cardinality(Copies(p, f)) \in Nat
      BY <2>1, FS_Subset, FS_CardinalityType
    <2>3. IsFiniteSet({np}) /\ Cardinality({np}) = 1
      BY FS_Singleton
    <2>4. Cardinality({np} \X Copies(p, f)) = 1 * Cardinality(Copies(p, f))
      BY <2>2, <2>3, FS_Product
    <2>5. ASSUME NEW c \in Copies(p, f) PROVE Descriptors(f) # {}
      <3>1. <<p, c>> \in Descriptors(f)
        BY DEF Copies, Descriptors
      <3> QED BY <3>1
    <2>6. Copies(p, f) = {} => Cardinality(Copies(p, f)) = 0
      BY FS_EmptySet
    <2> QED BY <2>2, <2>4, <2>5, <2>6
  <1>7. ASSUME NEW f \in File
        PROVE  /\ ftable[f].ref \in Nat /\ ftable'[f] \in OpenFileEntry
               /\ ftable'[f].ref = ftable[f].ref + Cardinality(Copies(p, f)) /\ ftable'[f].ip = ftable[f].ip
               /\ ftable'[f].ref = Cardinality(Descriptors(f)')
               /\ ftable'[f].ref > 0 <=> ftable[f].ref > 0
    <2>1. PICK k \in Nat : k = Cardinality(Copies(p, f))
      BY <1>6
    <2>2. PICK m : m = ftable[f].ref
      OBVIOUS
    <2>3. m \in Nat /\ m = Cardinality(Descriptors(f)) /\ (m = 0 <=> Descriptors(f) = {})
      BY <1>1, <1>5, <2>2, DescriptorsFinite DEF FileInv
    <2>4. PICK e : e = [ftable[f] EXCEPT !.ref = m + k]
      OBVIOUS
    <2>5. ftable[f] \in OpenFileEntry /\ m + k \in Int
      BY <1>1, <2>3 DEF TypeOK
    <2>6. e \in OpenFileEntry /\ e.ref = m + k /\ e.ip = ftable[f].ip
      BY <2>4, <2>5 DEF OpenFileEntry
    <2>7. ftable'[f] = e
      BY <2>1, <2>2, <2>4 DEF Forked
    <2>8. Cardinality(Descriptors(f)') = m + k
      <3>1. PICK A, B : A = Descriptors(f) /\ B = {np} \X Copies(p, f)
        OBVIOUS
      <3>2. A \cap B = {} /\ Descriptors(f)' = A \cup B /\ IsFiniteSet(A) /\ IsFiniteSet(B)
        BY <1>5, <3>1, DescriptorsFinite
      <3>3. Cardinality(A) = m /\ Cardinality(B) = k
        BY <1>6, <2>1, <2>3, <3>1
      <3>4. Cardinality(A \cup B) = Cardinality(A) + Cardinality(B) - Cardinality(A \cap B)
        BY <3>2, FS_Union
      <3>5. Cardinality(A \cap B) = 0
        BY <3>2, FS_EmptySet
      <3> QED BY <2>1, <2>3, <3>2, <3>3, <3>4, <3>5
    <2>9. m + k > 0 <=> m > 0
      <3>1. k > 0 => m # 0
        BY <1>6, <2>1, <2>3
      <3> QED BY <2>1, <2>3, <3>1
    <2> QED BY <2>1, <2>2, <2>3, <2>6, <2>7, <2>8, <2>9
  <1>8. ftable' \in [File -> OpenFileEntry]
    <2>1. ftable' = [f \in File |-> ftable'[f]]
      BY DEF Forked
    <2> QED BY <1>7, <2>1
  <1>9. FileInv'
    BY <1>1, <1>7 DEF FileInv
  <1>10. ASSUME NEW q \in Proc PROVE UserInv(q)'
    <2>1. UserInv(q) /\ th' = th
      BY DEF IInv, Forked
    <2>2. CASE q = np
      BY <1>1, <1>2, <2>1, <2>2 DEF UserInv, At
    <2>3. CASE q # np
      <3>1. ASSUME NEW c \in Fd, ofile[q][c] # 0 PROVE ftable'[ofile'[q][c]].ip = ftable[ofile[q][c]].ip
        BY <1>1, <1>3, <1>7, <2>3, <3>1, OpenFd
      <3> QED BY <1>2, <1>3, <2>1, <2>3, <3>1 DEF UserInv
    <2> QED BY <2>2, <2>3
  <1>11. UsesOnly(p)
    <2>1. ASSUME NEW x \in Slot PROVE OpenOn(x)' = OpenOn(x) /\ (WorkingIn(x)' # {} => WorkingIn(x) # {})
      <3>1. OpenOn(x)' = OpenOn(x)
        BY <1>7 DEF OpenOn
      <3>2. ASSUME NEW q \in WorkingIn(x)' PROVE WorkingIn(x) # {}
        BY <1>2, <3>2 DEF WorkingIn
      <3> QED BY <3>1, <3>2
    <2> QED BY <2>1 DEF UsesOnly
  <1> QED
    BY <1>2, <1>3, <1>7, <1>8, <1>9, <1>10, <1>11

\* fork().
LEMMA ForkStep ==
  ASSUME IInv, NEW p \in Proc, NEW np \in Proc, Fork(p, np)
  PROVE  IInv'
  <1>1. Idle(p) /\ At(np, "idle") /\ cwd[np] = 0 /\ TypeOK
    BY DEF Fork, IInv
  <1>2. PICK s \in Slot, n \in Int : s = cwd[p] /\ n = itable[s].ref + 1 /\ itable[s].ref > 0
    <2>1. cwd[p] \in Slot /\ itable[cwd[p]].ref > 0
      BY <1>1, IdleFacts
    <2>2. itable[cwd[p]].ref \in Nat
      BY <2>1, InUse
    <2> QED BY <2>1, <2>2
  <1>3. RefTo(itable, itable', s, n)
    BY <1>2 DEF Fork, RefTo
  <1>4. /\ itable' \in Table /\ Coherent(itable', dinode) /\ KeptIn(itable', p) /\ itable'[s].ref = n
        /\ \A x \in Slot \ {s} : itable'[x] = itable[x]
    BY <1>2, <1>3, RefChanged
  <1>5. Forked(p, np, s)
    BY <1>2 DEF Fork, Forked, Shared, Copies
  <1>6. /\ ftable' \in [File -> OpenFileEntry] /\ ofile' \in [Proc -> [Fd -> 0 .. NFILE]]
        /\ cwd' \in [Proc -> 0 .. NINODE] /\ cwd'[np] = s /\ (\A q \in Proc \ {np} : cwd'[q] = cwd[q])
        /\ FileInv' /\ UsesOnly(p) /\ (\A q \in Proc : UserInv(q)')
        /\ \A f \in File : ftable'[f].ip = ftable[f].ip /\ (ftable'[f].ref > 0 <=> ftable[f].ref > 0)
    BY <1>1, <1>2, <1>5, ForkedFacts
  <1>7. UNCHANGED <<disk, lost>> /\ th' = th
    BY DEF Fork
  <1>8. /\ \A q \in Proc \ {p} : th'[q] = th[q]
        /\ th' \in [Proc -> Local]
    BY <1>1, <1>7 DEF TypeOK
  <1>9. PathInv(p)' /\ LockInv(p)'
    <2>1. \A x \in Slot : ~KeepsLocked(th'[p], x) /\ ~Frees(th'[p], x)
      BY <1>1, <1>7, IdleFacts
    <2> QED BY <1>7, <2>1 DEF IInv, PathInv, LockInv
  <1>10. RefInv'
    <2>1. \A x \in Slot : itable'[x].ref = itable[x].ref + One(s, x)
      <3>1. \A x \in Slot : itable[x].ref \in Nat
        BY InUse
      <3> QED BY <1>2, <1>4, <3>1 DEF One
    <2>2. RefInv
      BY DEF IInv
    <2> QED BY <1>1, <1>6, <1>7, <2>1, <2>2, RefBirth
  <1>11. ncalls' \in 0 .. MaxCalls
    BY <1>1, Sizes DEF Fork, Calling, TypeOK
  <1> QED
    BY <1>4, <1>6, <1>7, <1>8, <1>9, <1>10, <1>11, FilesStep
-----------------------------------------------------------------------------
(* iput() *)

\* Where a path that drops references stands; the first of them is s.
PuttingAt(p, s) ==
  /\ th[p].puts # <<>> /\ th[p].puts \in Seq(Slot) /\ Len(th[p].puts) \in {1, 2} /\ th[p].puts[1] = s /\ Head(th[p].puts) = s
  /\ s \in Slot /\ itable[s].ref > 0 /\ Held1(p, "put1") = s
  /\ Eff(th[p]) = th[p].then /\ th[p].then \in Where /\ th[p].then \notin {"writei", "opentrunc"}
  /\ Held1(p, "ip") = th[p].ip

\* Such a path has references to drop.
LEMMA PuttingFacts ==
  ASSUME IInv, NEW p \in Proc, th[p].at \in Putting
  PROVE  \E s \in Slot : PuttingAt(p, s)
  <1>1. Variables(th[p]) /\ Continues(th[p]) /\ th[p] \in Local
    BY DEF IInv, PathInv, TypeOK
  <1>2. PICK q, n : q = th[p].puts /\ n = Len(q)
    OBVIOUS
  <1>3. q # <<>> /\ q \in Seq(Slot) /\ n <= 2
    BY <1>1, <1>2, OfLocal DEF Variables
  <1>4. n \in {1, 2} /\ q[1] = Head(q) /\ q[1] \in Slot
    <2>1. n \in Nat /\ n # 0
      BY <1>2, <1>3, EmptySeq, LenProperties
    <2>2. n \in {1, 2}
      BY <1>3, <2>1
    <2> QED BY <1>2, <1>3, <2>2, ElementOfSeq
  <1>5. itable[q[1]].ref > 0 /\ Held1(p, "put1") = q[1]
    <2>1. Len(th[p].puts) >= 1
      BY <1>2, <1>4
    <2> QED BY <1>2, <2>1, InUse DEF Held1
  <1>6. Eff(th[p]) = th[p].then
    BY <1>2, <1>3 DEF Eff
  <1>7. th[p].then \in Where /\ th[p].then \notin {"writei", "opentrunc"}
    BY <1>1, <1>2, <1>3, <1>6 DEF Variables, Continues
  <1>8. Held1(p, "ip") = th[p].ip
    BY DEF Held1, Putting
  <1> QED
    BY <1>2, <1>3, <1>4, <1>5, <1>6, <1>7, <1>8 DEF PuttingAt

\* The path waits at another place of iput().
LEMMA PutMoves ==
  ASSUME IInv, NEW p \in Proc, th[p].at \in Putting, NEW w \in Putting, Go(p, [at |-> w]), UNCHANGED files
  PROVE  /\ \A q \in Proc \ {p} : th'[q] = th[q]
         /\ th' \in [Proc -> Local] /\ PathInv(p)' /\ UserInv(p)'
         /\ th'[p].at = w /\ th'[p].puts = th[p].puts
         /\ \A u \in LocalVar : Held1(p, u)' = Held1(p, u)
         /\ \A x \in Slot : KeepsLocked(th'[p], x) <=> KeepsLocked(th[p], x)
         /\ \A x \in Slot : OpenOn(x)' = OpenOn(x) /\ WorkingIn(x)' = WorkingIn(x)
  <1>1. TypeOK /\ PathInv(p) /\ UserInv(p) /\ th[p] \in Local
    BY DEF IInv, TypeOK
  <1>2. PICK r : r = [at |-> w]
    OBVIOUS
  <1>3. /\ th'[p] = r \oplus th[p] /\ \A q \in Proc \ {p} : th'[q] = th[q]
        /\ th[p] = [f \in Fields |-> th[p][f]]
        /\ th'[p] \in Local => th' \in [Proc -> Local]
    BY <1>1, <1>2, Goes
  <1>4. /\ th'[p] = [f \in Fields |-> th'[p][f]]
        /\ th'[p] = [f \in Fields |-> IF f = "at" THEN w ELSE th[p][f]]
    <2>1. DOMAIN r = {"at"} /\ r.at = w /\ DOMAIN th[p] = Fields
      BY <1>2, <1>3
    <2> QED BY <1>3, <2>1 DEF \oplus, Fields
  <1>5. /\ th'[p].at = w /\ th'[p].call = th[p].call /\ th'[p].path = th[p].path /\ th'[p].parent = th[p].parent
        /\ th'[p].ok = th[p].ok /\ th'[p].fail = th[p].fail /\ th'[p].then = th[p].then /\ th'[p].puts = th[p].puts
        /\ th'[p].ip = th[p].ip /\ th'[p].dp = th[p].dp /\ th'[p].tgt = th[p].tgt /\ th'[p].inum = th[p].inum
    BY <1>4 DEF Fields
  <1>6. th'[p] \in Local
    BY <1>1, <1>4, <1>5, OfLocal, InLocal
  <1>7. PuttingAt(p, th[p].puts[1])
    BY PuttingFacts DEF PuttingAt
  <1>8. Eff(th'[p]) = Eff(th[p]) /\ th[p].puts # <<>>
    BY <1>5, <1>7 DEF Eff, PuttingAt
  <1>9. PathInv(p)'
    <2>1. Variables(th'[p])
      BY <1>1, <1>5, <1>8 DEF Variables, PathInv, Putting
    <2>2. Continues(th'[p]) /\ Asked(th'[p])
      BY <1>1, <1>5, <1>8 DEF Continues, Asked, PathInv
    <2> QED BY <2>1, <2>2 DEF PathInv
  <1>10. UserInv(p)'
    BY <1>1, <1>5, <1>8 DEF UserInv, Putting, files
  <1>11. \A u \in LocalVar : Held1(p, u)' = Held1(p, u)
    BY <1>5 DEF Held1, LocalVar, Putting, files
  <1>12. \A x \in Slot : KeepsLocked(th'[p], x) <=> KeepsLocked(th[p], x)
    BY <1>5, <1>8 DEF KeepsLocked
  <1>13. \A x \in Slot : OpenOn(x)' = OpenOn(x) /\ WorkingIn(x)' = WorkingIn(x)
    BY DEF OpenOn, WorkingIn, files
  <1> QED
    BY <1>3, <1>5, <1>6, <1>9, <1>10, <1>11, <1>12, <1>13

\* Entry s of u has been locked by p.
LockedBy(t, u, s, p) == u = [t EXCEPT ![s].lock = p]

\* The last reference goes: p locks the entry to free the inode.
LEMMA IPutLastStep ==
  ASSUME IInv, NEW p \in Proc, th[p].at = "iput", NEW s \in Slot, PuttingAt(p, s), LastUnlinked(s), itable[s].lock = None,
         LockedBy(itable, itable', s, p), Go(p, [at |-> "itrunc"]), UNCHANGED <<disk, files, ncalls, lost>>
  PROVE  IInv'
  <1>1. TypeOK /\ RefInv /\ LockInv(p) /\ th[p].at \in Putting /\ "itrunc" \in Putting
    BY DEF IInv, Putting
  <1>2. /\ \A q \in Proc \ {p} : th'[q] = th[q]
        /\ th' \in [Proc -> Local] /\ PathInv(p)' /\ UserInv(p)'
        /\ th'[p].at = "itrunc" /\ th'[p].puts = th[p].puts
        /\ \A u \in LocalVar : Held1(p, u)' = Held1(p, u)
        /\ \A x \in Slot : KeepsLocked(th'[p], x) <=> KeepsLocked(th[p], x)
        /\ \A x \in Slot : OpenOn(x)' = OpenOn(x) /\ WorkingIn(x)' = WorkingIn(x)
    BY <1>1, PutMoves
  <1>3. /\ itable \in Table /\ Coherent(itable, dinode) /\ itable[s] \in Entry
    BY InUse DEF Table
  <1>4. PICK e : e = [itable[s] EXCEPT !.lock = p]
    OBVIOUS
  <1>5. /\ e \in Entry /\ e.lock = p /\ e.valid = itable[s].valid /\ e.ref = itable[s].ref
        /\ e.inum = itable[s].inum /\ e.d = itable[s].d
    BY <1>3, <1>4 DEF Entry
  <1>6. itable' \in Table /\ itable'[s] = e /\ \A x \in Slot \ {s} : itable'[x] = itable[x]
    <2>1. itable' = [itable EXCEPT ![s] = e]
      BY <1>4 DEF LockedBy
    <2> QED BY <1>3, <1>5, <2>1 DEF Table
  <1>7. \A x \in Slot : /\ itable'[x].ref = itable[x].ref /\ itable'[x].inum = itable[x].inum
                        /\ itable'[x].valid = itable[x].valid /\ itable'[x].d = itable[x].d
                        /\ itable'[x].lock = (IF x = s THEN p ELSE itable[x].lock)
    BY <1>5, <1>6
  <1>8. Coherent(itable', dinode) /\ KeptIn(itable', p)
    BY <1>3, <1>7 DEF Coherent, KeptIn
  <1>9. OpenOn(s) = {} /\ WorkingIn(s) = {}
    <2>1. itable[s].ref = 1 /\ Held1(p, "put1") = s /\ "put1" \in LocalVar \ {"cwd"}
      BY DEF LastUnlinked, PuttingAt, LocalVar
    <2> QED BY <1>1, <2>1, VarsAreCounted
  <1>10. \A x \in Slot : Frees(th'[p], x) => x = s
    BY <1>2 DEF Frees, PuttingAt
  <1>11. \A x \in Slot : KeepsLocked(th[p], x) => itable[x].lock = p /\ itable[x].valid /\ x # s
    <2>1. p # None
      BY Sizes
    <2> QED BY <1>1, <2>1 DEF LockInv
  <1>12. LockInv(p)'
    <2> SUFFICES ASSUME NEW x \in Slot
                 PROVE  /\ KeepsLocked(th'[p], x) \/ Frees(th'[p], x) => itable'[x].lock = p /\ itable'[x].valid
                        /\ Frees(th'[p], x) =>
                             /\ OpenOn(x)' = {} /\ WorkingIn(x)' = {} /\ ~KeepsLocked(th'[p], x)
                             /\ At(p, "ifree")' => itable'[x].d.addrs = {}
      BY DEF LockInv
    <2>1. itable[s].valid
      BY DEF LastUnlinked
    <2>2. ~At(p, "ifree")'
      BY <1>2 DEF At
    <2> QED BY <1>2, <1>7, <1>9, <1>10, <1>11, <2>1, <2>2
  <1>13. RefInv'
    BY <1>2, <1>7, RefSame DEF files
  <1>14. ncalls' \in 0 .. MaxCalls
    BY <1>1 DEF TypeOK
  <1> QED
    BY <1>2, <1>6, <1>8, <1>12, <1>13, <1>14, TableStep

\* itrunc().
LEMMA IPutTruncStep ==
  ASSUME IInv, NEW p \in Proc, IPutTrunc(p)
  PROVE  IInv'
  <1>1. TypeOK /\ BlockInv /\ LockInv(p) /\ th[p].at = "itrunc" /\ th[p].at \in Putting /\ "ifree" \in Putting
    BY DEF IInv, IPutTrunc, At, Putting
  <1>2. PICK s \in Slot : PuttingAt(p, s)
    BY <1>1, PuttingFacts
  <1>3. UNCHANGED <<files, ncalls, lost>> /\ Go(p, [at |-> "ifree"])
    BY DEF IPutTrunc
  <1>4. /\ \A q \in Proc \ {p} : th'[q] = th[q]
        /\ th' \in [Proc -> Local] /\ PathInv(p)' /\ UserInv(p)'
        /\ th'[p].at = "ifree" /\ th'[p].puts = th[p].puts
        /\ \A u \in LocalVar : Held1(p, u)' = Held1(p, u)
        /\ \A x \in Slot : KeepsLocked(th'[p], x) <=> KeepsLocked(th[p], x)
        /\ \A x \in Slot : OpenOn(x)' = OpenOn(x) /\ WorkingIn(x)' = WorkingIn(x)
    BY <1>1, <1>3, PutMoves
  <1>5. Frees(th[p], s) /\ \A x \in Slot : Frees(th[p], x) \/ Frees(th'[p], x) => x = s
    BY <1>1, <1>2, <1>4 DEF Frees, PuttingAt
  <1>6. /\ itable[s].lock = p /\ itable[s].valid /\ OpenOn(s) = {} /\ WorkingIn(s) = {} /\ ~KeepsLocked(th[p], s)
        /\ itable[s].ref > 0
    BY <1>1, <1>2, <1>5 DEF LockInv, PuttingAt
  <1>7. itable \in Table /\ Coherent(itable, dinode) /\ itable[s].d \in Inode /\ itable[s].d.type # "none"
    BY <1>6, InUse DEF Coherent
  <1>8. PICK d : d = [itable[s].d EXCEPT !.addrs = {}]
    OBVIOUS
  <1>9. d \in Inode /\ d.type # "none" /\ d.addrs = {}
    BY <1>7, <1>8 DEF Inode
  <1>10. Iupdate(itable, s, d) /\ used' = used \ itable[s].d.addrs
    BY <1>2, <1>8 DEF IPutTrunc, Trunc, PuttingAt
  <1>11. PICK i : i = itable[s].inum
    OBVIOUS
  <1>12. /\ But(itable, itable', s) /\ Coherent(itable', dinode') /\ i \in Inum
         /\ itable'[s].lock = itable[s].lock /\ itable'[s].valid = itable[s].valid /\ itable'[s].d = d
         /\ itable'[s].ref = itable[s].ref /\ itable'[s].inum = itable[s].inum
         /\ dinode' \in [Inum -> Inode] /\ dinode'[i] = d
         /\ \A j \in Inum \ {i} : dinode'[j] = dinode[j]
         /\ itable[s].d = dinode[i]
    BY <1>1, <1>6, <1>7, <1>9, <1>10, <1>11, Iupdated
  <1>13. BlockInv'
    <2>1. /\ dinode'[i].addrs = {} /\ used' = (used \ dinode[i].addrs) \cup {}
          /\ {} \cap (used \ dinode[i].addrs) = {}
      BY <1>9, <1>10, <1>12
    <2> QED BY <1>1, <1>9, <1>12, <2>1, BlocksChange
  <1>14. /\ KeptIn(itable', p) /\ itable' \in Table /\ (\A x \in Slot : itable'[x].ref = itable[x].ref)
         /\ \A x \in Slot \ {s} : itable'[x] = itable[x]
    BY <1>6, <1>12 DEF But, KeptIn
  <1>15. LockInv(p)'
    <2> SUFFICES ASSUME NEW x \in Slot
                 PROVE  /\ KeepsLocked(th'[p], x) \/ Frees(th'[p], x) => itable'[x].lock = p /\ itable'[x].valid
                        /\ Frees(th'[p], x) =>
                             /\ OpenOn(x)' = {} /\ WorkingIn(x)' = {} /\ ~KeepsLocked(th'[p], x)
                             /\ At(p, "ifree")' => itable'[x].d.addrs = {}
      BY DEF LockInv
    <2>1. KeepsLocked(th[p], x) => itable[x].lock = p /\ itable[x].valid
      BY <1>1 DEF LockInv
    <2> QED BY <1>4, <1>5, <1>6, <1>9, <1>12, <1>14, <2>1
  <1>16. RefInv'
    BY <1>3, <1>4, <1>14, RefSame DEF files
  <1>17. /\ dir' \in [Inum -> [Name -> 0 .. NINODES]] /\ lost' \subseteq Inum /\ used' \subseteq Block
         /\ ncalls' \in 0 .. MaxCalls
    <2>1. PICK z : z = [n \in Name |-> 0]
      OBVIOUS
    <2>2. z \in [Name -> 0 .. NINODES]
      BY <2>1, Sizes
    <2>3. dir' = [dir EXCEPT ![i] = z]
      BY <1>2, <1>11, <2>1 DEF IPutTrunc, PuttingAt
    <2> QED BY <1>1, <1>3, <1>10, <2>2, <2>3 DEF TypeOK
  <1>18. \A j \in Inum : dinode'[j].type = "none" => dinode[j].type = "none"
    BY <1>9, <1>12
  <1> QED
    BY <1>3, <1>4, <1>12, <1>13, <1>14, <1>15, <1>16, <1>17, <1>18, DiskStep

\* Entry s becomes e, whose inode is written to the disk.
Freed(s, e) ==
  /\ itable' = [itable EXCEPT ![s] = e] /\ dinode' = [dinode EXCEPT ![itable[s].inum] = e.d]
  /\ e.lock = None /\ e.valid = FALSE /\ e.ref = itable[s].ref /\ e.inum = itable[s].inum
  /\ e.d.type = "none" /\ e.d.addrs = itable[s].d.addrs

\* type = 0, on the disk too.
LEMMA FreedFacts ==
  ASSUME IInv, NEW p \in Proc, NEW s \in Slot, itable[s].lock = p, itable[s].valid, itable[s].ref > 0,
         itable[s].d.addrs = {}, NEW e \in Entry, Freed(s, e), UNCHANGED used
  PROVE  /\ itable' \in Table /\ Coherent(itable', dinode') /\ KeptIn(itable', p)
         /\ \A x \in Slot : itable'[x].ref = itable[x].ref
         /\ \A x \in Slot \ {s} : itable'[x] = itable[x]
         /\ dinode' \in [Inum -> Inode] /\ BlockInv'
         /\ \A j \in Inum : dinode'[j].type = "none" => dinode[j].type = "none" \/ itable[s].inum = j
  <1>1. TypeOK /\ BlockInv /\ itable \in Table /\ Coherent(itable, dinode) /\ itable[s].inum \in Inum
    BY InUse DEF IInv
  <1>2. PICK i \in Inum : i = itable[s].inum
    BY <1>1
  <1>3. PICK d \in Inode : d = e.d
    BY DEF Entry
  <1>4. d.type = "none" /\ d.addrs = {}
    BY <1>3 DEF Freed
  <1>5. itable' \in Table /\ itable'[s] = e /\ \A x \in Slot \ {s} : itable'[x] = itable[x]
    BY <1>1 DEF Freed, Table
  <1>6. dinode' \in [Inum -> Inode] /\ dinode'[i] = d /\ \A j \in Inum \ {i} : dinode'[j] = dinode[j]
    BY <1>1, <1>2, <1>3 DEF Freed, TypeOK
  <1>7. e.ref = itable[s].ref /\ e.inum = i /\ e.valid = FALSE
    BY <1>2 DEF Freed
  <1>8. \A x \in Slot : itable'[x].ref = itable[x].ref /\ itable'[x].inum = itable[x].inum
    BY <1>2, <1>5, <1>7
  <1>9. KeptIn(itable', p)
    BY <1>5, <1>8 DEF KeptIn
  <1>10. Coherent(itable', dinode')
    <2>1. ASSUME NEW x \in Slot, itable'[x].ref > 0, itable'[x].valid = TRUE
          PROVE  itable'[x].d = dinode'[itable'[x].inum] /\ itable'[x].d.type # "none"
      <3>1. x # s
        BY <1>5, <1>7, <2>1
      <3>2. itable'[x] = itable[x]
        BY <1>5, <3>1
      <3>3. itable[x].inum # i /\ itable[x].inum \in Inum
        BY <1>1, <1>2, <2>1, <3>1, <3>2 DEF Coherent, Table, Entry
      <3>4. dinode'[itable[x].inum] = dinode[itable[x].inum]
        BY <1>6, <3>3
      <3> QED BY <1>1, <2>1, <3>2, <3>4 DEF Coherent
    <2>2. \A x \in Slot : itable'[x].valid \in BOOLEAN
      BY <1>5 DEF Table, Entry
    <2>3. \A x, y \in Slot : itable'[x].ref > 0 /\ itable'[y].ref > 0 /\ itable'[x].inum = itable'[y].inum => x = y
      BY <1>1, <1>8 DEF Coherent
    <2> QED BY <2>1, <2>2, <2>3 DEF Coherent
  <1>11. BlockInv'
    <2>1. dinode[i].addrs = {}
      BY <1>1, <1>2 DEF Coherent
    <2>2. \A j \in Inum : dinode'[j].addrs = dinode[j].addrs
      BY <1>4, <1>6, <2>1
    <2>3. BlocksOwnedOnce'
      <3>1. {dinode'[j].addrs : j \in Inum} = {dinode[j].addrs : j \in Inum}
        BY <2>2
      <3>2. used' = UNION {dinode'[j].addrs : j \in Inum}
        BY <1>1, <3>1 DEF BlockInv, BlocksOwnedOnce
      <3>3. \A j, k \in Inum : j # k => dinode'[j].addrs \cap dinode'[k].addrs = {}
        BY <1>1, <2>2 DEF BlockInv, BlocksOwnedOnce
      <3> QED BY <3>2, <3>3 DEF BlocksOwnedOnce
    <2>4. \A j \in Inum : dinode'[j].type = "none" => dinode'[j].addrs = {}
      BY <1>1, <1>4, <1>6 DEF BlockInv
    <2> QED BY <2>3, <2>4 DEF BlockInv
  <1>12. \A j \in Inum : dinode'[j].type = "none" => dinode[j].type = "none" \/ itable[s].inum = j
    BY <1>2, <1>6
  <1> QED
    BY <1>5, <1>6, <1>8, <1>9, <1>10, <1>11, <1>12

\* The inode is free on the disk, and its entry is let go.
LEMMA IPutFreeStep ==
  ASSUME IInv, NEW p \in Proc, IPutFree(p)
  PROVE  IInv'
  <1>1. TypeOK /\ LockInv(p) /\ th[p].at = "ifree" /\ th[p].at \in Putting /\ "idrop" \in Putting
    BY DEF IInv, IPutFree, At, Putting
  <1>2. PICK s \in Slot : PuttingAt(p, s)
    BY <1>1, PuttingFacts
  <1>3. UNCHANGED <<dir, used, files, ncalls>> /\ Go(p, [at |-> "idrop"])
    BY DEF IPutFree
  <1>4. /\ \A q \in Proc \ {p} : th'[q] = th[q]
        /\ th' \in [Proc -> Local] /\ PathInv(p)' /\ UserInv(p)'
        /\ th'[p].at = "idrop" /\ th'[p].puts = th[p].puts
        /\ \A u \in LocalVar : Held1(p, u)' = Held1(p, u)
        /\ \A x \in Slot : KeepsLocked(th'[p], x) <=> KeepsLocked(th[p], x)
    BY <1>1, <1>3, PutMoves
  <1>5. Frees(th[p], s) /\ \A x \in Slot : ~Frees(th'[p], x)
    BY <1>1, <1>2, <1>4 DEF Frees, PuttingAt
  <1>6. /\ itable[s].lock = p /\ itable[s].valid /\ ~KeepsLocked(th[p], s) /\ itable[s].ref > 0
        /\ itable[s].d.addrs = {}
    BY <1>1, <1>2, <1>5 DEF LockInv, PuttingAt, At
  <1>7. itable[s] \in Entry /\ itable[s].d \in Inode /\ itable \in Table
    BY InUse DEF Table
  <1>8. PICK d, g : d = [itable[s].d EXCEPT !.type = "none"] /\ g = [itable[s] EXCEPT !.valid = FALSE, !.lock = None]
    OBVIOUS
  <1>9. d \in Inode /\ d.type = "none" /\ d.addrs = itable[s].d.addrs
    BY <1>7, <1>8 DEF Inode
  <1>10. /\ g \in Entry /\ g.lock = None /\ g.valid = FALSE /\ g.ref = itable[s].ref /\ g.inum = itable[s].inum
    BY <1>7, <1>8 DEF Entry
  <1>11. PICK e : e = [g EXCEPT !.d = d]
    OBVIOUS
  <1>12. /\ e \in Entry /\ e.lock = None /\ e.valid = FALSE /\ e.ref = itable[s].ref /\ e.inum = itable[s].inum
         /\ e.d = d
    BY <1>9, <1>10, <1>11 DEF Entry
  <1>13. Freed(s, e)
    <2>1. PICK t : t = [itable EXCEPT ![s] = g]
      OBVIOUS
    <2>2. t[s] = g
      BY <1>7, <2>1 DEF Table
    <2>3. Iupdate(t, s, d)
      BY <1>2, <1>8, <2>1 DEF IPutFree, PuttingAt
    <2>4. itable' = [t EXCEPT ![s] = e] /\ dinode' = [dinode EXCEPT ![itable[s].inum] = d]
      BY <1>10, <1>11, <2>2, <2>3 DEF Iupdate
    <2>5. itable' = [itable EXCEPT ![s] = e]
      BY <2>1, <2>4
    <2> QED BY <1>9, <1>12, <2>4, <2>5 DEF Freed
  <1>14. /\ itable' \in Table /\ Coherent(itable', dinode') /\ KeptIn(itable', p)
         /\ \A x \in Slot : itable'[x].ref = itable[x].ref
         /\ \A x \in Slot \ {s} : itable'[x] = itable[x]
         /\ dinode' \in [Inum -> Inode] /\ BlockInv'
         /\ \A j \in Inum : dinode'[j].type = "none" => dinode[j].type = "none" \/ itable[s].inum = j
    BY <1>3, <1>6, <1>12, <1>13, FreedFacts
  <1>15. LockInv(p)'
    <2>1. \A x \in Slot : KeepsLocked(th'[p], x) =>
            KeepsLocked(th[p], x) /\ itable'[x].lock = itable[x].lock /\ itable'[x].valid = itable[x].valid
      BY <1>4, <1>6, <1>14
    <2> QED BY <1>1, <1>5, <2>1, LocksStep
  <1>16. RefInv'
    BY <1>3, <1>4, <1>14, RefSame DEF files
  <1>17. /\ dir' \in [Inum -> [Name -> 0 .. NINODES]] /\ lost' \subseteq Inum /\ used' \subseteq Block
         /\ ncalls' \in 0 .. MaxCalls
    BY <1>1, <1>3 DEF TypeOK, IPutFree
  <1>18. \A j \in Inum : dinode'[j].type = "none" =>
           dinode[j].type = "none" \/ \E x \in Slot : Frees(th[p], x) /\ itable[x].inum = j
    BY <1>5, <1>14
  <1> QED
    BY <1>3, <1>4, <1>14, <1>15, <1>16, <1>17, <1>18, DiskStep

\* A reference less of entry s, the first p drops.
Dropping(p, s) ==
  /\ th[p].at \in {"iput", "idrop"} /\ PuttingAt(p, s)
  /\ RefTo(itable, itable', s, itable[s].ref - 1)
  /\ UNCHANGED <<disk, files, ncalls, lost>>

\* The table then, and how references are counted.
LEMMA DroppingFacts ==
  ASSUME IInv, NEW p \in Proc, NEW s \in Slot, Dropping(p, s)
  PROVE  /\ itable' \in Table /\ Coherent(itable', dinode) /\ KeptIn(itable', p)
         /\ \A x \in Slot : itable'[x].ref = itable[x].ref - One(s, x)
         /\ \A x \in Slot : itable'[x].lock = itable[x].lock /\ itable'[x].valid = itable[x].valid
         /\ \A x \in Slot : itable[x].ref \in Nat
         /\ s # 0 /\ ncalls' \in 0 .. MaxCalls /\ 0 \notin Slot
  <1>1. \A x \in Slot : itable[x].ref \in Nat
    BY InUse
  <1>2. PICK n : n = itable[s].ref - 1
    OBVIOUS
  <1>3. n \in Int
    BY <1>1, <1>2
  <1>4. RefTo(itable, itable', s, n) /\ itable[s].ref > 0
    BY <1>2 DEF Dropping, PuttingAt
  <1>5. /\ itable' \in Table /\ Coherent(itable', dinode) /\ KeptIn(itable', p) /\ itable'[s].ref = n
        /\ \A x \in Slot \ {s} : itable'[x] = itable[x]
        /\ \A x \in Slot : itable'[x].lock = itable[x].lock /\ itable'[x].valid = itable[x].valid
    BY <1>3, <1>4, RefChanged
  <1>6. \A x \in Slot : itable'[x].ref = itable[x].ref - One(s, x)
    BY <1>1, <1>2, <1>5 DEF One
  <1>7. s # 0 /\ ncalls' \in 0 .. MaxCalls /\ 0 \notin Slot
    BY Sizes DEF Dropping, IInv, TypeOK, Slot
  <1> QED
    BY <1>1, <1>5, <1>6, <1>7

\* One of two references is dropped.
LEMMA DropFirstStep ==
  ASSUME IInv, NEW p \in Proc, NEW s \in Slot, Dropping(p, s), Len(th[p].puts) > 1,
         Go(p, [at |-> "iput", puts |-> Tail(th[p].puts)])
  PROVE  IInv'
  <1>1. TypeOK /\ RefInv /\ PathInv(p) /\ UserInv(p) /\ LockInv(p) /\ th[p] \in Local
    BY DEF IInv, TypeOK
  <1>2. PICK l, s2 : l = Tail(th[p].puts) /\ s2 = th[p].puts[2]
    OBVIOUS
  <1>3. l \in Seq(Slot) /\ Len(l) = 1 /\ l[1] = s2 /\ l # <<>> /\ Len(th[p].puts) = 2
    <2>1. PICK q : q = th[p].puts
      OBVIOUS
    <2>2. q \in Seq(Slot) /\ q # <<>> /\ Len(q) = 2 /\ l = Tail(q) /\ s2 = q[2]
      BY <1>2, <2>1 DEF Dropping, PuttingAt
    <2>3. l \in Seq(Slot) /\ Len(l) = 1 /\ l[1] = q[2]
      <3>1. l \in Seq(Slot) /\ Len(l) = Len(q) - 1 /\ \A i \in 1 .. Len(l) : l[i] = q[i + 1]
        BY <2>2, HeadTailProperties
      <3>2. PICK n : n = Len(l)
        OBVIOUS
      <3>3. n = 1 /\ \A i \in 1 .. n : l[i] = q[i + 1]
        <4>1. Len(q) = 2
          BY <2>2
        <4>2. n = 1
          BY <3>1, <3>2, <4>1
        <4> QED BY <3>1, <3>2, <4>2
      <3>4. l[1] = q[2]
        BY <3>3
      <3> QED BY <3>1, <3>2, <3>3, <3>4
    <2> QED BY <2>1, <2>2, <2>3, EmptySeq
  <1>4. PICK r : r = [at |-> "iput", puts |-> l]
    OBVIOUS
  <1>5. /\ th'[p] = r \oplus th[p] /\ \A q \in Proc \ {p} : th'[q] = th[q]
        /\ th[p] = [f \in Fields |-> th[p][f]]
        /\ th'[p] \in Local => th' \in [Proc -> Local]
    BY <1>1, <1>2, <1>4, Goes
  <1>6. th'[p] = [f \in Fields |-> th'[p][f]]
    BY <1>4, <1>5 DEF \oplus, Fields
  <1>7. /\ th'[p].at = "iput" /\ th'[p].call = th[p].call /\ th'[p].path = th[p].path /\ th'[p].parent = th[p].parent
        /\ th'[p].ok = th[p].ok /\ th'[p].fail = th[p].fail /\ th'[p].then = th[p].then /\ th'[p].puts = l
        /\ th'[p].ip = th[p].ip /\ th'[p].dp = th[p].dp /\ th'[p].tgt = th[p].tgt /\ th'[p].inum = th[p].inum
    BY <1>4, <1>5 DEF \oplus, Fields
  <1>8. th'[p] \in Local
    <2>1. "iput" \in Putting
      BY DEF Putting
    <2> QED BY <1>1, <1>3, <1>6, <1>7, <2>1, OfLocal, InLocal
  <1>9. PuttingAt(p, s) /\ th[p].at \in Putting /\ "iput" \in Putting
    BY DEF Dropping, Putting
  <1>10. Eff(th'[p]) = Eff(th[p]) /\ th[p].puts # <<>>
    BY <1>3, <1>7, <1>9 DEF Eff, PuttingAt
  <1>11. PathInv(p)'
    <2>1. Variables(th'[p])
      <3>1. th'[p].at \in Putting /\ th'[p].puts # <<>> /\ Len(th'[p].puts) <= 2 /\ th'[p].at # "endop"
        BY <1>3, <1>7, <1>9
      <3> QED BY <1>1, <1>7, <1>10, <3>1 DEF Variables, PathInv
    <2>2. Continues(th'[p]) /\ Asked(th'[p])
      BY <1>1, <1>3, <1>7, <1>10 DEF Continues, Asked, PathInv
    <2> QED BY <2>1, <2>2 DEF PathInv
  <1>12. UserInv(p)'
    BY <1>1, <1>7, <1>10 DEF UserInv, Dropping, files
  <1>13. LockInv(p)'
    <2>1. \A x \in Slot : KeepsLocked(th'[p], x) <=> KeepsLocked(th[p], x)
      BY <1>7, <1>10 DEF KeepsLocked
    <2>2. \A x \in Slot : ~Frees(th'[p], x)
      BY <1>7 DEF Frees
    <2> QED BY <1>1, <2>1, <2>2, LocksStep, DroppingFacts
  <1>14. RefInv'
    <2>1. /\ Held1(p, "put1") = s /\ Held1(p, "put1")' = s2 /\ Held1(p, "put2") = s2 /\ Held1(p, "put2")' = 0
          /\ "put1" \in LocalVar /\ "put2" \in LocalVar /\ "put1" # "put2"
      BY <1>2, <1>3, <1>7, <1>9 DEF Held1, LocalVar, PuttingAt
    <2>2. \A u \in LocalVar \ {"put1", "put2"} : Held1(p, u)' = Held1(p, u)
      BY <1>7, <1>9 DEF Held1, LocalVar, Putting, Dropping, files
    <2>3. \A x \in Slot : itable'[x].ref = itable[x].ref - One(Held1(p, "put1"), x) + One(Held1(p, "put1")', x)
                                                         - One(Held1(p, "put2"), x) + One(Held1(p, "put2")', x)
      BY <2>1, DroppingFacts DEF One
    <2> QED BY <1>1, <1>5, <2>1, <2>2, <2>3, RefStep DEF Dropping, files
  <1> QED
    BY <1>5, <1>8, <1>11, <1>12, <1>13, <1>14, DroppingFacts, TableStep DEF Dropping

\* The last reference of the list is dropped, and the path goes on.
LEMMA DropLastStep ==
  ASSUME IInv, NEW p \in Proc, NEW s \in Slot, Dropping(p, s), Len(th[p].puts) = 1, th[p].then # "endop",
         Go(p, [puts |-> <<>>, at |-> th[p].then])
  PROVE  IInv'
  <1>1. TypeOK /\ RefInv /\ PathInv(p) /\ UserInv(p) /\ LockInv(p) /\ th[p] \in Local
    BY DEF IInv, TypeOK
  <1>2. PICK w : w = th[p].then
    OBVIOUS
  <1>3. PuttingAt(p, s) /\ th[p].at \in Putting
    BY DEF Dropping, Putting
  <1>4. w \in Where /\ w # "endop" /\ w \notin {"writei", "opentrunc"} /\ w \notin Putting /\ Eff(th[p]) = w
    <2>1. w \in Where /\ w # "endop" /\ w \notin {"writei", "opentrunc"} /\ Eff(th[p]) = w
      BY <1>2, <1>3 DEF PuttingAt
    <2> QED BY <2>1 DEF Where, HasIp, HasDp, Putting
  <1>5. PICK r : r = [puts |-> <<>>, at |-> w]
    OBVIOUS
  <1>6. /\ th'[p] = r \oplus th[p] /\ \A q \in Proc \ {p} : th'[q] = th[q]
        /\ th[p] = [f \in Fields |-> th[p][f]]
        /\ th'[p] \in Local => th' \in [Proc -> Local]
    BY <1>1, <1>2, <1>5, Goes
  <1>7. th'[p] = [f \in Fields |-> th'[p][f]]
    BY <1>5, <1>6 DEF \oplus, Fields
  <1>8. /\ th'[p].at = w /\ th'[p].call = th[p].call /\ th'[p].path = th[p].path /\ th'[p].parent = th[p].parent
        /\ th'[p].ok = th[p].ok /\ th'[p].fail = th[p].fail /\ th'[p].then = th[p].then /\ th'[p].puts = <<>>
        /\ th'[p].ip = th[p].ip /\ th'[p].dp = th[p].dp /\ th'[p].tgt = th[p].tgt /\ th'[p].inum = th[p].inum
    BY <1>5, <1>6 DEF \oplus, Fields
  <1>9. th'[p] \in Local
    <2>1. <<>> \in Seq(Slot)
      OBVIOUS
    <2> QED BY <1>1, <1>4, <1>7, <1>8, <2>1, OfLocal, InLocal
  <1>10. Eff(th'[p]) = w
    BY <1>8 DEF Eff
  <1>11. PathInv(p)'
    <2>1. Variables(th'[p])
      <3>1. Len(th'[p].puts) <= 2
        BY <1>8
      <3> QED BY <1>1, <1>4, <1>8, <1>10, <3>1 DEF Variables, PathInv
    <2>2. Continues(th'[p]) /\ Asked(th'[p])
      BY <1>1, <1>4, <1>8, <1>10 DEF Continues, Asked, PathInv
    <2> QED BY <2>1, <2>2 DEF PathInv
  <1>12. UserInv(p)'
    BY <1>1, <1>4, <1>8, <1>10 DEF UserInv, Dropping, files
  <1>13. LockInv(p)'
    <2>1. \A x \in Slot : KeepsLocked(th'[p], x) <=> KeepsLocked(th[p], x)
      BY <1>4, <1>8, <1>10 DEF KeepsLocked
    <2>2. \A x \in Slot : ~Frees(th'[p], x)
      BY <1>4, <1>8 DEF Frees, Putting
    <2> QED BY <1>1, <2>1, <2>2, LocksStep, DroppingFacts
  <1>14. RefInv'
    <2>1. /\ Held1(p, "put1") = s /\ Held1(p, "put1")' = 0 /\ Held1(p, "put2") = 0 /\ Held1(p, "put2")' = 0
          /\ "put1" \in LocalVar /\ "put2" \in LocalVar /\ "put1" # "put2"
      BY <1>3, <1>8 DEF Held1, LocalVar, PuttingAt
    <2>2. \A u \in LocalVar \ {"put1", "put2"} : Held1(p, u)' = Held1(p, u)
      BY <1>3, <1>4, <1>8 DEF Held1, LocalVar, Putting, Dropping, files
    <2>3. \A x \in Slot : itable'[x].ref = itable[x].ref - One(Held1(p, "put1"), x) + One(Held1(p, "put1")', x)
                                                         - One(Held1(p, "put2"), x) + One(Held1(p, "put2")', x)
      BY <2>1, DroppingFacts DEF One
    <2> QED BY <1>1, <1>6, <2>1, <2>2, <2>3, RefStep DEF Dropping, files
  <1> QED
    BY <1>6, <1>9, <1>11, <1>12, <1>13, <1>14, DroppingFacts, TableStep DEF Dropping

\* The last reference is dropped, and the call is over.
LEMMA DropEndStep ==
  ASSUME IInv, NEW p \in Proc, NEW s \in Slot, Dropping(p, s), Len(th[p].puts) = 1, th[p].then = "endop",
         Go(p, EndOp(p))
  PROVE  IInv'
  <1>1. TypeOK /\ RefInv /\ Variables(th[p])
    BY DEF IInv, PathInv
  <1>2. PuttingAt(p, s) /\ th[p].at \in Putting /\ UNCHANGED <<disk, files, ncalls, lost>>
    BY DEF Dropping, Putting
  <1>3. th[p].ip = 0 /\ th[p].dp = 0 /\ th[p].tgt = 0
    <2>1. Eff(th[p]) = "endop"
      BY <1>2 DEF PuttingAt
    <2> QED BY <1>1, <2>1 DEF Variables, HasIp, HasDp
  <1>4. /\ \A q \in Proc \ {p} : th'[q] = th[q]
        /\ \A u \in LocalVar \ {"cwd"} : Held1(p, u)' = 0
    BY EndOpFacts
  <1>5. RefInv'
    <2>1. /\ Held1(p, "put1") = s /\ Held1(p, "put2") = 0 /\ Held1(p, "put1")' = 0 /\ Held1(p, "put2")' = 0
          /\ "put1" \in LocalVar /\ "put2" \in LocalVar /\ "put1" # "put2"
      <3>1. {"put1", "put2"} \subseteq LocalVar \ {"cwd"}
        BY DEF LocalVar
      <3>2. Held1(p, "put1")' = 0 /\ Held1(p, "put2")' = 0
        BY <1>4, <3>1
      <3>3. Held1(p, "put2") = 0
        BY DEF Held1
      <3>4. Held1(p, "put1") = s
        BY <1>2 DEF PuttingAt
      <3> QED BY <3>1, <3>2, <3>3, <3>4
    <2>2. \A u \in LocalVar \ {"put1", "put2"} : Held1(p, u)' = Held1(p, u)
      BY <1>2, <1>3, <1>4 DEF Held1, LocalVar, Putting, files
    <2>3. \A x \in Slot : itable'[x].ref = itable[x].ref - One(Held1(p, "put1"), x) + One(Held1(p, "put1")', x)
                                                         - One(Held1(p, "put2"), x) + One(Held1(p, "put2")', x)
      BY <2>1, DroppingFacts DEF One
    <2> QED BY <1>1, <1>2, <1>4, <2>1, <2>2, <2>3, RefStep DEF files
  <1>6. BlockInv' /\ dinode' = dinode
    BY <1>2, BlocksStay DEF IInv, disk
  <1>7. /\ dinode' \in [Inum -> Inode] /\ dir' \in [Inum -> [Name -> 0 .. NINODES]]
        /\ used' \subseteq Block /\ lost' \subseteq Inum
    BY <1>1, <1>2 DEF TypeOK, disk
  <1>8. itable' \in Table /\ Coherent(itable', dinode') /\ KeptIn(itable', p)
    BY <1>6, DroppingFacts
  <1> QED
    BY <1>2, <1>5, <1>6, <1>7, <1>8, DoneStep

\* A reference is dropped.
LEMMA DropStep ==
  ASSUME IInv, NEW p \in Proc, NEW s \in Slot, Dropping(p, s), Go(p, Dropped(p))
  PROVE  IInv'
  <1>1. Len(th[p].puts) \in {1, 2}
    BY DEF Dropping, PuttingAt
  <1>2. CASE Len(th[p].puts) = 2
    <2>1. Len(th[p].puts) > 1
      BY <1>2
    <2>2. Go(p, [at |-> "iput", puts |-> Tail(th[p].puts)])
      BY <2>1 DEF Dropped
    <2> QED BY <2>1, <2>2, DropFirstStep
  <1>3. CASE Len(th[p].puts) = 1 /\ th[p].then = "endop"
    <2>1. Go(p, EndOp(p))
      BY <1>3 DEF Dropped
    <2> QED BY <1>3, <2>1, DropEndStep
  <1>4. CASE Len(th[p].puts) = 1 /\ th[p].then # "endop"
    <2>1. Go(p, [puts |-> <<>>, at |-> th[p].then])
      BY <1>4 DEF Dropped
    <2> QED BY <1>4, <2>1, DropLastStep
  <1> QED
    BY <1>1, <1>2, <1>3, <1>4

\* iput().
LEMMA IPutStep ==
  ASSUME IInv, NEW p \in Proc, IPut(p)
  PROVE  IInv'
  <1>1. th[p].at = "iput" /\ th[p].at \in Putting /\ UNCHANGED <<disk, files, ncalls, lost>>
    BY DEF IPut, At, Putting
  <1>2. PICK s \in Slot : PuttingAt(p, s)
    BY <1>1, PuttingFacts
  <1>3. PICK h : h = Head(th[p].puts)
    OBVIOUS
  <1>4. h = s
    BY <1>2, <1>3 DEF PuttingAt
  <1>5. \/ /\ LastUnlinked(s) /\ itable[s].lock = None /\ itable' = [itable EXCEPT ![s].lock = p]
           /\ Go(p, [at |-> "itrunc"])
        \/ itable' = [itable EXCEPT ![s].ref = itable[s].ref - 1] /\ Go(p, Dropped(p))
    BY <1>3, <1>4, Zenon DEF IPut
  <1>6. CASE /\ LastUnlinked(s) /\ itable[s].lock = None /\ itable' = [itable EXCEPT ![s].lock = p]
             /\ Go(p, [at |-> "itrunc"])
    <2>1. LockedBy(itable, itable', s, p)
      BY <1>6 DEF LockedBy
    <2> QED BY <1>1, <1>2, <1>6, <2>1, IPutLastStep
  <1>7. CASE itable' = [itable EXCEPT ![s].ref = itable[s].ref - 1] /\ Go(p, Dropped(p))
    <2>1. Dropping(p, s)
      BY <1>1, <1>2, <1>7 DEF Dropping, RefTo
    <2> QED BY <1>7, <2>1, DropStep
  <1> QED
    BY <1>5, <1>6, <1>7

\* The reference to the inode that was freed is dropped.
LEMMA IPutDropStep ==
  ASSUME IInv, NEW p \in Proc, IPutDrop(p)
  PROVE  IInv'
  <1>1. th[p].at = "idrop" /\ th[p].at \in Putting /\ UNCHANGED <<disk, files, ncalls, lost>> /\ Go(p, Dropped(p))
    BY DEF IPutDrop, At, Putting
  <1>2. PICK s \in Slot : PuttingAt(p, s)
    BY <1>1, PuttingFacts
  <1>3. itable' = [itable EXCEPT ![s].ref = itable[s].ref - 1]
    BY <1>2 DEF IPutDrop, PuttingAt
  <1>4. Dropping(p, s)
    BY <1>1, <1>2, <1>3 DEF Dropping, RefTo
  <1> QED
    BY <1>1, <1>4, DropStep
-----------------------------------------------------------------------------
(* What the invariant says of the references *)

\* A set with a tag has as many elements.
LEMMA Tagged ==
  ASSUME NEW S, IsFiniteSet(S), NEW x
  PROVE  /\ IsFiniteSet(S \X {x}) /\ Cardinality(S \X {x}) = Cardinality(S) /\ Cardinality(S) \in Nat
  <1>1. IsFiniteSet({x}) /\ Cardinality({x}) = 1
    BY FS_Singleton
  <1>2. IsFiniteSet(S \X {x}) /\ Cardinality(S \X {x}) = Cardinality(S) * 1 /\ Cardinality(S) \in Nat
    BY <1>1, FS_Product, FS_CardinalityType
  <1> QED
    BY <1>2

\* Sets without common elements add up.
LEMMA Apart ==
  ASSUME NEW S, NEW T, IsFiniteSet(S), IsFiniteSet(T), S \cap T = {}
  PROVE  IsFiniteSet(S \cup T) /\ Cardinality(S \cup T) = Cardinality(S) + Cardinality(T)
  <1>1. Cardinality(S) \in Nat /\ Cardinality(T) \in Nat /\ Cardinality({}) = 0
    BY FS_CardinalityType, FS_EmptySet
  <1>2. IsFiniteSet(S \cup T) /\ Cardinality(S \cup T) = Cardinality(S) + Cardinality(T) - Cardinality({})
    BY FS_Union
  <1> QED
    BY <1>1, <1>2

\* The processes whose reference number i to drop is one to s.
Puts(i, s) == {p \in Proc : i \in DOMAIN th[p].puts /\ th[p].puts[i] = s}

\* The references to drop, by number.
LEMMA PutsApart ==
  ASSUME TypeOK, NEW s
  PROVE  /\ IsFiniteSet(Puts(1, s)) /\ IsFiniteSet(Puts(2, s)) /\ IsFiniteSet(InPuts(s))
         /\ Cardinality(InPuts(s)) = Cardinality(Puts(1, s)) + Cardinality(Puts(2, s))
  <1>1. IsFiniteSet(Puts(1, s)) /\ IsFiniteSet(Puts(2, s))
    <2>1. Puts(1, s) \subseteq Proc /\ Puts(2, s) \subseteq Proc
      BY DEF Puts
    <2> QED BY <2>1, Sizes, FS_Subset
  <1>2. PICK A, B : A = Puts(1, s) \X {1} /\ B = Puts(2, s) \X {2}
    OBVIOUS
  <1>3. InPuts(s) = A \cup B /\ A \cap B = {}
    <2>1. 1 .. 2 = {1, 2}
      OBVIOUS
    <2>2. InPuts(s) = {l \in Proc \X {1, 2} : l[2] \in DOMAIN th[l[1]].puts /\ th[l[1]].puts[l[2]] = s}
      BY <2>1 DEF InPuts
    <2>3. ASSUME NEW p \in Proc, NEW i \in {1, 2}
          PROVE  /\ <<p, i>> \in InPuts(s) <=> p \in Puts(i, s)
                 /\ <<p, i>> \in A \cup B <=> p \in Puts(i, s)
      BY <1>2, <2>2 DEF Puts
    <2>4. \A l : l \in InPuts(s) \/ l \in A \cup B => \E p \in Proc, i \in {1, 2} : l = <<p, i>>
      BY <1>2, <2>2 DEF Puts
    <2>5. ASSUME NEW l PROVE l \in InPuts(s) <=> l \in A \cup B
      <3>1. CASE \E p \in Proc, i \in {1, 2} : l = <<p, i>>
        <4>1. PICK p \in Proc, i \in {1, 2} : l = <<p, i>>
          BY <3>1
        <4> QED BY <2>3, <4>1
      <3>2. CASE ~ \E p \in Proc, i \in {1, 2} : l = <<p, i>>
        BY <2>4, <3>2
      <3> QED BY <3>1, <3>2
    <2>6. A \cap B = {}
      BY <1>2
    <2> QED BY <2>5, <2>6
  <1>4. /\ IsFiniteSet(A) /\ Cardinality(A) = Cardinality(Puts(1, s))
        /\ IsFiniteSet(B) /\ Cardinality(B) = Cardinality(Puts(2, s))
    BY <1>1, <1>2, Tagged
  <1> QED
    BY <1>1, <1>3, <1>4, Apart

\* Who holds s: directories, files, local variables and references to drop.
LEMMA HoldersApart ==
  ASSUME TypeOK, NEW s \in Slot
  PROVE  {h \in Holder : Holds[h] = s} =
           (WorkingIn(s) \X {"cwd"}) \cup (OpenOn(s) \X {"file"}) \cup InLocals(s)
           \cup (Puts(1, s) \X {"put1"}) \cup (Puts(2, s) \X {"put2"})
  <1>1. s # 0 /\ HoldsFacts
    BY Sizes, HoldsAt DEF Slot
  <1>2. PICK A, B, C, D, E : /\ A = WorkingIn(s) \X {"cwd"} /\ B = OpenOn(s) \X {"file"} /\ C = InLocals(s)
                             /\ D = Puts(1, s) \X {"put1"} /\ E = Puts(2, s) \X {"put2"}
    OBVIOUS
  <1>3. PICK U : U = A \cup B \cup C \cup D \cup E
    OBVIOUS
  <1>4. ASSUME NEW p \in Proc PROVE <<p, "cwd">> \in U <=> Held1(p, "cwd") = s
    BY <1>2, <1>3 DEF WorkingIn, InLocals, Held1
  <1>5. ASSUME NEW p \in Proc, NEW v \in {"ip", "dp", "tgt"} PROVE <<p, v>> \in U <=> Held1(p, v) = s
    <2>1. <<p, v>> \in U <=> <<p, v>> \in InLocals(s)
      BY <1>2, <1>3
    <2>2. <<p, v>> \in InLocals(s) <=> th[p][v] = s /\ ~(v = "ip" /\ th[p].at \in {"writei", "opentrunc"})
      BY DEF InLocals
    <2>3. CASE v = "ip"
      BY <1>1, <2>1, <2>2, <2>3 DEF Held1
    <2>4. CASE v = "dp"
      BY <2>1, <2>2, <2>4 DEF Held1
    <2>5. CASE v = "tgt"
      BY <2>1, <2>2, <2>5 DEF Held1
    <2> QED BY <2>3, <2>4, <2>5
  <1>6. ASSUME NEW p \in Proc
        PROVE  /\ <<p, "put1">> \in U <=> Held1(p, "put1") = s
               /\ <<p, "put2">> \in U <=> Held1(p, "put2") = s
    <2>1. PICK q \in Seq(Slot), n \in Nat : q = th[p].puts /\ n = Len(q)
      <3>1. th[p].puts \in Seq(Slot)
        BY OfLocal DEF TypeOK
      <3> QED BY <3>1
    <2>2. DOMAIN q = 1 .. n
      BY <2>1
    <2>3. (1 \in DOMAIN q <=> n >= 1) /\ (2 \in DOMAIN q <=> n >= 2)
      BY <2>2
    <2>4. /\ p \in Puts(1, s) <=> n >= 1 /\ q[1] = s
          /\ p \in Puts(2, s) <=> n >= 2 /\ q[2] = s
      BY <2>1, <2>3 DEF Puts
    <2>5. /\ Held1(p, "put1") = (IF n >= 1 THEN q[1] ELSE 0)
          /\ Held1(p, "put2") = (IF n >= 2 THEN q[2] ELSE 0)
      BY <2>1 DEF Held1
    <2>6. /\ <<p, "put1">> \in U <=> p \in Puts(1, s)
          /\ <<p, "put2">> \in U <=> p \in Puts(2, s)
      BY <1>2, <1>3 DEF InLocals
    <2> QED BY <1>1, <2>4, <2>5, <2>6
  <1>7. ASSUME NEW f \in File PROVE <<f, "file">> \in U <=> ftable[f].ref > 0 /\ ftable[f].ip = s
    BY <1>2, <1>3 DEF OpenOn, InLocals
  <1>8. ASSUME NEW h \in U PROVE h \in Holder
    BY <1>2, <1>3 DEF Holder, LocalVar, WorkingIn, OpenOn, InLocals, Puts
  <1>9. ASSUME NEW h \in Holder PROVE Holds[h] = s <=> h \in U
    <2>1. CASE h \in Proc \X LocalVar
      <3>1. PICK p \in Proc, v \in LocalVar : h = <<p, v>>
        BY <2>1
      <3>2. Holds[h] = Held1(p, v)
        BY <1>1, <3>1 DEF HoldsFacts
      <3>3. Held1(p, v) = s <=> <<p, v>> \in U
        BY <1>4, <1>5, <1>6 DEF LocalVar
      <3> QED BY <3>1, <3>2, <3>3
    <2>2. CASE h \in File \X {"file"}
      <3>1. PICK f \in File : h = <<f, "file">>
        BY <2>2
      <3> QED BY <1>1, <1>7, <3>1 DEF HoldsFacts
    <2> QED BY <2>1, <2>2 DEF Holder
  <1>10. {h \in Holder : Holds[h] = s} = U
    BY <1>8, <1>9
  <1> QED
    BY <1>2, <1>3, <1>10

\* The count over the variables is the sum over the four kinds.
LEMMA CountIsSum ==
  ASSUME TypeOK, NEW s \in Slot
  PROVE  Count(Holds, s) = Cardinality(WorkingIn(s)) + Cardinality(OpenOn(s))
                           + Cardinality(InLocals(s)) + Cardinality(InPuts(s))
  <1>1. IsFiniteSet(WorkingIn(s)) /\ IsFiniteSet(OpenOn(s))
    <2>1. IsFiniteSet(File)
      BY Sizes, FS_Interval DEF File
    <2>2. WorkingIn(s) \subseteq Proc /\ OpenOn(s) \subseteq File
      BY DEF WorkingIn, OpenOn
    <2> QED BY <2>1, <2>2, Sizes, FS_Subset
  <1>2. IsFiniteSet(InLocals(s))
    <2>1. InLocals(s) \subseteq Holder
      BY DEF InLocals, Holder, LocalVar
    <2> QED BY <2>1, HolderFinite
  <1>3. /\ IsFiniteSet(Puts(1, s)) /\ IsFiniteSet(Puts(2, s))
        /\ Cardinality(InPuts(s)) = Cardinality(Puts(1, s)) + Cardinality(Puts(2, s))
    BY PutsApart
  <1>4. PICK A, B, C, D, E : /\ A = WorkingIn(s) \X {"cwd"} /\ B = OpenOn(s) \X {"file"} /\ C = InLocals(s)
                             /\ D = Puts(1, s) \X {"put1"} /\ E = Puts(2, s) \X {"put2"}
    OBVIOUS
  <1>5. /\ IsFiniteSet(A) /\ Cardinality(A) = Cardinality(WorkingIn(s))
        /\ IsFiniteSet(B) /\ Cardinality(B) = Cardinality(OpenOn(s))
        /\ IsFiniteSet(C) /\ Cardinality(C) = Cardinality(InLocals(s))
        /\ IsFiniteSet(D) /\ Cardinality(D) = Cardinality(Puts(1, s))
        /\ IsFiniteSet(E) /\ Cardinality(E) = Cardinality(Puts(2, s))
    BY <1>1, <1>2, <1>3, <1>4, Tagged
  <1>6. A \cap B = {} /\ (A \cup B) \cap C = {} /\ (A \cup B \cup C) \cap D = {} /\ (A \cup B \cup C \cup D) \cap E = {}
    BY <1>4 DEF InLocals
  <1>7. IsFiniteSet(A \cup B) /\ Cardinality(A \cup B) = Cardinality(A) + Cardinality(B)
    BY <1>5, <1>6, Apart
  <1>8. /\ IsFiniteSet(A \cup B \cup C)
        /\ Cardinality(A \cup B \cup C) = Cardinality(A \cup B) + Cardinality(C)
    BY <1>5, <1>6, <1>7, Apart
  <1>9. /\ IsFiniteSet(A \cup B \cup C \cup D)
        /\ Cardinality(A \cup B \cup C \cup D) = Cardinality(A \cup B \cup C) + Cardinality(D)
    BY <1>5, <1>6, <1>8, Apart
  <1>10. Cardinality(A \cup B \cup C \cup D \cup E) = Cardinality(A \cup B \cup C \cup D) + Cardinality(E)
    BY <1>5, <1>6, <1>9, Apart
  <1>11. Count(Holds, s) = Cardinality(A \cup B \cup C \cup D \cup E)
    BY <1>4, HoldersApart DEF Count
  <1>12. /\ Cardinality(A) \in Nat /\ Cardinality(B) \in Nat /\ Cardinality(C) \in Nat /\ Cardinality(D) \in Nat
         /\ Cardinality(E) \in Nat
    BY <1>5, FS_CardinalityType
  <1> QED
    BY <1>3, <1>5, <1>7, <1>8, <1>9, <1>10, <1>11, <1>12

\* References are exact where the invariant holds.
LEMMA InvImpliesExact == IInv => RefsAreExact
  <1> SUFFICES ASSUME IInv PROVE RefsAreExact
    OBVIOUS
  <1>1. TypeOK /\ CacheInv /\ RefInv /\ FileInv /\ InUseIsAllocated
    BY DEF IInv
  <1>2. CacheAgrees
    BY <1>1 DEF CacheInv, CacheAgrees
  <1>3. \A s \in Slot : itable[s].ref = Cardinality(WorkingIn(s)) + Cardinality(OpenOn(s))
                                       + Cardinality(InLocals(s)) + Cardinality(InPuts(s))
    BY <1>1, CountIsSum DEF RefInv
  <1>4. \A f \in File : ftable[f].ref = Cardinality(Descriptors(f))
    BY <1>1 DEF FileInv
  <1> QED
    BY <1>1, <1>2, <1>3, <1>4 DEF RefsAreExact
-----------------------------------------------------------------------------
(* The beginning *)

\* The inodes of the first disk.
LEMMA FirstInodes ==
  ASSUME NEW i \in Inum
  PROVE  /\ InitInode(i) \in Inode
         /\ i = 1 => InitInode(i).type = "dir" /\ InitInode(i).addrs = {1, 2}
         /\ i = 2 => InitInode(i).type = "file" /\ InitInode(i).addrs = {3}
         /\ i = 3 => InitInode(i).type = "dir" /\ InitInode(i).addrs = {4}
         /\ i \notin {1, 2, 3} => InitInode(i).type = "none" /\ InitInode(i).addrs = {}
  <1>1. {1, 2, 3, 4} \subseteq Block
    BY FileSystemAssumption DEF Block
  <1>2. CASE i = 1
    <2>1. PICK d : d = [type |-> "dir", nlink |-> 2, addrs |-> {1, 2}]
      OBVIOUS
    <2>2. InitInode(i) = d
      BY <1>2, <2>1 DEF InitInode, ROOTINO
    <2> QED BY <1>1, <1>2, <2>1, <2>2 DEF Inode
  <1>3. CASE i = 2
    <2>1. PICK d : d = [type |-> "file", nlink |-> 1, addrs |-> {3}]
      OBVIOUS
    <2>2. InitInode(i) = d
      BY <1>3, <2>1 DEF InitInode, ROOTINO
    <2> QED BY <1>1, <1>3, <2>1, <2>2 DEF Inode
  <1>4. CASE i = 3
    <2>1. PICK d : d = [type |-> "dir", nlink |-> 1, addrs |-> {4}]
      OBVIOUS
    <2>2. InitInode(i) = d
      BY <1>4, <2>1 DEF InitInode, ROOTINO
    <2> QED BY <1>1, <1>4, <2>1, <2>2 DEF Inode
  <1>5. CASE i \notin {1, 2, 3}
    <2>1. PICK d : d = [type |-> "none", nlink |-> 0, addrs |-> {}]
      OBVIOUS
    <2>2. InitInode(i) = d
      BY <1>5, <2>1 DEF InitInode, ROOTINO, Free
    <2> QED BY <1>5, <2>1, <2>2 DEF Inode
  <1> QED
    BY <1>2, <1>3, <1>4, <1>5

\* Its directories.
LEMMA FirstDirs ==
  ASSUME NEW i \in Inum, NEW z, z = [n \in Name |-> 0]
  PROVE  InitDir(i) \oplus z \in [Name -> 0 .. NINODES]
  <1>1. /\ {0, 1, 2, 3} \subseteq 0 .. NINODES /\ {".", "..", "x", "d"} \subseteq Name
        /\ z \in [Name -> {0}]
    BY FileSystemAssumption
  <1>2. ASSUME NEW g, DOMAIN g \subseteq Name, \A n \in DOMAIN g : g[n] \in {1, 2, 3}
        PROVE  g \oplus z \in [Name -> 0 .. NINODES]
    <2>1. DOMAIN g \cup DOMAIN z = Name
      BY <1>1, <1>2
    <2>2. \A n \in Name : (IF n \in DOMAIN g THEN g[n] ELSE z[n]) \in {0, 1, 2, 3}
      BY <1>1, <1>2
    <2>3. g \oplus z = [n \in Name |-> IF n \in DOMAIN g THEN g[n] ELSE z[n]]
      BY <2>1 DEF \oplus
    <2>4. \A n \in Name : (IF n \in DOMAIN g THEN g[n] ELSE z[n]) \in 0 .. NINODES
      BY <1>1, <2>2
    <2> QED BY <2>3, <2>4
  <1>3. CASE i = 1
    <2>1. PICK a, b : a = [x |-> 2, d |-> 3] /\ b = [n \in Dots |-> ROOTINO]
      OBVIOUS
    <2>2. PICK g : g = a \oplus b
      OBVIOUS
    <2>3. /\ DOMAIN a = {"x", "d"} /\ (\A n \in DOMAIN a : a[n] \in {1, 2, 3})
          /\ DOMAIN b = {".", ".."} /\ (\A n \in DOMAIN b : b[n] \in {1, 2, 3})
      BY <2>1 DEF Dots, ROOTINO
    <2>4. DOMAIN g = DOMAIN a \cup DOMAIN b /\ \A n \in DOMAIN g : g[n] = (IF n \in DOMAIN a THEN a[n] ELSE b[n])
      BY <2>2 DEF \oplus
    <2>5. DOMAIN g \subseteq Name /\ \A n \in DOMAIN g : g[n] \in {1, 2, 3}
      BY <1>1, <2>3, <2>4
    <2>6. InitDir(i) = g
      BY <1>3, <2>1, <2>2 DEF InitDir, ROOTINO
    <2> QED BY <1>2, <2>5, <2>6
  <1>4. CASE i = 3
    <2>1. PICK g : g = [n \in Dots |-> IF n = "." THEN 3 ELSE ROOTINO]
      OBVIOUS
    <2>2. DOMAIN g \subseteq Name /\ \A n \in DOMAIN g : g[n] \in {1, 2, 3}
      BY <1>1, <2>1 DEF Dots, ROOTINO
    <2>3. InitDir(i) = g
      BY <1>4, <2>1 DEF InitDir, ROOTINO
    <2> QED BY <1>2, <2>2, <2>3
  <1>5. CASE i \notin {1, 3}
    <2>1. PICK g : g = <<>>
      OBVIOUS
    <2>2. DOMAIN g = {}
      BY <2>1
    <2>3. InitDir(i) = g
      BY <1>5, <2>1 DEF InitDir, ROOTINO
    <2> QED BY <1>2, <2>2, <2>3
  <1> QED
    BY <1>3, <1>4, <1>5

\* Every process is in user space.
LEMMA FirstPaths ==
  ASSUME Init, NEW p \in Proc
  PROVE  /\ th[p] \in Local /\ PathInv(p) /\ th[p].at = "idle" /\ Eff(th[p]) = "idle"
         /\ \A u \in LocalVar \ {"cwd"} : Held1(p, u) = 0
         /\ Held1(p, "cwd") = 1 /\ cwd[p] = 1
         /\ \A x \in Slot : ~KeepsLocked(th[p], x) /\ ~Frees(th[p], x)
  <1>1. PICK r : r = th[p]
    OBVIOUS
  <1>2. /\ r = [f \in Fields |-> r[f]]
        /\ r.at = "idle" /\ r.call = NoCall /\ r.path = <<>> /\ r.parent = FALSE
        /\ r.ok = "none" /\ r.fail = "none" /\ r.then = "none" /\ r.puts = <<>>
        /\ r.ip = 0 /\ r.dp = 0 /\ r.tgt = 0 /\ r.inum = 0
    <2>1. PICK a : a = [at |-> "idle"]
      OBVIOUS
    <2>2. DOMAIN a = {"at"} /\ a.at = "idle"
      BY <2>1
    <2>3. r = a \oplus NoPath
      BY <1>1, <2>1 DEF Init
    <2>4. /\ DOMAIN NoPath = Fields \ {"at"} /\ "at" \notin DOMAIN NoPath
          /\ NoPath.call = NoCall /\ NoPath.path = <<>> /\ NoPath.parent = FALSE
          /\ NoPath.ok = "none" /\ NoPath.fail = "none" /\ NoPath.then = "none" /\ NoPath.puts = <<>>
          /\ NoPath.ip = 0 /\ NoPath.dp = 0 /\ NoPath.tgt = 0 /\ NoPath.inum = 0
      BY DEF NoPath, Fields
    <2> HIDE DEF NoPath
    <2>5. r = [x \in Fields |-> IF x = "at" THEN "idle" ELSE NoPath[x]]
      BY <2>2, <2>3, <2>4 DEF \oplus, Fields
    <2> QED BY <2>4, <2>5 DEF Fields
  <1>3. r \in Local
    <2>1. /\ "idle" \in Where /\ NoCall \in AnyCall /\ <<>> \in Seq(Name \cup {"/"}) /\ <<>> \in Seq(Slot)
          /\ 0 \in 0 .. NINODE /\ 0 \in 0 .. NINODES
      BY Sizes DEF Where, AnyCall
    <2> QED BY <1>2, <2>1, InLocal
  <1>4. Eff(r) = "idle"
    BY <1>2 DEF Eff
  <1>5. PathInv(p)
    <2>1. Variables(r)
      BY <1>2, <1>4 DEF Variables, Putting, HasIp, HasDp, Where
    <2>2. Continues(r)
      BY <1>2, <1>4 DEF Continues, Failing
    <2>3. Asked(r)
      BY <1>2, <1>4 DEF Asked, Serves, Opening, Creating, Naming
    <2> QED BY <1>1, <2>1, <2>2, <2>3 DEF PathInv
  <1>6. \A x \in Slot : ~KeepsLocked(r, x) /\ ~Frees(r, x)
    BY <1>2, <1>4 DEF KeepsLocked, Frees, Keeping, HasDp
  <1>7. cwd[p] = 1
    BY DEF Init
  <1>8. (\A u \in LocalVar \ {"cwd"} : Held1(p, u) = 0) /\ Held1(p, "cwd") = 1
    BY <1>1, <1>2, <1>7 DEF Held1, LocalVar
  <1> QED
    BY <1>1, <1>2, <1>3, <1>4, <1>5, <1>6, <1>7, <1>8

\* The first table, and its types.
LEMMA FirstTypes ==
  ASSUME Init
  PROVE  /\ TypeOK
         /\ \A s \in Slot : /\ itable[s].valid = FALSE /\ itable[s].inum = 1
                            /\ itable[s].ref = (IF s = 1 THEN Cardinality(Proc) ELSE 0)
         /\ \A f \in File : ftable[f].ref = 0
  <1>1. /\ dinode \in [Inum -> Inode] /\ dir \in [Inum -> [Name -> 0 .. NINODES]] /\ used \in SUBSET Block
    <2>1. dinode \in [Inum -> Inode]
      BY FirstInodes DEF Init
    <2>2. dir \in [Inum -> [Name -> 0 .. NINODES]]
      <3>1. PICK z : z = [n \in Name |-> 0]
        OBVIOUS
      <3>2. dir = [i \in Inum |-> InitDir(i) \oplus z]
        BY <3>1 DEF Init
      <3> QED BY <3>1, <3>2, FirstDirs
    <2>3. used \in SUBSET Block
      BY FileSystemAssumption DEF Init, Block
    <2> QED BY <2>1, <2>2, <2>3
  <1>2. PICK n \in Nat : n = Cardinality(Proc)
    BY Sizes, FS_CardinalityType
  <1>3. /\ itable \in [Slot -> Entry]
        /\ \A s \in Slot : /\ itable[s].valid = FALSE /\ itable[s].inum = 1
                           /\ itable[s].ref = (IF s = 1 THEN n ELSE 0)
    <2>1. Free \in Inode
      BY DEF Free, Inode
    <2>2. PICK d \in Inode : d = Free
      BY <2>1
    <2>3. itable = [s \in Slot |-> [inum |-> ROOTINO, ref |-> IF s = 1 THEN n ELSE 0, valid |-> FALSE,
                                    lock |-> None, d |-> d]]
      BY <1>2, <2>2 DEF Init
    <2> QED BY <2>3, Sizes DEF Entry, ROOTINO
  <1>4. ftable \in [File -> OpenFileEntry] /\ \A f \in File : ftable[f].ref = 0
    <2>1. NoFile \in OpenFileEntry /\ NoFile.ref = 0
      BY Sizes DEF NoFile, OpenFileEntry
    <2> HIDE DEF NoFile
    <2>2. ftable = [f \in File |-> NoFile]
      BY DEF Init
    <2> QED BY <2>1, <2>2
  <1>5. /\ ofile \in [Proc -> [Fd -> 0 .. NFILE]] /\ cwd \in [Proc -> 0 .. NINODE]
        /\ ncalls \in 0 .. MaxCalls /\ lost \in SUBSET Inum
    BY Sizes DEF Init
  <1>6. th \in [Proc -> Local]
    <2>1. th = [p \in Proc |-> th[p]]
      BY DEF Init
    <2>2. \A p \in Proc : th[p] \in Local
      BY FirstPaths
    <2> QED BY <2>1, <2>2
  <1> QED
    BY <1>1, <1>2, <1>3, <1>4, <1>5, <1>6 DEF TypeOK

\* The invariant holds in the beginning.
LEMMA InitInv == Init => IInv
  <1> SUFFICES ASSUME Init PROVE IInv
    OBVIOUS
  <1>1. /\ TypeOK
        /\ \A s \in Slot : /\ itable[s].valid = FALSE /\ itable[s].inum = 1
                           /\ itable[s].ref = (IF s = 1 THEN Cardinality(Proc) ELSE 0)
        /\ \A f \in File : ftable[f].ref = 0
    BY FirstTypes
  <1>2. \A p \in Proc : PathInv(p) /\ LockInv(p)
    BY FirstPaths DEF LockInv
  <1>3. \A p \in Proc : UserInv(p)
    BY FirstPaths DEF UserInv
  <1>4. CacheInv
    BY <1>1 DEF CacheInv
  <1>5. \A s \in Slot : OpenOn(s) = {}
    BY <1>1 DEF OpenOn
  <1>6. InUseIsAllocated
    <2>1. 1 \in Inum /\ dinode[1].type = "dir"
      BY FirstInodes, Sizes DEF Init, ROOTINO
    <2> QED BY <1>1, <1>5, <2>1 DEF InUseIsAllocated
  <1>7. RefInv
    <2> SUFFICES ASSUME NEW s \in Slot PROVE itable[s].ref = Count(Holds, s)
      BY DEF RefInv
    <2>1. PICK S : S = {h \in Holder : Holds[h] = s}
      OBVIOUS
    <2>2. ASSUME NEW p \in Proc, NEW v \in LocalVar PROVE <<p, v>> \in S <=> v = "cwd" /\ s = 1
      <3>1. s # 0
        BY Sizes DEF Slot
      <3>2. <<p, v>> \in Holder /\ Holds[<<p, v>>] = Held1(p, v)
        BY HoldsAt DEF HoldsFacts
      <3>3. Held1(p, v) = (IF v = "cwd" THEN 1 ELSE 0)
        BY FirstPaths
      <3> QED BY <2>1, <3>1, <3>2, <3>3
    <2>3. ASSUME NEW f \in File PROVE <<f, "file">> \notin S
      <3>1. s # 0
        BY Sizes DEF Slot
      <3>2. PICK n : n = ftable[f].ref
        OBVIOUS
      <3>3. ~(n > 0)
        BY <1>1, <3>2
      <3>4. Holds[<<f, "file">>] = (IF n > 0 THEN ftable[f].ip ELSE 0)
        BY <3>2, HoldsAt DEF HoldsFacts
      <3> QED BY <2>1, <3>1, <3>3, <3>4
    <2>4. CASE s = 1
      <3>1. ASSUME NEW h PROVE h \in S <=> h \in Proc \X {"cwd"}
        <4>1. ASSUME NEW p \in Proc PROVE <<p, "cwd">> \in S
          BY <2>2, <2>4 DEF LocalVar
        <4>2. ASSUME h \in S PROVE h \in Proc \X {"cwd"}
          <5>1. h \in Holder
            BY <2>1, <4>2
          <5>2. CASE h \in Proc \X LocalVar
            <6>1. PICK p \in Proc, v \in LocalVar : h = <<p, v>>
              BY <5>2
            <6> QED BY <2>2, <4>2, <6>1
          <5>3. CASE h \in File \X {"file"}
            <6>1. PICK f \in File : h = <<f, "file">>
              BY <5>3
            <6> QED BY <2>3, <4>2, <6>1
          <5> QED BY <5>1, <5>2, <5>3 DEF Holder
        <4> QED BY <4>1, <4>2
      <3>2. S = Proc \X {"cwd"}
        BY <3>1
      <3>3. Cardinality(S) = Cardinality(Proc)
        BY <3>2, Sizes, Tagged
      <3> QED BY <1>1, <2>1, <2>4, <3>3 DEF Count
    <2>5. CASE s # 1
      <3>1. S = {}
        BY <2>1, <2>2, <2>3, <2>5 DEF Holder
      <3>2. Cardinality(S) = 0
        BY <3>1, FS_EmptySet
      <3> QED BY <1>1, <2>1, <2>5, <3>2 DEF Count
    <2> QED BY <2>4, <2>5
  <1>8. FileInv
    <2>1. ASSUME NEW f \in File PROVE Cardinality(Descriptors(f)) = 0
      <3>1. f # 0
        BY Sizes DEF File
      <3>2. Descriptors(f) = {}
        BY <3>1 DEF Init, Descriptors
      <3> QED BY <3>2, FS_EmptySet
    <2> QED BY <1>1, <2>1 DEF FileInv
  <1>9. BlockInv
    <2>1. \A i \in Inum : /\ i = 1 => dinode[i].addrs = {1, 2}
                          /\ i = 2 => dinode[i].addrs = {3}
                          /\ i = 3 => dinode[i].addrs = {4}
                          /\ i \notin {1, 2, 3} => dinode[i].addrs = {}
                          /\ dinode[i].type = "none" => i \notin {1, 2, 3}
      BY FirstInodes DEF Init
    <2>2. {1, 2, 3} \subseteq Inum
      BY FileSystemAssumption DEF Inum
    <2>3. used = {1, 2, 3, 4}
      BY DEF Init
    <2>4. used = UNION {dinode[i].addrs : i \in Inum}
      BY <2>1, <2>2, <2>3
    <2>5. \A i, j \in Inum : i # j => dinode[i].addrs \cap dinode[j].addrs = {}
      BY <2>1
    <2>6. \A i \in Inum : dinode[i].type = "none" => dinode[i].addrs = {}
      BY <2>1
    <2> QED BY <2>4, <2>5, <2>6 DEF BlockInv, BlocksOwnedOnce
  <1> QED
    BY <1>1, <1>2, <1>3, <1>4, <1>6, <1>7, <1>8, <1>9 DEF IInv
-----------------------------------------------------------------------------
(* Every step *)

\* Nothing changes.
LEMMA StutterStep ==
  ASSUME IInv, UNCHANGED vars
  PROVE  IInv'
  <1>1. /\ dinode' = dinode /\ dir' = dir /\ used' = used /\ itable' = itable /\ ftable' = ftable
        /\ ofile' = ofile /\ cwd' = cwd /\ th' = th /\ ncalls' = ncalls /\ lost' = lost
    BY DEF vars, disk, files
  <1>2. TypeOK'
    BY <1>1 DEF IInv, TypeOK
  <1>3. \A s : OpenOn(s)' = OpenOn(s) /\ WorkingIn(s)' = WorkingIn(s) /\ Descriptors(s)' = Descriptors(s)
    BY <1>1 DEF OpenOn, WorkingIn, Descriptors
  <1>4. \A p \in Proc : PathInv(p)' /\ LockInv(p)' /\ UserInv(p)'
    <2>1. \A p \in Proc : PathInv(p)'
      BY <1>1 DEF IInv, PathInv
    <2>2. \A p \in Proc : LockInv(p)'
      BY <1>1, <1>3 DEF IInv, LockInv, At
    <2>3. \A p \in Proc : UserInv(p)'
      BY <1>1 DEF IInv, UserInv
    <2> QED BY <2>1, <2>2, <2>3
  <1>5. CacheInv' /\ InUseIsAllocated'
    BY <1>1, <1>3 DEF IInv, CacheInv, InUseIsAllocated
  <1>6. RefInv'
    <2>1. Holds' = Holds
      BY <1>1 DEF Holds, Held1
    <2> QED BY <1>1, <2>1 DEF IInv, RefInv, Count
  <1>7. FileInv'
    BY <1>1, <1>3 DEF IInv, FileInv
  <1>8. BlockInv'
    BY <1>1, BlocksStay DEF IInv
  <1> QED
    BY <1>2, <1>4, <1>5, <1>6, <1>7, <1>8 DEF IInv

\* Every step keeps the invariant.
LEMMA NextInv == IInv /\ [Next]_vars => IInv'
  <1> SUFFICES ASSUME IInv, [Next]_vars PROVE IInv'
    OBVIOUS
  <1>1. CASE UNCHANGED vars
    BY <1>1, StutterStep
  <1>2. CASE Next
    <2>1. PICK p \in Proc : Step(p)
      BY <1>2 DEF Next
    <2>2. ASSUME NEW c \in Calls, Begin(p, c) PROVE IInv'
      BY <2>2, BeginStep
    <2>3. CASE Namex(p) \/ Walk(p)
      BY <2>3, NamexStep, WalkStep
    <2>4. CASE IPut(p) \/ IPutTrunc(p) \/ IPutFree(p) \/ IPutDrop(p) \/ DropIp(p) \/ DropDp(p)
      BY <2>4, IPutStep, IPutTruncStep, IPutFreeStep, IPutDropStep, DropIpStep, DropDpStep
    <2>5. CASE CreateDp(p) \/ CreateFound(p) \/ Ialloc(p) \/ IallocGet(p)
      BY <2>5, CreateDpStep, CreateFoundStep, IallocStep, IallocGetStep
    <2>6. CASE CreateIp(p) \/ CreateLink(p) \/ CreateFail(p)
      BY <2>6, CreateIpStep, CreateLinkStep, CreateFailStep
    <2>7. CASE UnlinkDp(p) \/ UnlinkIp(p) \/ UnlinkDec(p)
      BY <2>7, UnlinkDpStep, UnlinkIpStep, UnlinkDecStep
    <2>8. CASE LinkInc(p) \/ LinkDp(p) \/ LinkBad(p) \/ ChdirIp(p)
      BY <2>8, LinkIncStep, LinkDpStep, LinkBadStep, ChdirIpStep
    <2>9. CASE OpenIp(p) \/ OpenFile(p) \/ OpenTrunc(p) \/ WriteI(p)
      BY <2>9, OpenIpStep, OpenFileStep, OpenTruncStep, WriteIStep
    <2>10. ASSUME NEW fd \in Fd, Write(p, fd) \/ Close(p, fd) \/ Dup(p, fd) \/ ExitClose(p, fd) PROVE IInv'
      BY <2>10, WriteStep, CloseStep, DupStep, ExitCloseStep
    <2>11. ASSUME NEW np \in Proc, Fork(p, np) PROVE IInv'
      BY <2>11, ForkStep
    <2>12. CASE ExitCwd(p)
      BY <2>12, ExitCwdStep
    <2> QED BY <2>1, <2>2, <2>3, <2>4, <2>5, <2>6, <2>7, <2>8, <2>9, <2>10, <2>11, <2>12 DEF Step
  <1> QED
    BY <1>1, <1>2

\* The inductive invariant holds, whatever calls the processes make and wherever they are
\* preempted; its first part is the type invariant.
THEOREM InodesInvariant == Spec => []IInv
  <1>1. Init => IInv
    BY InitInv
  <1>2. IInv /\ [Next]_vars => IInv'
    BY NextInv
  <1> QED
    BY <1>1, <1>2, PTL DEF Spec

\* The counts of iget(), idup(), iput(), filealloc(), filedup() and fileclose() are those of
\* the references there are, what is open or worked in is allocated, and what is cached
\* agrees with the disk.
THEOREM ReferencesAreExact == Spec => []RefsAreExact
  <1>1. Spec => []IInv
    BY InodesInvariant, PTL
  <1> QED
    BY <1>1, InvImpliesExact, PTL

\* balloc() and bfree(): a block belongs to one inode or is marked free.
THEOREM BlocksHaveOneOwner == Spec => []BlocksOwnedOnce
  <1>1. Spec => []IInv
    BY InodesInvariant, PTL
  <1>2. IInv => BlocksOwnedOnce
    BY DEF IInv, BlockInv
  <1> QED
    BY <1>1, <1>2, PTL
=============================================================================
