------------------------------ MODULE CowProofs -----------------------------
(***************************************************************************)
(* The virtual memory of the kernel counts its pages exactly: every step   *)
(* of Cow is one of PageRefs, whose counts are exact.  From this, nothing  *)
(* that a process may store to is referred to from elsewhere, and no panic *)
(* of vm.c is reached.  For any processes, pages and addresses; whichever  *)
(* allocation fails and however fork(), exec(), sbrk(), wait() and faults  *)
(* interleave; for the kernel that shares pages and the one that copies.   *)
(*                                                                         *)
(* Three invariants, each with one lemma per action: ShapeInv (the tables  *)
(* and where each path stands), Counted (references) and OwnerInv (owners).*)
(* With a fourth, ContentInv, of what the pages under construction hold,   *)
(* every step is one of PrivateMemory or changes nothing a program sees.   *)
(***************************************************************************)
EXTENDS Cow, FiniteSetTheorems, TLAPS
(* Address spaces *)

\* Table t maps the first n virtual pages.
Maps(t, n) == \A va \in VA : pa[t][va] # NoPage <=> va < n
Void(t) == \A s \in Where : pa[t][s] = NoPage
Full(p) == Maps(Cur(p), sz[p]) /\ pa[Cur(p)][Root] # NoPage

\* A page table is taken down from its leaves to its root.
Tree(t) == /\ pa[t][Root] = NoPage => pa[t][Leaf] = NoPage
           /\ pa[t][Leaf] = NoPage => \A va \in VA : pa[t][va] = NoPage

(* Paths *)

HasKid(p) == th[p].k \in {"fork", "wait"}
Acts(p) == th[p].at \notin {"dead", "boot"}

\* The calls that a path at some place may serve.
ServesCall(p) == LET t == th[p] IN
  /\ t.at \in {"boot", "dead", "user"} => t.k = "none"
  /\ t.at \in {"alloc", "map"} => t.k \in {"boot", "sbrk", "exec", "fork"}
  /\ t.at = "unmap" => t.k \in {"sbrk", "exec", "fork", "wait"}
  /\ t.at = "freewalk" => t.k \in {"exec", "fork", "wait"}
  /\ t.at \in {"forkmap", "forkref"} => t.k = "fork"
  /\ t.at \in {"copyout", "put"} => t.k \in {"read", "exec", "wait"}
  /\ t.at = "remap" => t.k \in {"fault", "read", "exec", "wait"}
  /\ t.at = "commit" => t.k = "exec"
  /\ t.at = "panic" => t.k = "init exiting" /\ p = InitProc

\* Where its loop stands, and when it holds a page.
LoopBounds(p) == LET t == th[p] IN
  /\ t.at \in {"alloc", "map", "unmap", "forkmap", "forkref"} => t.lo <= t.i /\ t.i <= t.n
  /\ t.at \in {"map", "forkref"} => t.i < t.n
  /\ t.at \in {"alloc", "map"} => /\ t.k = "exec" => t.n = Len(Image)
                                  /\ t.k = "boot" => t.n = 1
                                  /\ t.k = "sbrk" => t.lo = sz[p]
  /\ t.at \in {"alloc", "map", "forkmap", "forkref"} /\ t.k = "fork" => t.n = sz[p]
  /\ t.k # "sbrk" => t.lo = 0
  /\ t.at = "unmap" => t.lo <= sz[p] \/ t.k # "sbrk"
  /\ t.at = "remap" => t.i < sz[p] /\ perm[Cur(p)][t.i].cow
  /\ t.at = "forkref" => /\ pa[Target(p)][t.i] = pa[Cur(p)][t.i]
                         /\ ~perm[Cur(p)][t.i].w
  /\ t.at \in {"copyout", "put"} => t.i \in VA
  /\ t.at \in {"copyout", "remap", "put"} /\ t.k = "exec" => t.i < Len(Image)
  /\ t.at \in {"map", "remap"} <=> t.pg # NoPage

\* The virtual pages that the table it works on maps.
Progress(p) == LET t == th[p] IN
  /\ t.at \in {"alloc", "map", "forkmap"} => Maps(Target(p), t.i)
  /\ t.at = "forkref" => Maps(Target(p), t.i + 1)
  /\ t.at = "unmap" => \A va \in VA : pa[Target(p)][va] # NoPage
                                        <=> va < t.lo \/ (t.i <= va /\ va < t.n)
  /\ t.at = "freewalk" => Maps(Target(p), 0)
  /\ t.at \in {"copyout", "put", "remap", "commit"} /\ t.k = "exec" => Maps(Target(p), Len(Image))
  /\ t.at \in {"copyout", "put", "remap"} /\ t.k = "wait" => Maps(Target(p), sz[t.kid])

\* The tables it leaves alone, its own among them when it works on another.
Keeps(p) == LET t == th[p] IN
  /\ Acts(p) /\ t.at # "freewalk" => pa[Target(p)][Root] # NoPage
  /\ Acts(p) /\ t.k \notin {"boot", "sbrk"} => Full(p)
  /\ t.k # "exec" => Void(Scratch(p))

\* The process a path makes or reaps, and the life of its own.
Life(p) == LET t == th[p] IN
  /\ HasKid(p) => t.kid \in Proc
  /\ t.k = "fork" => status[t.kid] = "used"
  /\ t.k = "wait" => status[t.kid] = "zombie" /\ parent[t.kid] = p
  /\ Acts(p) /\ t.k # "boot" <=> status[p] = "live"
  /\ t.at = "boot" \/ t.k = "boot" => p = InitProc /\ status[p] = "used"
  /\ t.at = "boot" \/ status[p] = "unused" => Void(Cur(p))
  /\ status[p] = "zombie" /\ (\A q \in Proc : HasKid(q) => th[q].kid # p) => Full(p)

PathShape(p) == ServesCall(p) /\ LoopBounds(p) /\ Progress(p) /\ Keeps(p) /\ Life(p)

KidsApart == \A p, q \in Proc : HasKid(p) /\ HasKid(q) /\ th[p].kid = th[q].kid => p = q

Booting == th[InitProc].at = "boot" \/ th[InitProc].k = "boot"

\* Until the first process runs nobody else does, and there is memory for it.
BootAlone ==
  LET t == th[InitProc]  c == pa[Cur(InitProc)] IN
  /\ Booting => \A q \in Proc : q # InitProc => th[q].at = "dead"
  /\ t.at = "boot" => Page \ free = kern
  /\ t.k = "boot" /\ t.i = 0 => /\ Cardinality(kern) \in KernelPages
                                /\ Page \ free \subseteq kern \cup {c[Root], c[Leaf], t.pg}

ShapeInv == /\ TypeOK
            /\ \A t \in Table : Tree(t)
            /\ \A p \in Proc : PathShape(p)
            /\ KidsApart /\ BootAlone
-----------------------------------------------------------------------------
(* Types *)

\* The places of a path, and the record of its variables.
Ats == {"boot", "dead", "user", "alloc", "map", "unmap", "freewalk", "forkmap",
        "forkref", "copyout", "remap", "put", "commit", "panic"}
Calling == {"none", "boot", "fork", "exec", "sbrk", "wait", "read", "fault"} \cup Panics
Path == [at : Ats, k : Calling, i : 0 .. NVA, n : 0 .. NVA, lo : 0 .. NVA,
         pg : Page \cup {NoPage}, kid : Proc \cup {NoProc}]

MemTypes == /\ free \in SUBSET Page /\ ref \in [Page -> Int]
            /\ data \in [Page -> Data \cup {Junk}]
TableTypes == /\ pa \in [Table -> [Where -> Page \cup {NoPage}]]
              /\ perm \in [Table -> [VA -> Perm]]
ProcTypes == /\ active \in [Proc -> {0, 1}] /\ sz \in [Proc -> 0 .. NVA]
             /\ status \in [Proc -> {"unused", "used", "live", "zombie"}]
             /\ parent \in [Proc -> Proc \cup {NoProc}]

\* TypeOK in parts, which keeps it folded in the proofs below.
LEMMA TypeParts ==
  TypeOK <=> /\ MemTypes /\ TableTypes /\ ProcTypes
             /\ eager \in BOOLEAN /\ kern \in SUBSET Page
             /\ th \in [Proc -> Path]
  BY DEF TypeOK, MemTypes, TableTypes, ProcTypes, Path, Ats, Calling

\* ... and after a step.
LEMMA TypePartsAfter ==
  TypeOK' <=> /\ MemTypes' /\ TableTypes' /\ ProcTypes'
              /\ eager' \in BOOLEAN /\ kern' \in SUBSET Page
              /\ th' \in [Proc -> Path]
  BY DEF TypeOK, MemTypes, TableTypes, ProcTypes, Path, Ats, Calling

\* What the assumption on the constants says of tables and virtual pages.
LEMMA ConstantTypes ==
  /\ NVA \in Nat \ {0} /\ Leaf \in Where /\ Root \in Where /\ Leaf # Root
  /\ VA \subseteq Where /\ Leaf \notin VA /\ Root \notin VA
  /\ \A s \in Where : s \in VA \/ s = Leaf \/ s = Root
  /\ \A va \in VA : va \in Int /\ 0 <= va /\ va < NVA /\ va \in 0 .. NVA /\ va + 1 \in 0 .. NVA
  /\ InitProc \in Proc /\ NoProc \notin Proc /\ NoPage \notin Page
  /\ Len(Image) \in 1 .. NVA /\ Len(Image) - 1 \in VA
  BY CowAssumption DEF Leaf, Root, Where, VA

\* A process has two page tables: its own, and the one that exec() builds.
LEMMA TheTables ==
  ASSUME TypeOK, NEW p \in Proc
  PROVE  /\ Cur(p) \in Table /\ Scratch(p) \in Table /\ Cur(p) # Scratch(p)
         /\ Cur(p)[1] = p /\ Scratch(p)[1] = p
         /\ \A t \in Table : t[1] = p => t = Cur(p) \/ t = Scratch(p)
  BY TypeParts DEF ProcTypes, Cur, Scratch, Table

\* The variables of a path have their types.
LEMMA PathFields ==
  ASSUME TypeOK, NEW p \in Proc
  PROVE  /\ th[p].i \in 0 .. NVA /\ th[p].n \in 0 .. NVA /\ th[p].lo \in 0 .. NVA
         /\ th[p].k \in Calling /\ th[p].at \in Ats
         /\ th[p].pg \in Page \cup {NoPage} /\ th[p].kid \in Proc \cup {NoProc}
         /\ th[p] \in Path /\ th \in [Proc -> Path]
         /\ sz[p] \in 0 .. NVA
  <1> DEFINE r == th[p]
  <1>1. r \in Path /\ th \in [Proc -> Path] /\ sz[p] \in 0 .. NVA
    BY TypeParts DEF ProcTypes
  <1> HIDE DEF r
  <1>2. /\ r.i \in 0 .. NVA /\ r.n \in 0 .. NVA /\ r.lo \in 0 .. NVA
        /\ r.k \in Calling /\ r.at \in Ats
        /\ r.pg \in Page \cup {NoPage} /\ r.kid \in Proc \cup {NoProc}
    BY <1>1 DEF Path
  <1> QED
    BY <1>1, <1>2 DEF r

\* kalloc(), kfree() and kcopy_n_deref() keep the types of the allocator.
LEMMA AllocatorTypes ==
  ASSUME TypeOK
  PROVE  /\ \A g \in Page, d \in Data \cup {Junk} : Kalloc(g, d) => MemTypes'
         /\ \A g \in Page : Kfree(g) \/ Krefpage(g) => MemTypes'
         /\ \A g, h \in Page : KcopyTo(g, h) => MemTypes'
         /\ UNCHANGED mem => MemTypes'
  <1>1. MemTypes
    BY TypeParts
  <1>2. ASSUME NEW g \in Page, NEW d \in Data \cup {Junk}, Kalloc(g, d) PROVE MemTypes'
    BY <1>1, <1>2 DEF MemTypes, Kalloc
  <1>3. ASSUME NEW g \in Page, Kfree(g) PROVE MemTypes'
    BY <1>1, <1>3 DEF MemTypes, Kfree
  <1>4. ASSUME NEW g \in Page, Krefpage(g) PROVE MemTypes'
    BY <1>1, <1>4 DEF MemTypes, Krefpage
  <1>5. ASSUME NEW g \in Page, NEW h \in Page, KcopyTo(g, h) PROVE MemTypes'
    BY <1>1, <1>5 DEF MemTypes, KcopyTo
  <1>6. UNCHANGED mem => MemTypes'
    BY <1>1 DEF MemTypes, mem
  <1> QED
    BY <1>2, <1>3, <1>4, <1>5, <1>6

\* A step that gives the variables of path p these values, and leaves the others.
Sets(p, at, k, i, n, lo, pg, kid) ==
  /\ th' = [th EXCEPT ![p] = th'[p]]
  /\ th'[p] = [at |-> at, k |-> k, i |-> i, n |-> n, lo |-> lo, pg |-> pg, kid |-> kid]

\* A step that changes the variables of one path keeps the types of all.
LEMMA OnePathMoves ==
  ASSUME TypeOK, NEW p \in Proc, th' = [th EXCEPT ![p] = th'[p]], th'[p] \in Path
  PROVE  th' \in [Proc -> Path] /\ \A q \in Proc : q # p => th'[q] = th[q]
  <1>1. th \in [Proc -> Path]
    BY TypeParts
  <1> QED
    BY <1>1
-----------------------------------------------------------------------------
(* A step of a process leaves the others alone *)

\* What belongs to process q.
Same(q) ==
  /\ th'[q] = th[q] /\ status'[q] = status[q] /\ sz'[q] = sz[q] /\ active'[q] = active[q]
  /\ \A b \in {0, 1} : pa'[<<q, b>>] = pa[<<q, b>>] /\ perm'[<<q, b>>] = perm[<<q, b>>]

\* A process whose part of the state stays keeps both its page tables.
LEMMA SameTables ==
  ASSUME TypeOK, NEW q \in Proc, Same(q)
  PROVE  /\ Cur(q)' = Cur(q) /\ Scratch(q)' = Scratch(q)
         /\ pa'[Cur(q)] = pa[Cur(q)] /\ pa'[Scratch(q)] = pa[Scratch(q)]
         /\ perm'[Cur(q)] = perm[Cur(q)]
         /\ pa'[<<q, 0>>] = pa[<<q, 0>>] /\ pa'[<<q, 1>>] = pa[<<q, 1>>]
  BY TypeParts DEF Same, Cur, Scratch, ProcTypes

\* The child a path makes or reaps does nothing itself.
LEMMA KidIsDead ==
  ASSUME ShapeInv, NEW q \in Proc, HasKid(q)
  PROVE  /\ th[q].kid \in Proc /\ th[q].kid # q
         /\ th[th[q].kid].at = "dead" /\ th[th[q].kid].k = "none"
         /\ status[q] = "live" /\ Acts(q)
  <1> DEFINE c == th[q].kid
  <1>1. c \in Proc /\ status[c] \in {"used", "zombie"}
    BY DEF ShapeInv, PathShape, Life, HasKid
  <1>2. Acts(q) /\ th[q].k # "boot"
    BY DEF ShapeInv, PathShape, ServesCall, HasKid, Acts
  <1>3. status[q] = "live" /\ c # q
    BY <1>1, <1>2 DEF ShapeInv, PathShape, Life
  <1>4. ~(Acts(c) /\ th[c].k # "boot")
    BY <1>1 DEF ShapeInv, PathShape, Life
  <1>5. th[c].at # "boot" /\ th[c].k # "boot"
    <2> SUFFICES ASSUME th[c].at = "boot" \/ th[c].k = "boot" PROVE FALSE
      OBVIOUS
    <2>1. c = InitProc /\ Booting
      BY <1>1 DEF ShapeInv, PathShape, Life, Booting
    <2>2. th[q].at = "dead"
      BY <1>3, <2>1 DEF ShapeInv, BootAlone
    <2> QED
      BY <1>2, <2>2 DEF Acts
  <1>6. th[c].at = "dead"
    BY <1>4, <1>5 DEF Acts
  <1>7. th[c].k = "none"
    BY <1>1, <1>6 DEF ShapeInv, PathShape, ServesCall
  <1> QED
    BY <1>1, <1>2, <1>3, <1>6, <1>7

\* D are the process that steps and the children it has before and after.
LEMMA OthersKeepShape ==
  ASSUME ShapeInv, TypeOK', NEW D \in SUBSET Proc,
         \A q \in Proc \ D : Same(q),
         \A q \in Proc \ D : HasKid(q) => th[q].kid \notin D,
         \A q \in Proc \ D : th[q].k = "wait" => parent'[th[q].kid] = parent[th[q].kid],
         \A d \in D : HasKid(d) => th[d].kid \in D,
         NEW q \in Proc \ D
  PROVE  PathShape(q)' /\ Tree(<<q, 0>>)' /\ Tree(<<q, 1>>)'
  <1>1. Same(q)
    OBVIOUS
  <1>2. /\ Cur(q)' = Cur(q) /\ Scratch(q)' = Scratch(q)
        /\ pa'[Cur(q)] = pa[Cur(q)] /\ pa'[Scratch(q)] = pa[Scratch(q)]
        /\ perm'[Cur(q)] = perm[Cur(q)]
        /\ pa'[<<q, 0>>] = pa[<<q, 0>>] /\ pa'[<<q, 1>>] = pa[<<q, 1>>]
    BY <1>1, SameTables DEF ShapeInv
  <1>3. Tree(<<q, 0>>)' /\ Tree(<<q, 1>>)'
    BY <1>2 DEF ShapeInv, Tree, Table
  <1>4. ASSUME HasKid(q)
        PROVE  /\ th[q].kid \in Proc /\ Same(th[q].kid)
               /\ Cur(th[q].kid)' = Cur(th[q].kid) /\ pa'[Cur(th[q].kid)] = pa[Cur(th[q].kid)]
               /\ sz'[th[q].kid] = sz[th[q].kid] /\ status'[th[q].kid] = status[th[q].kid]
    <2>1. th[q].kid \in Proc \ D
      BY <1>4, KidIsDead
    <2>2. Same(th[q].kid)
      BY <2>1
    <2>3. \A c \in Proc : Same(c) => /\ <<c, active'[c]>> = Cur(c) /\ pa'[Cur(c)] = pa[Cur(c)]
                                     /\ sz'[c] = sz[c] /\ status'[c] = status[c]
      BY SameTables DEF Same, Cur, ShapeInv
    <2>4. th'[q] = th[q]
      BY <1>1 DEF Same
    <2> QED
      BY <2>1, <2>2, <2>3, <2>4 DEF Cur
  <1>5. Target(q)' = Target(q) /\ pa'[Target(q)] = pa[Target(q)]
    BY <1>1, <1>2, <1>4 DEF Target, HasKid, Same
  <1>6. ServesCall(q)'
    <2>1. ServesCall(q) /\ th'[q] = th[q]
      BY <1>1 DEF ShapeInv, PathShape, Same
    <2> QED
      BY <2>1 DEF ServesCall
  <1>7. LoopBounds(q)'
    <2>1. LoopBounds(q) /\ th'[q] = th[q] /\ sz'[q] = sz[q]
      BY <1>1 DEF ShapeInv, PathShape, Same
    <2> QED
      BY <2>1, <1>2, <1>5 DEF LoopBounds
  <1>8. Progress(q)' /\ Keeps(q)'
    <2>1. Progress(q) /\ Keeps(q) /\ th'[q] = th[q] /\ sz'[q] = sz[q]
      BY <1>1 DEF ShapeInv, PathShape, Same
    <2>2. th[q].k = "wait" => sz'[th[q].kid] = sz[th[q].kid]
      BY <1>4 DEF HasKid
    <2>3. Progress(q)'
      BY <2>1, <2>2, <1>2, <1>5 DEF Progress, Maps
    <2>4. Keeps(q)'
      BY <2>1, <1>2, <1>5 DEF Keeps, Maps, Void, Full, Acts
    <2> QED
      BY <2>3, <2>4
  <1>9. Life(q)'
    <2>1. Life(q) /\ th'[q] = th[q] /\ sz'[q] = sz[q] /\ status'[q] = status[q]
      BY <1>1 DEF ShapeInv, PathShape, Same
    <2>2. Full(q)' <=> Full(q)
      BY <2>1, <1>2 DEF Full, Maps
    <2>3. th[q].k = "wait" => parent'[th[q].kid] = parent[th[q].kid]
      OBVIOUS
    <2>4. ASSUME \A r \in Proc : HasKid(r)' => th'[r].kid # q, NEW r \in Proc, HasKid(r)
          PROVE  th[r].kid # q
      BY <2>4 DEF Same, HasKid
    <2> QED
      BY <2>1, <2>2, <2>3, <2>4, <1>2, <1>4 DEF Life, HasKid, Acts, Void
  <1> QED
    BY <1>3, <1>6, <1>7, <1>8, <1>9 DEF PathShape

\* What a step does to the processes of D, closed under the making and reaping of
\* children, is all there is to check: the others keep their shape.
LEMMA LocalStep ==
  ASSUME ShapeInv, TypeOK', BootAlone', NEW D \in SUBSET Proc,
         \A q \in Proc \ D : Same(q),
         \A q \in Proc \ D : HasKid(q) => th[q].kid \notin D,
         \A q \in Proc \ D : th[q].k = "wait" => parent'[th[q].kid] = parent[th[q].kid],
         \A d \in D : HasKid(d) => th[d].kid \in D,
         \A d \in D : PathShape(d)' /\ Tree(<<d, 0>>)' /\ Tree(<<d, 1>>)',
         \A d \in D : HasKid(d)' => th'[d].kid \in D,
         \A d, e \in D : HasKid(d)' /\ HasKid(e)' => d = e
  PROVE  ShapeInv'
  <1>1. \A q \in Proc : PathShape(q)' /\ Tree(<<q, 0>>)' /\ Tree(<<q, 1>>)'
    BY OthersKeepShape
  <1>2. ASSUME NEW t \in Table PROVE Tree(t)'
    <2>1. PICK q \in Proc, b \in {0, 1} : t = <<q, b>>
      BY DEF Table
    <2> QED
      BY <1>1, <2>1
  <1>3. KidsApart'
    <2> SUFFICES ASSUME NEW q \in Proc, NEW r \in Proc, HasKid(q)', HasKid(r)',
                        th'[q].kid = th'[r].kid
                 PROVE  q = r
      BY DEF KidsApart
    <2>1. ASSUME NEW u \in Proc \ D, HasKid(u)'
          PROVE  HasKid(u) /\ th'[u].kid = th[u].kid /\ th[u].kid \notin D
      BY <2>1 DEF Same, HasKid
    <2>2. CASE q \in D /\ r \in D
      BY <2>2
    <2>3. CASE q \notin D /\ r \notin D
      BY <2>1, <2>3 DEF ShapeInv, KidsApart
    <2>4. CASE (q \in D /\ r \notin D) \/ (q \notin D /\ r \in D)
      BY <2>1, <2>4
    <2> QED
      BY <2>2, <2>3, <2>4
  <1> QED
    BY <1>1, <1>2, <1>3 DEF ShapeInv

\* The processes that a path may change: its own, and the child it makes or reaps.
Reach(p) == {p} \cup (IF HasKid(p) THEN {th[p].kid} ELSE {})

\* What a path may change is not what another makes or reaps.
LEMMA Elsewhere ==
  ASSUME ShapeInv, NEW p \in Proc, Acts(p), NEW q \in Proc, q # p, HasKid(q)
  PROVE  th[q].kid \notin Reach(p) /\ q \notin Reach(p)
  <1>1. th[q].kid # p
    BY KidIsDead DEF Acts
  <1>2. HasKid(p) => th[q].kid # th[p].kid
    BY DEF ShapeInv, KidsApart
  <1>3. HasKid(p) => q # th[p].kid
    BY KidIsDead DEF HasKid
  <1> QED
    BY <1>1, <1>2, <1>3 DEF Reach

\* While a path runs that is not the first the system is not booting.
LEMMA Booted ==
  ASSUME ShapeInv, NEW p \in Proc, Acts(p), th[p].k # "boot"
  PROVE  ~Booting
  BY DEF ShapeInv, BootAlone, Booting, Acts

\* What a path may change is processes, its own among them.
LEMMA ReachTypes ==
  ASSUME ShapeInv, NEW p \in Proc
  PROVE  Reach(p) \in SUBSET Proc /\ p \in Reach(p)
  BY KidIsDead DEF Reach

\* A step of a path that keeps to these keeps ShapeInv if its own shape is right.
LEMMA PathStep ==
  ASSUME ShapeInv, TypeOK', NEW p \in Proc, Acts(p),
         th[p].k = "boot" => BootAlone',
         th[p].k # "boot" => th'[p].k # "boot",
         th'[p].at # "boot",
         \A q \in Proc \ Reach(p) : Same(q),
         \A q \in Proc : parent'[q] = parent[q] \/ q \in Reach(p) \/ parent[q] = p,
         PathShape(p)' /\ Tree(<<p, 0>>)' /\ Tree(<<p, 1>>)',
         HasKid(p)' => HasKid(p) /\ th'[p].kid = th[p].kid,
         \A c \in Proc : HasKid(p) /\ c = th[p].kid =>
           /\ PathShape(c)' /\ Tree(<<c, 0>>)' /\ Tree(<<c, 1>>)'
           /\ ~HasKid(c)' /\ th'[c].at # "boot" /\ th'[c].k # "boot"
  PROVE  ShapeInv'
  <1>1. BootAlone'
    <2>1. CASE th[p].k = "boot"
      BY <2>1
    <2>2. CASE th[p].k # "boot"
      <3>1. ~Booting /\ InitProc \in Proc
        BY <2>2, Booted, ConstantTypes
      <3>2. th'[InitProc].at # "boot" /\ th'[InitProc].k # "boot"
        <4>1. CASE InitProc \notin Reach(p)
          BY <3>1, <4>1 DEF Same, Booting
        <4>2. CASE InitProc \in Reach(p)
          BY <2>2, <3>1, <4>2 DEF Reach
        <4> QED
          BY <4>1, <4>2
      <3> QED
        BY <3>2 DEF BootAlone, Booting
    <2> QED
      BY <2>1, <2>2
  <1>2. \A q \in Proc \ Reach(p) : HasKid(q) => th[q].kid \notin Reach(p)
    BY Elsewhere, ReachTypes
  <1>3. \A q \in Proc \ Reach(p) : th[q].k = "wait" => parent'[th[q].kid] = parent[th[q].kid]
    <2> SUFFICES ASSUME NEW q \in Proc \ Reach(p), th[q].k = "wait"
                 PROVE  parent'[th[q].kid] = parent[th[q].kid]
      OBVIOUS
    <2>1. HasKid(q) /\ q # p
      BY ReachTypes DEF HasKid
    <2>2. th[q].kid \in Proc /\ parent[th[q].kid] = q
      BY <2>1, KidIsDead DEF ShapeInv, PathShape, Life
    <2> QED
      BY <1>2, <2>1, <2>2
  <1>4. ASSUME NEW d \in Reach(p)
        PROVE  /\ HasKid(d) => d = p
               /\ PathShape(d)' /\ Tree(<<d, 0>>)' /\ Tree(<<d, 1>>)'
               /\ HasKid(d)' => d = p
    <2>1. d \in Proc /\ (d = p \/ (HasKid(p) /\ d = th[p].kid))
      BY ReachTypes DEF Reach
    <2>2. HasKid(p) /\ d = th[p].kid => ~HasKid(d)
      BY <2>1, KidIsDead DEF HasKid
    <2> QED
      BY <2>1, <2>2
  <1>5. \A d \in Reach(p) : HasKid(d) => th[d].kid \in Reach(p)
    BY <1>4 DEF Reach
  <1>6. \A d \in Reach(p) : HasKid(d)' => th'[d].kid \in Reach(p)
    BY <1>4 DEF Reach
  <1>7. \A d, e \in Reach(p) : HasKid(d)' /\ HasKid(e)' => d = e
    BY <1>4
  <1> QED
    BY <1>1, <1>2, <1>3, <1>4, <1>5, <1>6, <1>7, ReachTypes, LocalStep

\* The table that a path works on is its own or its child's.
LEMMA OwnTables ==
  ASSUME ShapeInv, NEW p \in Proc
  PROVE  /\ Target(p) \in Table /\ Target(p)[1] \in Reach(p)
         /\ HasKid(p) => Target(p) = Cur(th[p].kid)
         /\ th[p].k = "exec" => Target(p) = Scratch(p)
         /\ ~HasKid(p) /\ th[p].k # "exec" => Target(p) = Cur(p)
         /\ \A t \in Table : t[1] = p => t = <<p, 0>> \/ t = <<p, 1>>
  <1>1. HasKid(p) => th[p].kid \in Proc
    BY KidIsDead
  <1>2. TypeOK
    BY DEF ShapeInv
  <1> QED
    BY <1>1, <1>2, TheTables DEF Target, Reach, HasKid, Table

\* The child that a path works on keeps its shape while the path goes on.
LEMMA KidShape ==
  ASSUME ShapeInv, TypeOK', NEW p \in Proc, HasKid(p), NEW c \in Proc, c = th[p].kid,
         th'[c] = th[c], status'[c] = status[c], sz'[c] = sz[c], active'[c] = active[c],
         pa'[Scratch(c)] = pa[Scratch(c)], HasKid(p)', th'[p].kid = c
  PROVE  PathShape(c)' /\ ~HasKid(c)' /\ th'[c].at = "dead" /\ th'[c].k = "none"
  <1>1. th[c].at = "dead" /\ th[c].k = "none" /\ c # p
    BY KidIsDead
  <1>2. status[c] \in {"used", "zombie"}
    BY DEF ShapeInv, PathShape, Life, HasKid
  <1>3. Scratch(c)' = Scratch(c)
    BY DEF Scratch
  <1>4. LoopBounds(c) /\ Keeps(c) /\ Life(c)
    BY DEF ShapeInv, PathShape
  <1>5. ServesCall(c)'
    BY <1>1 DEF ServesCall
  <1>6. LoopBounds(c)'
    BY <1>1, <1>4 DEF LoopBounds
  <1>7. Progress(c)' /\ Keeps(c)'
    BY <1>1, <1>3, <1>4 DEF Progress, Keeps, Acts, Void
  <1>8. Life(c)'
    BY <1>1, <1>2 DEF Life, Acts, HasKid
  <1> QED
    BY <1>1, <1>5, <1>6, <1>7, <1>8 DEF PathShape, HasKid

\* A step that only changes the tables a path works on, and its variables.
LEMMA WorkStep ==
  ASSUME ShapeInv, TypeOK', NEW p \in Proc, Acts(p), UNCHANGED procs,
         th[p].k = "boot" => BootAlone',
         th'[p].k = th[p].k, th'[p].kid = th[p].kid, th'[p].at \notin {"boot", "dead"},
         \A q \in Proc : q # p => th'[q] = th[q],
         \A t \in Table : t # Target(p) /\ t # Cur(p) => pa'[t] = pa[t] /\ perm'[t] = perm[t],
         ServesCall(p)', LoopBounds(p)', Progress(p)',
         th'[p].at # "freewalk" => pa'[Target(p)][Root] # NoPage,
         th[p].k \notin {"boot", "sbrk"} => Full(p)',
         \A t \in {Target(p), Cur(p)} : Tree(t)'
  PROVE  ShapeInv'
  <1>1. \A q \in Proc \ Reach(p) : Same(q)
    <2> SUFFICES ASSUME NEW q \in Proc \ Reach(p) PROVE Same(q)
      OBVIOUS
    <2>1. \A b \in {0, 1} : <<q, b>> \in Table /\ <<q, b>> # Target(p) /\ <<q, b>> # Cur(p)
      BY OwnTables, ReachTypes DEF Table, Cur
    <2> QED
      BY <2>1, ReachTypes DEF Same, procs
  <1>2. ASSUME NEW t \in Table PROVE Tree(t)'
    <2>1. CASE t # Target(p) /\ t # Cur(p)
      BY <2>1 DEF ShapeInv, Tree
    <2> QED
      BY <2>1
  <1>3. \A q \in Proc : <<q, 0>> \in Table /\ <<q, 1>> \in Table
    BY DEF Table
  <1>4. HasKid(p)' <=> HasKid(p)
    BY DEF HasKid
  <1>5. ASSUME HasKid(p), NEW c \in Proc, c = th[p].kid
        PROVE  PathShape(c)' /\ ~HasKid(c)' /\ th'[c].at = "dead" /\ th'[c].k = "none"
    <2>1. c # p
      BY <1>5, KidIsDead
    <2>2. Scratch(c) \in Table /\ Scratch(c) # Target(p) /\ Scratch(c) # Cur(p)
      BY <1>5, <2>1, OwnTables, TheTables DEF ShapeInv
    <2> QED
      BY <1>4, <1>5, <2>1, <2>2, KidShape DEF procs
  <1>6. Keeps(p)'
    <2>1. Keeps(p) /\ Acts(p)'
      BY DEF ShapeInv, PathShape, Acts
    <2>2. Target(p)' = Target(p) /\ Scratch(p)' = Scratch(p)
      BY <1>4 DEF Target, Cur, Scratch, procs
    <2>3. th[p].k # "exec" => pa'[Scratch(p)] = pa[Scratch(p)]
      <3>1. th[p].k # "exec" => Scratch(p) # Target(p) /\ Scratch(p) # Cur(p)
        BY OwnTables, TheTables, KidIsDead DEF ShapeInv
      <3> QED
        BY <3>1, TheTables DEF ShapeInv
    <2> QED
      BY <2>1, <2>2, <2>3 DEF Keeps, Void
  <1>7. Life(p)'
    <2>1. Life(p) /\ Acts(p)'
      BY DEF ShapeInv, PathShape, Acts
    <2>2. status[p] \notin {"unused", "zombie"}
      BY <2>1 DEF Life
    <2> QED
      BY <2>1, <2>2, <1>4 DEF Life, procs, HasKid
  <1>8. PathShape(p)'
    BY <1>6, <1>7 DEF PathShape
  <1> QED
    BY <1>1, <1>2, <1>3, <1>4, <1>5, <1>8, KidIsDead, PathStep DEF procs

\* ... as do the steps that extend a table or take one down.
LEMMA TableStep ==
  ASSUME ShapeInv, TypeOK', NEW p \in Proc, Acts(p), UNCHANGED procs,
         th[p].k \in {"boot", "sbrk", "exec", "fork", "wait"},
         th[p].k = "boot" => BootAlone',
         th'[p].k = th[p].k, th'[p].kid = th[p].kid, th'[p].at \notin {"boot", "dead"},
         \A q \in Proc : q # p => th'[q] = th[q],
         \A t \in Table : t # Target(p) => pa'[t] = pa[t] /\ (t # Cur(p) => perm'[t] = perm[t]),
         ServesCall(p)', LoopBounds(p)', Progress(p)',
         th'[p].at # "freewalk" => pa'[Target(p)][Root] # NoPage,
         \A t \in {Target(p)} : Tree(t)'
  PROVE  ShapeInv'
  <1>1. th[p].k \notin {"boot", "sbrk"} => Full(p)'
    <2> SUFFICES ASSUME th[p].k \in {"exec", "fork", "wait"} PROVE Full(p)'
      OBVIOUS
    <2>1. Full(p)
      BY DEF ShapeInv, PathShape, Keeps
    <2>2. Cur(p) \in Table /\ Cur(p) # Target(p)
      BY OwnTables, TheTables, KidIsDead DEF ShapeInv, HasKid
    <2> QED
      BY <2>1, <2>2 DEF Full, Maps, Cur, procs
  <1>2. \A t \in {Target(p), Cur(p)} : Tree(t)'
    <2>1. Cur(p) \in Table
      BY TheTables DEF ShapeInv
    <2>2. Cur(p) # Target(p) => \A t \in {Cur(p)} : Tree(t)'
      BY <2>1 DEF ShapeInv, Tree
    <2> QED
      BY <2>2
  <1> QED
    BY <1>1, <1>2, WorkStep
-----------------------------------------------------------------------------
(* Each step keeps the shape *)

\* What ShapeInv says of a path, in one place.
LEMMA PathFacts ==
  ASSUME ShapeInv, NEW p \in Proc
  PROVE  /\ ServesCall(p) /\ LoopBounds(p) /\ Progress(p) /\ Keeps(p) /\ Life(p)
         /\ TypeOK /\ MemTypes /\ TableTypes /\ ProcTypes
         /\ eager \in BOOLEAN /\ kern \in SUBSET Page
         /\ Tree(Target(p)) /\ Tree(Cur(p)) /\ Tree(Scratch(p))
  BY TypeParts, OwnTables, TheTables DEF ShapeInv, PathShape

\* A path that serves the same call goes on working on the same table.
LEMMA SameTarget ==
  ASSUME NEW p \in Proc, UNCHANGED active, th'[p].k = th[p].k, th'[p].kid = th[p].kid
  PROVE  Target(p)' = Target(p) /\ Cur(p)' = Cur(p) /\ Scratch(p)' = Scratch(p)
  BY DEF Target, Cur, Scratch

\* A step that changes variables of the path only.
LEMMA VariablesStep ==
  ASSUME ShapeInv, NEW p \in Proc, Acts(p), UNCHANGED <<tables, procs, eager, kern>>,
         MemTypes', th' \in [Proc -> Path],
         \A q \in Proc : q # p => th'[q] = th[q],
         th[p].k = "boot" => BootAlone',
         th'[p].k = th[p].k, th'[p].kid = th[p].kid, th'[p].at \notin {"boot", "dead"},
         th[p].at = "freewalk" => th'[p].at = "freewalk",
         ServesCall(p)', LoopBounds(p)', Progress(p)'
  PROVE  ShapeInv'
  <1>3. TypeOK'
    BY PathFacts, TypePartsAfter DEF TableTypes, ProcTypes, tables, procs
  <1>4. th'[p].at # "freewalk" => pa'[Target(p)][Root] # NoPage
    BY PathFacts DEF Keeps, tables
  <1>5. th[p].k \notin {"boot", "sbrk"} => Full(p)'
    BY PathFacts DEF Keeps, Full, Maps, Cur, tables, procs
  <1>6. \A t \in {Target(p), Cur(p)} : Tree(t)'
    BY PathFacts DEF Tree, tables
  <1> QED
    BY <1>3, <1>4, <1>5, <1>6, WorkStep DEF tables

\* uvmalloc() and uvmcopy() take the page that the next entry is to map.
LEMMA AllocPageShape ==
  ASSUME ShapeInv, NEW p \in Proc, AllocPage(p), UNCHANGED <<eager, kern>>
  PROVE  ShapeInv'
  <1>1. PICK g \in free : /\ Kalloc(g, NewData(p))
                          /\ Sets(p, "map", th[p].k, th[p].i, th[p].n, th[p].lo, g, th[p].kid)
    BY PathFacts, PathFields DEF AllocPage, Sets, Path
  <1>2. th[p].at = "alloc" /\ th[p].i < th[p].n /\ UNCHANGED <<tables, procs>> /\ Acts(p)
    BY DEF AllocPage, Acts
  <1>3. /\ th[p].i \in 0 .. NVA /\ th[p].n \in 0 .. NVA /\ th[p] \in Path
        /\ g \in Page /\ "map" \in Ats /\ TypeOK
    BY PathFacts, PathFields DEF MemTypes, Ats
  <1>4. /\ th'[p] \in Path
        /\ th'[p].at = "map" /\ th'[p].k = th[p].k /\ th'[p].i = th[p].i /\ th'[p].n = th[p].n
        /\ th'[p].lo = th[p].lo /\ th'[p].pg = g /\ th'[p].kid = th[p].kid
    BY <1>1, <1>3 DEF Sets, Path
  <1>5. th' \in [Proc -> Path] /\ \A q \in Proc : q # p => th'[q] = th[q]
    BY <1>1, <1>3, <1>4, OnePathMoves DEF Sets
  <1>6. ServesCall(p)'
    BY <1>2, <1>4, PathFacts DEF ServesCall
  <1>7. LoopBounds(p)'
    BY <1>2, <1>3, <1>4, PathFacts, ConstantTypes DEF LoopBounds, procs
  <1>8. Progress(p)'
    <2>1. Progress(p) /\ Target(p)' = Target(p)
      BY <1>2, <1>4, PathFacts, SameTarget DEF procs
    <2> QED
      BY <1>2, <1>4, <2>1 DEF Progress, Maps, procs, tables
  <1>9. th[p].k = "boot" => BootAlone'
    <2> SUFFICES ASSUME th[p].k = "boot" PROVE BootAlone'
      OBVIOUS
    <2>1. p = InitProc /\ th[p].pg = NoPage
      BY <1>2, PathFacts DEF Life, LoopBounds
    <2>2. BootAlone /\ Booting
      BY <2>1 DEF ShapeInv, Booting
    <2>3. free' = free \ {g} /\ free \subseteq Page
      BY <1>1, PathFacts DEF Kalloc, MemTypes
    <2> QED
      BY <1>2, <1>3, <1>4, <1>5, <2>1, <2>2, <2>3, ConstantTypes
      DEF BootAlone, Booting, procs, tables, Cur
  <1>10. MemTypes'
    <2>1. NewData(p) \in Data \cup {Junk}
      <3>1. th[p].k = "fork" => pa[Cur(p)][th[p].i] \in Page
        <4> SUFFICES ASSUME th[p].k = "fork" PROVE pa[Cur(p)][th[p].i] \in Page
          OBVIOUS
        <4>1. th[p].i < sz[p] /\ Full(p) /\ Cur(p) \in Table
          BY <1>2, <1>3, PathFacts, TheTables DEF LoopBounds, Keeps
        <4>2. th[p].i \in VA
          BY <1>3, <4>1, PathFields, ConstantTypes DEF VA
        <4> QED
          BY <4>1, <4>2, PathFacts, ConstantTypes DEF Full, Maps, TableTypes
      <3> QED
        BY <3>1, PathFacts, CowAssumption DEF NewData, MemTypes
    <2> QED
      BY <1>1, <1>3, <2>1, AllocatorTypes
  <1> QED
    BY <1>2, <1>4, <1>5, <1>6, <1>7, <1>8, <1>9, <1>10, VariablesStep

\* walk() adds the inner page table that the next entry needs.
LEMMA WalkAllocShape ==
  ASSUME ShapeInv, NEW p \in Proc, WalkAlloc(p), UNCHANGED <<eager, kern>>
  PROVE  ShapeInv'
  <1>1. PICK g \in free : Kalloc(g, Junk) /\ pa' = [pa EXCEPT ![Target(p)][Leaf] = g]
    BY DEF WalkAlloc
  <1>2. /\ th[p].at \in {"map", "forkmap"} /\ pa[Target(p)][Leaf] = NoPage
        /\ UNCHANGED <<perm, procs, th>> /\ Acts(p)
    BY DEF WalkAlloc, NeedsWalk, Acts
  <1>3. g \in Page /\ g # NoPage /\ TypeOK /\ Target(p) \in Table
    BY PathFacts, OwnTables, ConstantTypes DEF MemTypes
  <1>4. /\ pa'[Target(p)][Leaf] = g
        /\ \A s \in Where : s # Leaf => pa'[Target(p)][s] = pa[Target(p)][s]
        /\ \A t \in Table : t # Target(p) => pa'[t] = pa[t]
    BY <1>1, <1>3, PathFacts, ConstantTypes DEF TableTypes
  <1>5. TypeOK'
    <2>1. MemTypes'
      BY <1>1, <1>3, AllocatorTypes
    <2>2. TableTypes'
      BY <1>1, <1>2, <1>3, PathFacts, ConstantTypes DEF TableTypes
    <2> QED
      BY <1>2, <2>1, <2>2, PathFacts, TypeParts, TypePartsAfter DEF ProcTypes, procs
  <1>6. Target(p)' = Target(p) /\ Cur(p)' = Cur(p)
    BY <1>2, SameTarget DEF procs
  <1>7. ServesCall(p)' /\ LoopBounds(p)'
    BY <1>2, <1>6, PathFacts DEF ServesCall, LoopBounds, procs
  <1>8. Progress(p)'
    BY <1>2, <1>4, <1>6, PathFacts, ConstantTypes DEF Progress, Maps, procs
  <1>9. th[p].k = "boot" => BootAlone'
    <2> SUFFICES ASSUME th[p].k = "boot" PROVE BootAlone'
      OBVIOUS
    <2>1. p = InitProc /\ Target(p) = Cur(p)
      BY PathFacts DEF Life, Target
    <2>2. BootAlone /\ Booting
      BY <2>1 DEF ShapeInv, Booting
    <2>3. free' = free \ {g} /\ free \subseteq Page
      BY <1>1, PathFacts DEF Kalloc, MemTypes
    <2>4. pa'[Cur(p)][Root] = pa[Cur(p)][Root] /\ pa'[Cur(p)][Leaf] = g
      BY <1>4, <2>1, ConstantTypes
    <2> QED
      BY <1>2, <1>3, <1>6, <2>1, <2>2, <2>3, <2>4, ConstantTypes DEF BootAlone, Booting
  <1>10. pa'[Target(p)][Root] # NoPage
    BY <1>2, <1>4, PathFacts, ConstantTypes DEF Keeps
  <1>11. \A t \in {Target(p)} : Tree(t)'
    BY <1>3, <1>4, <1>10 DEF Tree
  <1>12. th[p].k \in {"boot", "sbrk", "exec", "fork", "wait"}
    BY <1>2, PathFacts DEF ServesCall
  <1> QED
    BY <1>2, <1>4, <1>5, <1>7, <1>8, <1>9, <1>10, <1>11, <1>12, TableStep

\* One element more makes a set larger by one at most.
LEMMA OneMore ==
  ASSUME NEW S, IsFiniteSet(S), NEW x
  PROVE  /\ IsFiniteSet(S \cup {x}) /\ Cardinality(S) \in Nat /\ Cardinality(S \cup {x}) \in Nat
         /\ Cardinality(S \cup {x}) <= Cardinality(S) + 1
  <1>1. Cardinality(S) \in Nat
    BY FS_CardinalityType
  <1>2. /\ IsFiniteSet(S \cup {x})
        /\ Cardinality(S \cup {x}) = IF x \in S THEN Cardinality(S) ELSE Cardinality(S) + 1
    BY FS_AddElement
  <1> QED
    BY <1>1, <1>2

\* At boot there is memory for the pages of the first process.
LEMMA BootHasMemory ==
  ASSUME ShapeInv, NEW p \in Proc, th[p].k = "boot", th[p].at \in {"alloc", "map"}, free = {},
         th[p].i < th[p].n, th[p].at = "map" => pa[Cur(p)][Leaf] = NoPage
  PROVE  FALSE
  <1>1. p = InitProc /\ BootAlone
    BY PathFacts DEF Life, ShapeInv
  <1>2. th[p].i = 0
    BY PathFacts, PathFields DEF LoopBounds
  <1> DEFINE c == pa[Cur(p)]
             S == kern \cup {c[Root]} \cup {c[Leaf]} \cup {th[p].pg}
  <1>3. Cardinality(kern) \in KernelPages /\ Page \subseteq kern \cup {c[Root], c[Leaf], th[p].pg}
    BY <1>1, <1>2 DEF BootAlone
  <1>4. IsFiniteSet(kern) /\ IsFiniteSet(Page) /\ Cardinality(kern) + 3 <= Cardinality(Page)
        /\ Cardinality(kern) \in Nat /\ Cardinality(Page) \in Nat
    BY <1>3, PathFacts, CowAssumption, FS_Subset, FS_CardinalityType
  <1>5. th[p].at = "alloc" => th[p].pg = NoPage
    BY PathFacts DEF LoopBounds
  <1>6. PICK x : Page \subseteq (kern \cup {c[Root]}) \cup {x}
    <2>1. CASE th[p].at = "alloc"
      <3>1. Page \subseteq (kern \cup {c[Root]}) \cup {c[Leaf]}
        BY <1>3, <1>5, <2>1, ConstantTypes
      <3> QED
        BY <3>1
    <2>2. CASE th[p].at = "map"
      BY <1>3, <2>2, ConstantTypes
    <2> QED
      BY <2>1, <2>2
  <1>7. /\ IsFiniteSet(kern \cup {c[Root]})
        /\ Cardinality(kern \cup {c[Root]}) \in Nat
        /\ Cardinality(kern \cup {c[Root]}) <= Cardinality(kern) + 1
    BY <1>4, OneMore
  <1>8. /\ IsFiniteSet((kern \cup {c[Root]}) \cup {x})
        /\ Cardinality((kern \cup {c[Root]}) \cup {x}) \in Nat
        /\ Cardinality((kern \cup {c[Root]}) \cup {x}) <= Cardinality(kern \cup {c[Root]}) + 1
    BY <1>7, OneMore
  <1>9. Cardinality(Page) <= Cardinality((kern \cup {c[Root]}) \cup {x})
    BY <1>6, <1>8, FS_Subset
  <1> QED
    BY <1>4, <1>7, <1>8, <1>9

\* GiveBack() takes down what the loop has built.
LEMMA GiveBackShape ==
  ASSUME ShapeInv, NEW p \in Proc, GiveBack(p), UNCHANGED <<pa, procs, eager, kern>>,
         th[p].at \in {"alloc", "map", "forkmap"}, th[p].k # "boot", MemTypes', TableTypes',
         \A t \in Table : t # Cur(p) => perm'[t] = perm[t]
  PROVE  ShapeInv'
  <1>1. Sets(p, "unmap", th[p].k, th[p].lo, th[p].i, th[p].lo, NoPage, th[p].kid)
    BY PathFacts, PathFields DEF GiveBack, Sets, Path
  <1>2. /\ th[p].i \in 0 .. NVA /\ th[p].n \in 0 .. NVA /\ th[p].lo \in 0 .. NVA /\ th[p] \in Path
        /\ "unmap" \in Ats /\ TypeOK /\ Acts(p)
    BY PathFacts, PathFields DEF Ats, Acts
  <1>3. /\ th'[p] \in Path
        /\ th'[p].at = "unmap" /\ th'[p].k = th[p].k /\ th'[p].i = th[p].lo /\ th'[p].n = th[p].i
        /\ th'[p].lo = th[p].lo /\ th'[p].pg = NoPage /\ th'[p].kid = th[p].kid
    BY <1>1, <1>2 DEF Sets, Path
  <1>4. th' \in [Proc -> Path] /\ \A q \in Proc : q # p => th'[q] = th[q]
    BY <1>1, <1>2, <1>3, OnePathMoves DEF Sets
  <1>5. ServesCall(p)'
    BY <1>3, PathFacts DEF ServesCall
  <1>6. LoopBounds(p)'
    <2>1. /\ th[p].lo <= th[p].i /\ (th[p].k # "sbrk" => th[p].lo = 0)
          /\ th[p].k = "sbrk" => th[p].lo = sz[p]
      BY PathFacts DEF LoopBounds, ServesCall
    <2>2. sz'[p] = sz[p] /\ sz[p] \in 0 .. NVA
      BY PathFacts, PathFields DEF procs
    <2> QED
      BY <1>2, <1>3, <2>1, <2>2, ConstantTypes DEF LoopBounds
  <1>7. Progress(p)'
    <2>1. Progress(p) /\ Target(p)' = Target(p) /\ th[p].lo <= th[p].i
      BY <1>3, PathFacts, SameTarget DEF procs, LoopBounds
    <2>2. \A va \in VA : va \in Int
      BY ConstantTypes
    <2> QED
      BY <1>2, <1>3, <2>1, <2>2 DEF Progress, Maps, procs
  <1>8. TypeOK'
    BY <1>4, PathFacts, TypePartsAfter DEF ProcTypes, procs
  <1>9. pa'[Target(p)][Root] # NoPage
    BY <1>2, PathFacts DEF Keeps
  <1>10. \A t \in {Target(p)} : Tree(t)'
    BY PathFacts DEF Tree
  <1>11. th[p].k \in {"boot", "sbrk", "exec", "fork", "wait"}
    BY PathFacts DEF ServesCall
  <1> QED
    BY <1>2, <1>3, <1>4, <1>5, <1>6, <1>7, <1>8, <1>9, <1>10, <1>11, TableStep

\* No page for the next entry: what the loop has mapped is given back.
LEMMA AllocFailsShape ==
  ASSUME ShapeInv, NEW p \in Proc, AllocFails(p), UNCHANGED <<eager, kern>>
  PROVE  ShapeInv'
  <1>1. th[p].k # "boot"
    BY BootHasMemory DEF AllocFails
  <1>2. MemTypes' /\ TableTypes'
    BY PathFacts, AllocatorTypes DEF AllocFails, TableTypes, tables
  <1> QED
    BY <1>1, <1>2, GiveBackShape DEF AllocFails, tables

\* No inner page table for the page at hand: it is freed, then the others are.
LEMMA MapFailsShape ==
  ASSUME ShapeInv, NEW p \in Proc, MapFails(p), UNCHANGED <<eager, kern>>
  PROVE  ShapeInv'
  <1>1. th[p].k # "boot"
    <2>1. th[p].at = "map" => th[p].i < th[p].n
      BY PathFacts DEF LoopBounds
    <2> QED
      BY <2>1, BootHasMemory DEF MapFails, NeedsWalk, Target
  <1>2. th[p].pg \in Page
    BY PathFacts, PathFields DEF LoopBounds, MapFails
  <1>3. MemTypes' /\ TableTypes'
    BY <1>2, PathFacts, AllocatorTypes DEF MapFails, TableTypes, tables
  <1> QED
    BY <1>1, <1>3, GiveBackShape DEF MapFails, tables

\* The page that a loop is at, while it runs, is one of the table's.
LEMMA IndexInTable ==
  ASSUME TypeOK, NEW p \in Proc, th[p].i < th[p].n
  PROVE  /\ th[p].i \in VA /\ th[p].i \in Where /\ th[p].i \in Int
         /\ th[p].i + 1 \in 0 .. NVA /\ th[p].i # Leaf /\ th[p].i # Root
  <1>1. th[p].i \in 0 .. NVA /\ th[p].n \in 0 .. NVA /\ NVA \in Nat
    BY PathFields, ConstantTypes
  <1>2. th[p].i \in VA
    BY <1>1 DEF VA
  <1> QED
    BY <1>2, ConstantTypes

\* A page of the program that exec() loads has the bits of its segment.
LEMMA ImagePerm ==
  ASSUME NEW j \in 1 .. Len(Image)
  PROVE  Image[j] \in [w : BOOLEAN, u : BOOLEAN]
  <1> DEFINE S == [w : BOOLEAN, u : BOOLEAN]
  <1>1. Image \in Seq(S)
    BY CowAssumption
  <1> HIDE DEF S
  <1>2. Image[j] \in S
    BY <1>1
  <1> QED
    BY <1>2 DEF S

\* mappages() fills the next entry, and the loop moves on.
LEMMA MapPageShape ==
  ASSUME ShapeInv, NEW p \in Proc, MapPage(p), UNCHANGED <<eager, kern>>
  PROVE  ShapeInv'
  <1> DEFINE t == Target(p)
             va == th[p].i
  <1>1. /\ th[p].at = "map" /\ va \in VA /\ va < th[p].n /\ pa[t][Leaf] # NoPage
        /\ t \in Table /\ TypeOK /\ Acts(p) /\ pa[t][va] = NoPage /\ th[p].pg \in Page
        /\ th[p].k \in {"boot", "sbrk", "exec", "fork"}
    <2>1. th[p].at = "map" /\ va < th[p].n /\ pa[t][Leaf] # NoPage
      BY PathFacts DEF MapPage, NeedsWalk, LoopBounds
    <2>2. va \in VA /\ va \in Int /\ th[p].pg \in Page
      <3>1. th[p].pg # NoPage
        BY <2>1, PathFacts DEF LoopBounds
      <3> QED
        BY <2>1, <3>1, PathFacts, PathFields, IndexInTable
    <2>3. pa[t][va] = NoPage
      BY <2>1, <2>2, PathFacts, PathFields DEF Progress, Maps
    <2> QED
      BY <2>1, <2>2, <2>3, PathFacts, OwnTables DEF ServesCall, Acts
  <1>2. /\ pa' = [pa EXCEPT ![t][va] = th[p].pg]
        /\ perm' = [perm EXCEPT ![t][va] = NewPerm(p, va)]
        /\ th' = [th EXCEPT ![p].at = "alloc", ![p].i = va + 1, ![p].pg = NoPage]
        /\ UNCHANGED <<mem, procs>>
    BY <1>1 DEF MapPage
  <1> HIDE DEF t, va
  <1>3. Sets(p, "alloc", th[p].k, va + 1, th[p].n, th[p].lo, NoPage, th[p].kid)
    BY <1>1, <1>2, PathFields DEF Sets, Path, va
  <1>4. /\ va + 1 \in 0 .. NVA /\ va \in Int /\ th[p] \in Path /\ "alloc" \in Ats
        /\ th[p].n \in 0 .. NVA /\ th[p].lo \in 0 .. NVA
    BY <1>1, PathFields, ConstantTypes DEF Ats
  <1>5. /\ th'[p] \in Path
        /\ th'[p].at = "alloc" /\ th'[p].k = th[p].k /\ th'[p].i = va + 1 /\ th'[p].n = th[p].n
        /\ th'[p].lo = th[p].lo /\ th'[p].pg = NoPage /\ th'[p].kid = th[p].kid
    BY <1>3, <1>4 DEF Sets, Path
  <1>6. th' \in [Proc -> Path] /\ \A q \in Proc : q # p => th'[q] = th[q]
    BY <1>1, <1>3, <1>5, OnePathMoves DEF Sets
  <1>7. ServesCall(p)'
    BY <1>1, <1>5 DEF ServesCall
  <1>8. LoopBounds(p)'
    <2>1. LoopBounds(p) /\ sz'[p] = sz[p]
      BY <1>2, PathFacts DEF procs
    <2> QED
      BY <1>1, <1>4, <1>5, <2>1, ConstantTypes DEF LoopBounds, va
  <1>9. /\ pa'[t][va] = th[p].pg
        /\ \A s \in Where : s # va => pa'[t][s] = pa[t][s]
        /\ \A u \in Table : u # t => pa'[u] = pa[u] /\ perm'[u] = perm[u]
    BY <1>1, <1>2, PathFacts, ConstantTypes DEF TableTypes
  <1>10. Progress(p)'
    <2>1. Target(p)' = t /\ th[p].pg # NoPage
      BY <1>1, <1>2, <1>5, SameTarget, ConstantTypes DEF procs, t
    <2>2. \A b \in VA : pa[t][b] # NoPage <=> b < va
      BY <1>1, PathFacts DEF Progress, Maps, t, va
    <2>3. \A b \in VA : pa'[t][b] # NoPage <=> b < va + 1
      BY <1>1, <1>4, <1>9, <2>1, <2>2, ConstantTypes
    <2> QED
      BY <1>5, <2>1, <2>3 DEF Progress, Maps
  <1>11. th[p].k = "boot" => BootAlone'
    <2> SUFFICES ASSUME th[p].k = "boot" PROVE BootAlone'
      OBVIOUS
    <2>1. p = InitProc /\ BootAlone /\ Booting
      BY PathFacts DEF Life, ShapeInv, Booting
    <2>2. th'[InitProc].at # "boot" /\ th'[InitProc].i # 0
      BY <1>1, <1>4, <1>5, <2>1, ConstantTypes
    <2> QED
      BY <1>6, <2>1, <2>2 DEF BootAlone
  <1>12. TypeOK'
    <2>1. NewPerm(p, va) \in Perm
      <3>1. CASE th[p].k = "exec"
        <4>1. va + 1 \in 1 .. Len(Image)
          BY <1>1, <1>4, <3>1, PathFacts, ConstantTypes DEF LoopBounds, va
        <4>2. Image[va + 1] \in [w : BOOLEAN, u : BOOLEAN]
          BY <4>1, ImagePerm
        <4> QED
          BY <3>1, <4>2 DEF NewPerm, Perm
      <3>2. CASE th[p].k = "fork"
        BY <1>1, <3>2, PathFacts, TheTables DEF NewPerm, TableTypes
      <3>3. CASE th[p].k \notin {"exec", "fork"}
        BY <3>3 DEF NewPerm, Perm
      <3> QED
        BY <3>1, <3>2, <3>3
    <2>2. TableTypes'
      BY <1>1, <1>2, <2>1, PathFacts, ConstantTypes DEF TableTypes
    <2>3. MemTypes'
      BY <1>1, <1>2, AllocatorTypes
    <2> QED
      BY <1>2, <1>6, <2>2, <2>3, PathFacts, TypePartsAfter DEF ProcTypes, procs
  <1>13. pa'[t][Root] # NoPage
    BY <1>1, <1>9, PathFacts, ConstantTypes DEF Keeps, t
  <1>14. \A u \in {t} : Tree(u)'
    BY <1>1, <1>9, <1>13, ConstantTypes DEF Tree
  <1> QED
    BY <1>1, <1>2, <1>5, <1>6, <1>7, <1>8, <1>9, <1>10, <1>11, <1>12, <1>13, <1>14, TableStep DEF t

\* uvmunmap() clears the next entry and frees its page.
LEMMA UnmapPageShape ==
  ASSUME ShapeInv, NEW p \in Proc, UnmapPage(p), UNCHANGED <<eager, kern>>
  PROVE  ShapeInv'
  <1> DEFINE t == Target(p)
             va == th[p].i
  <1>1. /\ th[p].at = "unmap" /\ va \in VA /\ va < th[p].n
        /\ t \in Table /\ TypeOK /\ Acts(p) /\ pa[t][va] \in Page
        /\ th[p].k \in {"sbrk", "exec", "fork", "wait"}
    <2>1. th[p].at = "unmap" /\ va < th[p].n
      BY DEF UnmapPage
    <2>2. va \in VA /\ va \in Where /\ t \in Table
      BY <2>1, PathFacts, OwnTables, IndexInTable
    <2>3. pa[t][va] # NoPage
      <3>1. LoopBounds(p) /\ Progress(p)
        BY PathFacts
      <3> QED
        BY <2>1, <2>2, <3>1, ConstantTypes DEF Progress
    <2>4. pa[t][va] \in Page
      BY <2>2, <2>3, PathFacts DEF TableTypes
    <2>5. th[p].k \in {"sbrk", "exec", "fork", "wait"} /\ TypeOK /\ Acts(p)
      BY <2>1, PathFacts DEF ServesCall, Acts
    <2> QED
      BY <2>1, <2>2, <2>4, <2>5
  <1>2. /\ Kfree(pa[t][va])
        /\ pa' = [pa EXCEPT ![t][va] = NoPage]
        /\ perm' = [perm EXCEPT ![t][va] = NoPerm]
        /\ th' = [th EXCEPT ![p].i = va + 1]
        /\ UNCHANGED procs
    BY <1>1, ConstantTypes DEF UnmapPage
  <1> HIDE DEF t, va
  <1>3. Sets(p, "unmap", th[p].k, va + 1, th[p].n, th[p].lo, th[p].pg, th[p].kid)
    BY <1>1, <1>2, PathFields DEF Sets, Path, va
  <1>4. /\ va + 1 \in 0 .. NVA /\ va \in Int /\ th[p] \in Path /\ "unmap" \in Ats
        /\ th[p].n \in 0 .. NVA /\ th[p].lo \in 0 .. NVA
    BY <1>1, PathFields, ConstantTypes DEF Ats
  <1>5. /\ th'[p] \in Path
        /\ th'[p].at = "unmap" /\ th'[p].k = th[p].k /\ th'[p].i = va + 1 /\ th'[p].n = th[p].n
        /\ th'[p].lo = th[p].lo /\ th'[p].pg = th[p].pg /\ th'[p].kid = th[p].kid
    BY <1>3, <1>4 DEF Sets, Path
  <1>6. th' \in [Proc -> Path] /\ \A q \in Proc : q # p => th'[q] = th[q]
    BY <1>1, <1>3, <1>5, OnePathMoves DEF Sets
  <1>7. ServesCall(p)'
    BY <1>1, <1>5 DEF ServesCall
  <1>8. LoopBounds(p)'
    <2>1. LoopBounds(p) /\ sz'[p] = sz[p]
      BY <1>2, PathFacts DEF procs
    <2> QED
      BY <1>1, <1>4, <1>5, <2>1, ConstantTypes DEF LoopBounds, va
  <1>9. /\ pa'[t][va] = NoPage
        /\ \A s \in Where : s # va => pa'[t][s] = pa[t][s]
        /\ \A u \in Table : u # t => pa'[u] = pa[u] /\ perm'[u] = perm[u]
    BY <1>1, <1>2, PathFacts, ConstantTypes DEF TableTypes
  <1>10. Progress(p)'
    <2>1. Progress(p) /\ Target(p)' = t /\ th[p].lo <= va
      BY <1>1, <1>2, <1>5, PathFacts, SameTarget, ConstantTypes DEF procs, t, va, LoopBounds
    <2>2. \A b \in VA : b \in Int /\ b \in Where
      BY ConstantTypes
    <2> QED
      BY <1>1, <1>4, <1>5, <1>9, <2>1, <2>2 DEF Progress, t, va
  <1>12. TypeOK'
    <2>1. NoPerm \in Perm
      BY DEF NoPerm, Perm
    <2>2. TableTypes'
      BY <1>1, <1>2, <2>1, PathFacts, ConstantTypes DEF TableTypes
    <2>3. MemTypes'
      BY <1>1, <1>2, AllocatorTypes
    <2> QED
      BY <1>2, <1>6, <2>2, <2>3, PathFacts, TypePartsAfter DEF ProcTypes, procs
  <1>13. pa'[t][Root] # NoPage
    BY <1>1, <1>9, PathFacts, ConstantTypes DEF Keeps, t
  <1>14. \A u \in {t} : Tree(u)'
    <2>1. Tree(t)
      BY PathFacts DEF t
    <2> QED
      BY <1>1, <1>9, <1>13, <2>1, ConstantTypes DEF Tree
  <1> QED
    BY <1>1, <1>2, <1>5, <1>6, <1>7, <1>8, <1>9, <1>10, <1>12, <1>13, <1>14, TableStep DEF t

\* A process that is back in user space, and one that does nothing.
LEMMA UserShape ==
  ASSUME NEW p \in Proc, th'[p] = User, status'[p] = "live", Full(p)', Void(Scratch(p))'
  PROVE  PathShape(p)' /\ ~HasKid(p)' /\ th'[p].at = "user" /\ th'[p].k = "none"
  <1>1. /\ th'[p].at = "user" /\ th'[p].k = "none" /\ th'[p].i = 0 /\ th'[p].n = 0
        /\ th'[p].lo = 0 /\ th'[p].pg = NoPage
    BY DEF User, At
  <1>2. ServesCall(p)' /\ LoopBounds(p)' /\ Progress(p)'
    BY <1>1 DEF ServesCall, LoopBounds, Progress
  <1>3. Target(p)' = Cur(p)'
    BY <1>1 DEF Target
  <1>4. Keeps(p)'
    BY <1>1, <1>3 DEF Keeps, Full
  <1>5. Life(p)'
    BY <1>1 DEF Life, Acts, HasKid
  <1> QED
    BY <1>1, <1>2, <1>4, <1>5 DEF PathShape, HasKid

\* A path that does nothing has the shape that the state of its process asks for.
LEMMA DeadShape ==
  ASSUME NEW p \in Proc, th'[p].at = "dead", th'[p].k = "none", th'[p].pg = NoPage, th'[p].lo = 0,
         status'[p] # "live", Void(Scratch(p))',
         status'[p] = "unused" => Void(Cur(p))',
         status'[p] = "zombie" => Full(p)'
  PROVE  PathShape(p)' /\ ~HasKid(p)' /\ th'[p].at = "dead" /\ th'[p].k = "none"
  <1>1. ServesCall(p)' /\ LoopBounds(p)' /\ Progress(p)'
    BY DEF ServesCall, LoopBounds, Progress
  <1>2. Keeps(p)' /\ Life(p)'
    BY DEF Keeps, Life, Acts, HasKid
  <1> QED
    BY <1>1, <1>2 DEF PathShape, HasKid

\* The variables of a process in user space have their types.
LEMMA UserInPath == User \in Path
  <1>1. 0 \in 0 .. NVA
    BY ConstantTypes
  <1>2. /\ User = [at |-> "user", k |-> "none", i |-> 0, n |-> 0, lo |-> 0,
                   pg |-> NoPage, kid |-> NoProc]
        /\ "user" \in Ats /\ "none" \in Calling
    BY DEF User, At, Ats, Calling
  <1> QED
    BY <1>1, <1>2 DEF Path

\* Return() changes the path that returns, and no other.
LEMMA UserPath ==
  ASSUME TypeOK, NEW p \in Proc, Return(p)
  PROVE  th' \in [Proc -> Path] /\ th'[p] = User /\ \A q \in Proc : q # p => th'[q] = th[q]
  <1>1. User \in Path
    BY UserInPath
  <1>2. th \in [Proc -> Path]
    BY TypeParts
  <1> QED
    BY <1>1, <1>2 DEF Return

\* A path that is done returns to user space, and its process has its memory.
LEMMA ReturnStep ==
  ASSUME ShapeInv, TypeOK', NEW p \in Proc, Acts(p), Return(p),
         \A q \in Proc \ Reach(p) : status'[q] = status[q] /\ sz'[q] = sz[q] /\ active'[q] = active[q],
         \A t \in Table : t[1] \notin Reach(p) => pa'[t] = pa[t] /\ perm'[t] = perm[t],
         \A q \in Proc : parent'[q] = parent[q] \/ q \in Reach(p),
         status'[p] = "live", Full(p)', Void(Scratch(p))',
         \A t \in Table : Tree(t)',
         \A c \in Proc : HasKid(p) /\ c = th[p].kid =>
           /\ status'[c] # "live" /\ Void(Scratch(c))'
           /\ status'[c] = "unused" => Void(Cur(c))'
           /\ status'[c] = "zombie" => Full(c)'
  PROVE  ShapeInv'
  <1>1. th'[p] = User /\ \A q \in Proc : q # p => th'[q] = th[q]
    BY UserPath DEF ShapeInv
  <1>2. PathShape(p)' /\ ~HasKid(p)' /\ th'[p].at = "user" /\ th'[p].k = "none"
    BY <1>1, UserShape
  <1>3. ASSUME NEW c \in Proc, HasKid(p), c = th[p].kid
        PROVE  PathShape(c)' /\ ~HasKid(c)' /\ th'[c].at = "dead" /\ th'[c].k = "none"
    <2>1. c # p /\ th[c].at = "dead" /\ th[c].k = "none"
      BY <1>3, KidIsDead
    <2>2. th[c].pg = NoPage /\ th[c].lo = 0
      BY <2>1, PathFacts DEF LoopBounds
    <2> QED
      BY <1>1, <1>3, <2>1, <2>2, DeadShape
  <1>4. ASSUME NEW q \in Proc \ Reach(p) PROVE Same(q)
    <2>1. q # p
      BY ReachTypes
    <2>2. \A b \in {0, 1} : <<q, b>> \in Table /\ <<q, b>>[1] \notin Reach(p)
      BY DEF Table
    <2> QED
      BY <1>1, <2>1, <2>2 DEF Same
  <1>5. Tree(<<p, 0>>)' /\ Tree(<<p, 1>>)'
    BY DEF Table
  <1>6. \A c \in Proc : Tree(<<c, 0>>)' /\ Tree(<<c, 1>>)'
    BY DEF Table
  <1>7. \A c \in Proc : HasKid(p) /\ c = th[p].kid =>
          /\ PathShape(c)' /\ Tree(<<c, 0>>)' /\ Tree(<<c, 1>>)'
          /\ ~HasKid(c)' /\ th'[c].at # "boot" /\ th'[c].k # "boot"
    BY <1>3, <1>6
  <1>8. th[p].k = "boot" => BootAlone'
    <2> SUFFICES ASSUME th[p].k = "boot" PROVE BootAlone'
      OBVIOUS
    <2>1. p = InitProc
      BY PathFacts DEF Life
    <2> QED
      BY <1>2, <2>1 DEF BootAlone, Booting
  <1>9. th'[p].k # "boot" /\ th'[p].at # "boot"
    BY <1>2
  <1> QED
    BY <1>2, <1>4, <1>5, <1>7, <1>8, <1>9, PathStep

\* uvmunmap() is done: sbrk() returns, the others take down the inner tables.
LEMMA UnmapDoneShape ==
  ASSUME ShapeInv, NEW p \in Proc, UnmapDone(p), UNCHANGED <<eager, kern>>
  PROVE  ShapeInv'
  <1>1. /\ th[p].at = "unmap" /\ th[p].i = th[p].n /\ Acts(p) /\ TypeOK
        /\ UNCHANGED <<mem, tables, active, status, parent>>
        /\ th[p].k \in {"sbrk", "exec", "fork", "wait"}
    BY PathFacts DEF UnmapDone, Acts, ServesCall
  <1>2. \A va \in VA : pa[Target(p)][va] # NoPage <=> va < th[p].lo
    <2>1. \A va \in VA : va \in Int
      BY ConstantTypes
    <2>2. Progress(p) /\ th[p].i \in Int /\ th[p].n \in Int
      BY PathFacts, PathFields
    <2> QED
      BY <1>1, <2>1, <2>2 DEF Progress
  <1>3. MemTypes' /\ TableTypes'
    BY <1>1, PathFacts, AllocatorTypes DEF TableTypes, tables
  <1>4. CASE th[p].k = "sbrk"
    <2>1. sz' = [sz EXCEPT ![p] = th[p].lo] /\ Return(p) /\ th[p].lo \in 0 .. NVA
      <3>1. th[p].lo \in 0 .. NVA
        BY <1>1, PathFields
      <3> QED
        BY <1>4, <3>1 DEF UnmapDone
    <2>2. sz' \in [Proc -> 0 .. NVA] /\ sz'[p] = th[p].lo /\ \A q \in Proc : q # p => sz'[q] = sz[q]
      BY <2>1, PathFacts DEF ProcTypes
    <2>3. th' \in [Proc -> Path]
      BY <1>1, <2>1, UserPath
    <2>4. TypeOK'
      BY <1>1, <1>3, <2>2, <2>3, PathFacts, TypePartsAfter DEF ProcTypes
    <2>5. ~HasKid(p) /\ Target(p) = Cur(p) /\ p \in Reach(p)
      BY <1>4, OwnTables, ReachTypes DEF HasKid
    <2>6. status'[p] = "live"
      BY <1>1, <1>4, PathFacts DEF Life
    <2>7. Full(p)'
      <3>1. pa[Cur(p)][Root] # NoPage
        BY <1>1, <2>5, PathFacts DEF Keeps
      <3> QED
        BY <1>1, <1>2, <2>2, <2>5, <3>1 DEF Full, Maps, Cur, tables
    <2>8. Void(Scratch(p))'
      BY <1>1, <1>4, PathFacts DEF Keeps, Void, Scratch, tables
    <2>9. \A t \in Table : Tree(t)'
      BY <1>1 DEF ShapeInv, Tree, tables
    <2>10. \A q \in Proc \ Reach(p) : status'[q] = status[q] /\ sz'[q] = sz[q] /\ active'[q] = active[q]
      BY <1>1, <2>2, <2>5
    <2> QED
      BY <1>1, <2>1, <2>4, <2>5, <2>6, <2>7, <2>8, <2>9, <2>10, ReturnStep DEF tables
  <1>5. CASE th[p].k # "sbrk"
    <2>1. Goto(p, "freewalk") /\ UNCHANGED sz
      BY <1>5 DEF UnmapDone
    <2>2. Sets(p, "freewalk", th[p].k, th[p].i, th[p].n, th[p].lo, th[p].pg, th[p].kid)
      BY <1>1, <2>1, PathFields DEF Sets, Path, Goto
    <2>3. /\ th'[p] \in Path
          /\ th'[p].at = "freewalk" /\ th'[p].k = th[p].k /\ th'[p].i = th[p].i
          /\ th'[p].lo = th[p].lo /\ th'[p].pg = th[p].pg /\ th'[p].kid = th[p].kid
      BY <1>1, <2>2, PathFields DEF Sets, Path, Ats
    <2>4. th' \in [Proc -> Path] /\ \A q \in Proc : q # p => th'[q] = th[q]
      BY <1>1, <2>2, <2>3, OnePathMoves DEF Sets
    <2>5. ServesCall(p)'
      BY <1>1, <1>5, <2>3 DEF ServesCall
    <2>6. LoopBounds(p) /\ LoopBounds(p)'
      BY <1>1, <2>3, PathFacts DEF LoopBounds
    <2>7. Progress(p)'
      <3>1. Target(p)' = Target(p) /\ th[p].lo = 0
        BY <1>1, <1>5, <2>3, <2>6, SameTarget DEF LoopBounds
      <3> QED
        BY <1>1, <1>2, <2>3, <3>1 DEF Progress, Maps, tables
    <2> QED
      BY <1>1, <1>3, <2>1, <2>3, <2>4, <2>5, <2>6, <2>7, VariablesStep DEF procs
  <1> QED
    BY <1>4, <1>5

\* freewalk() frees an inner page table, whose entries are all clear by then.
LEMMA FreewalkPageShape ==
  ASSUME ShapeInv, NEW p \in Proc, NEW s \in {Leaf, Root}, FreewalkPage(p, s), UNCHANGED <<eager, kern>>
  PROVE  ShapeInv'
  <1> DEFINE t == Target(p)
  <1>1. /\ th[p].at = "freewalk" /\ pa[t][s] \in Page /\ s \in Where /\ s \notin VA
        /\ t \in Table /\ TypeOK /\ Acts(p)
        /\ s = Root => pa[t][Leaf] = NoPage
        /\ th[p].k \in {"exec", "fork", "wait"}
        /\ \A va \in VA : pa[t][va] = NoPage
    <2>1. th[p].at = "freewalk" /\ pa[t][s] # NoPage /\ (s = Root => pa[t][Leaf] = NoPage)
      BY DEF FreewalkPage
    <2>2. s \in Where /\ s \notin VA /\ t \in Table
      BY ConstantTypes, OwnTables
    <2>3. pa[t][s] \in Page
      BY <2>1, <2>2, PathFacts DEF TableTypes
    <2>4. \A va \in VA : pa[t][va] = NoPage
      <3>1. Maps(t, 0)
        BY PathFacts DEF Progress, FreewalkPage
      <3> QED
        BY <3>1, ConstantTypes DEF Maps
    <2> QED
      BY <2>1, <2>2, <2>3, <2>4, PathFacts DEF ServesCall, Acts, FreewalkPage
  <1>2. /\ Kfree(pa[t][s]) /\ pa' = [pa EXCEPT ![t][s] = NoPage] /\ UNCHANGED <<perm, procs, th>>
    BY <1>1 DEF FreewalkPage
  <1> HIDE DEF t
  <1>3. /\ pa'[t][s] = NoPage
        /\ \A u \in Where : u # s => pa'[t][u] = pa[t][u]
        /\ \A u \in Table : u # t => pa'[u] = pa[u] /\ perm'[u] = perm[u]
    BY <1>1, <1>2, PathFacts, ConstantTypes DEF TableTypes
  <1>4. TypeOK'
    <2>1. TableTypes'
      BY <1>1, <1>2, PathFacts, ConstantTypes DEF TableTypes
    <2>2. MemTypes'
      BY <1>1, <1>2, AllocatorTypes
    <2> QED
      BY <1>2, <2>1, <2>2, PathFacts, TypeParts, TypePartsAfter DEF ProcTypes, procs
  <1>5. Target(p)' = t
    BY <1>2, SameTarget DEF procs, t
  <1>6. \A va \in VA : pa'[t][va] = NoPage
    BY <1>1, <1>3, ConstantTypes
  <1>7. ServesCall(p)' /\ LoopBounds(p)' /\ Progress(p)'
    <2>1. ServesCall(p)' /\ LoopBounds(p)'
      BY <1>1, <1>2, PathFacts DEF ServesCall, LoopBounds
    <2>2. Progress(p)'
      BY <1>1, <1>2, <1>5, <1>6, ConstantTypes DEF Progress, Maps
    <2> QED
      BY <2>1, <2>2
  <1>8. \A u \in {t} : Tree(u)'
    <2>1. Tree(t)
      BY PathFacts DEF t
    <2>2. s = Root => pa'[t][Leaf] = NoPage
      BY <1>1, <1>3, ConstantTypes
    <2>3. s = Leaf => pa'[t][Root] = pa[t][Root] /\ pa'[t][Leaf] = NoPage
      BY <1>3, ConstantTypes
    <2> QED
      BY <1>6, <2>1, <2>2, <2>3, ConstantTypes DEF Tree
  <1> QED
    BY <1>1, <1>2, <1>3, <1>4, <1>7, <1>8, TableStep DEF t

\* freewalk() is done: exec(), fork() or wait() goes on without the table.
LEMMA FreewalkDoneShape ==
  ASSUME ShapeInv, NEW p \in Proc, FreewalkDone(p), UNCHANGED <<eager, kern>>
  PROVE  ShapeInv'
  <1>1. /\ th[p].at = "freewalk" /\ Acts(p) /\ TypeOK /\ Return(p) /\ UNCHANGED <<mem, tables>>
        /\ th[p].k \in {"exec", "fork", "wait"} /\ pa[Target(p)][Root] = NoPage
    BY PathFacts DEF FreewalkDone, Acts, ServesCall
  <1>2. Void(Target(p))
    <2>1. Tree(Target(p))
      BY PathFacts
    <2> QED
      BY <1>1, <2>1, ConstantTypes DEF Tree, Void
  <1>3. MemTypes' /\ TableTypes' /\ th' \in [Proc -> Path]
    BY <1>1, PathFacts, AllocatorTypes, UserPath DEF TableTypes, tables
  <1>4. \A t \in Table : Tree(t)' /\ pa'[t] = pa[t] /\ perm'[t] = perm[t]
    BY <1>1 DEF ShapeInv, Tree, tables
  <1>5. Full(p) /\ status[p] = "live" /\ p \in Reach(p)
    BY <1>1, PathFacts, ReachTypes DEF Keeps, Life
  <1>6. CASE th[p].k = "exec"
    <2>1. UNCHANGED procs /\ ~HasKid(p) /\ Target(p) = Scratch(p)
      BY <1>6, OwnTables DEF FreewalkDone, HasKid
    <2>2. TypeOK'
      BY <1>1, <1>3, <2>1, PathFacts, TypePartsAfter DEF ProcTypes, procs
    <2>3. Full(p)' /\ Void(Scratch(p))'
      BY <1>1, <1>2, <1>5, <2>1 DEF Full, Maps, Void, Cur, Scratch, tables, procs
    <2> QED
      BY <1>1, <1>4, <1>5, <2>1, <2>2, <2>3, ReturnStep DEF procs
  <1>7. CASE th[p].k # "exec"
    <2>0. PICK c \in Proc : HasKid(p) /\ c = th[p].kid
      BY <1>1, <1>7, KidIsDead DEF HasKid
    <2>1. /\ HasKid(p) /\ c \in Proc /\ c # p /\ Reach(p) = {p, c} /\ Target(p) = Cur(c)
          /\ th[c].k = "none"
      BY <2>0, KidIsDead, OwnTables DEF Reach
    <2>2. /\ status' = [status EXCEPT ![c] = "unused"]
          /\ sz' = [sz EXCEPT ![c] = 0]
          /\ parent' = [parent EXCEPT ![c] = NoProc]
          /\ active' = [active EXCEPT ![c] = 0]
      BY <1>7, <2>0 DEF FreewalkDone
    <2>3. /\ ProcTypes' /\ status'[c] = "unused" /\ active'[c] = 0
          /\ \A q \in Proc : q # c => /\ status'[q] = status[q] /\ sz'[q] = sz[q]
                                      /\ active'[q] = active[q] /\ parent'[q] = parent[q]
      <3>1. 0 \in 0 .. NVA
        BY ConstantTypes
      <3> QED
        BY <2>1, <2>2, <3>1, PathFacts DEF ProcTypes
    <2>4. TypeOK'
      BY <1>1, <1>3, <2>3, PathFacts, TypePartsAfter
    <2>5. Full(p)' /\ Void(Scratch(p))'
      <3>1. Void(Scratch(p))
        BY <1>1, <1>7, PathFacts DEF Keeps
      <3> QED
        BY <1>1, <1>5, <2>1, <2>3, <3>1 DEF Full, Maps, Void, Cur, Scratch, tables, procs
    <2>6. Void(Cur(c))' /\ Void(Scratch(c))'
      <3>1. Void(Cur(c)) /\ Void(Scratch(c))
        BY <1>2, <2>1, PathFacts DEF Keeps
      <3>2. \A t \in Table : t[1] = c => Void(t)
        BY <2>1, <3>1, <1>1, TheTables
      <3>3. Cur(c)' = <<c, 0>> /\ Scratch(c)' = <<c, 1>>
        BY <2>3 DEF Cur, Scratch
      <3>4. Void(<<c, 0>>) /\ Void(<<c, 1>>)
        BY <2>1, <3>2 DEF Table
      <3> QED
        BY <1>1, <3>3, <3>4 DEF Void, tables
    <2>7. \A d \in Proc : HasKid(p) /\ d = th[p].kid => d = c
      BY <2>0
    <2> QED
      BY <1>1, <1>4, <1>5, <2>1, <2>3, <2>4, <2>5, <2>6, <2>7, ReturnStep
  <1> QED
    BY <1>6, <1>7

\* uvmcopy() finds the parent's page, as its table maps all pages below p->sz.
LEMMA ForkMapFacts ==
  ASSUME ShapeInv, NEW p \in Proc, th[p].at \in {"forkmap", "forkref"}, th[p].i < th[p].n
  PROVE  /\ th[p].k = "fork" /\ th[p].n = sz[p] /\ Acts(p) /\ TypeOK
         /\ th[p].i \in VA /\ th[p].i \in Where /\ th[p].i \in Int /\ th[p].i + 1 \in 0 .. NVA
         /\ th[p].i # Leaf /\ th[p].i # Root
         /\ pa[Cur(p)][th[p].i] \in Page
         /\ Cur(p) \in Table /\ Target(p) \in Table /\ Target(p) # Cur(p)
         /\ th[p].kid \in Proc /\ Target(p) = Cur(th[p].kid)
  <1>1. th[p].k = "fork" /\ th[p].n = sz[p] /\ Acts(p) /\ TypeOK /\ HasKid(p)
    BY PathFacts DEF ServesCall, LoopBounds, Acts, HasKid
  <1>2. /\ th[p].i \in VA /\ th[p].i \in Where /\ th[p].i \in Int /\ th[p].i + 1 \in 0 .. NVA
        /\ th[p].i # Leaf /\ th[p].i # Root
    BY <1>1, IndexInTable
  <1>3. /\ Cur(p) \in Table /\ Target(p) \in Table
        /\ th[p].kid \in Proc /\ Target(p) = Cur(th[p].kid) /\ th[p].kid # p
    BY <1>1, OwnTables, TheTables, KidIsDead
  <1>4. Target(p) # Cur(p)
    BY <1>3 DEF Cur
  <1>5. pa[Cur(p)][th[p].i] # NoPage
    BY <1>1, <1>2, PathFacts DEF Keeps, Full, Maps
  <1>6. pa[Cur(p)][th[p].i] \in Page \cup {NoPage}
    BY <1>2, <1>3, PathFacts DEF TableTypes
  <1> QED
    BY <1>1, <1>2, <1>3, <1>4, <1>5, <1>6

\* uvmcopy() writes the child's entry and takes PTE_W from the parent's.
LEMMA ForkMapShape ==
  ASSUME ShapeInv, NEW p \in Proc, ForkMap(p), UNCHANGED <<eager, kern>>
  PROVE  ShapeInv'
  <1>1. PICK va \in VA, c \in Table :
          /\ va = th[p].i /\ c = Target(p) /\ c = Cur(th[p].kid)
          /\ th[p].at = "forkmap" /\ va < sz[p] /\ va < th[p].n /\ th[p].k = "fork" /\ pa[c][Leaf] # NoPage
    <2>1. th[p].at = "forkmap" /\ th[p].i < sz[p] /\ pa[Target(p)][Leaf] # NoPage
      BY DEF ForkMap, NeedsWalk
    <2>2. th[p].k = "fork" /\ th[p].n = sz[p]
      BY <2>1, PathFacts DEF ServesCall, LoopBounds
    <2> QED
      BY <2>1, <2>2, ForkMapFacts
  <1>2. /\ TypeOK /\ Acts(p) /\ va \in Where /\ va \in Int /\ va + 1 \in 0 .. NVA
        /\ va # Leaf /\ va # Root /\ pa[Cur(p)][va] \in Page /\ Cur(p) \in Table /\ c # Cur(p)
    BY <1>1, ForkMapFacts
  <1>3. /\ pa' = [pa EXCEPT ![c][va] = pa[Cur(p)][va]]
        /\ perm' = [perm EXCEPT ![Cur(p)][va] = Protect(p, va), ![c][va] = Protect(p, va)]
        /\ Goto(p, "forkref") /\ UNCHANGED <<mem, procs>>
    BY <1>1, <1>2, ConstantTypes DEF ForkMap
  <1>4. Sets(p, "forkref", th[p].k, va, th[p].n, th[p].lo, th[p].pg, th[p].kid)
    BY <1>1, <1>2, <1>3, PathFields DEF Sets, Path, Goto
  <1>5. /\ th'[p] \in Path
        /\ th'[p].at = "forkref" /\ th'[p].k = th[p].k /\ th'[p].i = va /\ th'[p].n = th[p].n
        /\ th'[p].lo = th[p].lo /\ th'[p].pg = th[p].pg /\ th'[p].kid = th[p].kid
    BY <1>1, <1>2, <1>4, PathFields DEF Sets, Path, Ats
  <1>6. th' \in [Proc -> Path] /\ \A q \in Proc : q # p => th'[q] = th[q]
    BY <1>2, <1>4, <1>5, OnePathMoves DEF Sets
  <1>7. /\ Protect(p, va) \in Perm /\ ~Protect(p, va).w
    <2>1. perm[Cur(p)][va] \in Perm
      BY <1>2, PathFacts DEF TableTypes
    <2> DEFINE e == perm[Cur(p)][va]
    <2> HIDE DEF e
    <2>2. /\ (IF e.w THEN [e EXCEPT !.w = FALSE, !.cow = TRUE] ELSE e) \in Perm
          /\ ~(IF e.w THEN [e EXCEPT !.w = FALSE, !.cow = TRUE] ELSE e).w
      BY <2>1 DEF Perm, e
    <2> QED
      BY <2>2 DEF Protect, e
  <1>8. /\ pa'[c][va] = pa[Cur(p)][va]
        /\ \A s \in Where : s # va => pa'[c][s] = pa[c][s]
        /\ \A u \in Table : u # c => pa'[u] = pa[u]
        /\ \A u \in Table : u # c /\ u # Cur(p) => perm'[u] = perm[u]
        /\ perm'[Cur(p)][va] = Protect(p, va)
    BY <1>1, <1>2, <1>3, PathFacts DEF TableTypes
  <1>9. TypeOK'
    <2>1. TableTypes'
      BY <1>1, <1>2, <1>3, <1>7, PathFacts, ConstantTypes DEF TableTypes
    <2>2. MemTypes'
      BY <1>2, <1>3, AllocatorTypes
    <2> QED
      BY <1>3, <1>6, <2>1, <2>2, PathFacts, TypePartsAfter DEF ProcTypes, procs
  <1>10. Target(p)' = c /\ Cur(p)' = Cur(p)
    BY <1>1, <1>3, <1>5, SameTarget DEF procs
  <1>11. ServesCall(p)'
    BY <1>1, <1>5 DEF ServesCall
  <1>12. LoopBounds(p)'
    <2>1. LoopBounds(p) /\ sz'[p] = sz[p]
      BY <1>3, PathFacts DEF procs
    <2> QED
      BY <1>1, <1>2, <1>5, <1>7, <1>8, <1>10, <2>1 DEF LoopBounds
  <1>13. Progress(p)'
    <2>1. \A b \in VA : pa[c][b] # NoPage <=> b < va
      BY <1>1, PathFacts DEF Progress, Maps
    <2>2. pa[Cur(p)][va] # NoPage
      BY <1>2, ConstantTypes
    <2>3. \A b \in VA : b \in Int /\ b \in Where
      BY ConstantTypes
    <2>4. \A b \in VA : pa'[c][b] # NoPage <=> b < va + 1
      <3> SUFFICES ASSUME NEW b \in VA PROVE pa'[c][b] # NoPage <=> b < va + 1
        OBVIOUS
      <3>1. CASE b = va
        BY <1>8, <2>2, <2>3, <3>1
      <3>2. CASE b # va
        BY <1>8, <2>1, <2>3, <3>2
      <3> QED
        BY <3>1, <3>2
    <2> QED
      BY <1>5, <1>10, <2>4 DEF Progress, Maps
  <1>14. pa'[c][Root] # NoPage
    BY <1>1, <1>2, <1>8, PathFacts, ConstantTypes DEF Keeps
  <1>15. Full(p)'
    BY <1>1, <1>2, <1>3, <1>8, <1>10, PathFacts DEF Keeps, Full, Maps, procs
  <1>16. \A t \in {c, Cur(p)} : Tree(t)'
    <2>1. pa'[c][Leaf] # NoPage
      BY <1>1, <1>2, <1>8, ConstantTypes
    <2>3. \A t \in {c} : Tree(t)'
      BY <1>14, <2>1 DEF Tree
    <2>2. \A t \in {Cur(p)} : Tree(t)'
      BY <1>2, <1>8, PathFacts DEF Tree
    <2> QED
      BY <2>2, <2>3
  <1> QED
    BY <1>1, <1>2, <1>3, <1>5, <1>6, <1>8, <1>9, <1>11, <1>12, <1>13, <1>14, <1>15, <1>16, WorkStep

\* uvmcopy() counts the page that the child's entry refers to.
LEMMA ForkRefShape ==
  ASSUME ShapeInv, NEW p \in Proc, ForkRef(p), UNCHANGED <<eager, kern>>
  PROVE  ShapeInv'
  <1>1. PICK va \in VA :
          /\ va = th[p].i /\ th[p].at = "forkref" /\ va < th[p].n /\ th[p].k = "fork"
    <2>1. th[p].at = "forkref" /\ th[p].i < th[p].n
      BY PathFacts DEF ForkRef, LoopBounds
    <2> QED
      BY <2>1, ForkMapFacts
  <1>2. /\ TypeOK /\ Acts(p) /\ va \in Int /\ va + 1 \in 0 .. NVA /\ pa[Cur(p)][va] \in Page
    BY <1>1, ForkMapFacts
  <1>3. /\ Krefpage(pa[Cur(p)][va]) /\ UNCHANGED <<tables, procs>>
        /\ th' = [th EXCEPT ![p].at = "forkmap", ![p].i = @ + 1]
    BY <1>1 DEF ForkRef
  <1>4. Sets(p, "forkmap", th[p].k, va + 1, th[p].n, th[p].lo, th[p].pg, th[p].kid)
    BY <1>1, <1>2, <1>3, PathFields DEF Sets, Path
  <1>5. /\ th'[p] \in Path
        /\ th'[p].at = "forkmap" /\ th'[p].k = th[p].k /\ th'[p].i = va + 1 /\ th'[p].n = th[p].n
        /\ th'[p].lo = th[p].lo /\ th'[p].pg = th[p].pg /\ th'[p].kid = th[p].kid
    BY <1>1, <1>2, <1>4, PathFields DEF Sets, Path, Ats
  <1>6. th' \in [Proc -> Path] /\ \A q \in Proc : q # p => th'[q] = th[q]
    BY <1>2, <1>4, <1>5, OnePathMoves DEF Sets
  <1>7. MemTypes'
    BY <1>2, <1>3, AllocatorTypes
  <1>8. ServesCall(p)'
    BY <1>1, <1>5 DEF ServesCall
  <1>9. LoopBounds(p)'
    <2>1. LoopBounds(p) /\ sz'[p] = sz[p] /\ th[p].n \in Int /\ th[p].lo \in Int
      BY <1>2, <1>3, PathFacts, PathFields DEF procs
    <2> QED
      BY <1>1, <1>2, <1>5, <2>1 DEF LoopBounds
  <1>10. Progress(p)'
    <2>1. Target(p)' = Target(p) /\ Maps(Target(p), va + 1)
      BY <1>1, <1>3, <1>5, PathFacts, SameTarget DEF procs, Progress
    <2> QED
      BY <1>3, <1>5, <2>1 DEF Progress, Maps, tables
  <1> QED
    BY <1>1, <1>2, <1>3, <1>5, <1>6, <1>7, <1>8, <1>9, <1>10, VariablesStep

\* uvmcopy() finds no inner page table for the child and takes down what it has copied.
LEMMA ForkMapFailsShape ==
  ASSUME ShapeInv, NEW p \in Proc, ForkMapFails(p), UNCHANGED <<eager, kern>>
  PROVE  ShapeInv'
  <1>1. /\ th[p].at = "forkmap" /\ th[p].k = "fork" /\ th[p].i < th[p].n
        /\ perm' = [perm EXCEPT ![Cur(p)][th[p].i] = Protect(p, th[p].i)]
        /\ GiveBack(p) /\ UNCHANGED <<mem, pa, procs>>
    BY PathFacts DEF ForkMapFails, NeedsWalk, ServesCall, LoopBounds
  <1>2. TypeOK /\ Cur(p) \in Table /\ th[p].i \in VA
    BY <1>1, ForkMapFacts
  <1>3. Protect(p, th[p].i) \in Perm
    <2> DEFINE e == perm[Cur(p)][th[p].i]
    <2>1. e \in Perm
      BY <1>2, PathFacts DEF TableTypes
    <2> HIDE DEF e
    <2>2. (IF e.w THEN [e EXCEPT !.w = FALSE, !.cow = TRUE] ELSE e) \in Perm
      BY <2>1 DEF Perm
    <2> QED
      BY <2>2 DEF Protect, e
  <1>4. MemTypes' /\ TableTypes'
    <2>1. MemTypes'
      BY <1>1, <1>2, AllocatorTypes
    <2> QED
      BY <1>1, <1>2, <1>3, <2>1, PathFacts DEF TableTypes
  <1>5. \A t \in Table : t # Cur(p) => perm'[t] = perm[t]
    BY <1>1, <1>2, PathFacts DEF TableTypes
  <1> QED
    BY <1>1, <1>4, <1>5, GiveBackShape

\* fork() is done: the child runs with all that the parent maps.
LEMMA ForkDoneShape ==
  ASSUME ShapeInv, NEW p \in Proc, ForkDone(p), UNCHANGED <<eager, kern>>
  PROVE  ShapeInv'
  <1>1. PICK c \in Proc :
          /\ c = th[p].kid /\ c # p /\ HasKid(p) /\ Target(p) = Cur(c) /\ Acts(p) /\ TypeOK
          /\ status[p] = "live" /\ Reach(p) = {p, c}
    BY KidIsDead, OwnTables, PathFacts DEF ForkDone, HasKid, Reach
  <1>2. /\ th[p].k = "fork" /\ th[p].at \in {"forkmap", "alloc"} /\ th[p].i = sz[p]
        /\ sz' = [sz EXCEPT ![c] = sz[p]]
        /\ status' = [status EXCEPT ![c] = "live"]
        /\ parent' = [parent EXCEPT ![c] = p]
        /\ th' = [th EXCEPT ![p] = User, ![c] = User]
        /\ UNCHANGED <<mem, tables, active>>
    BY <1>1 DEF ForkDone
  <1>3. User \in Path
    BY UserInPath
  <1>4. /\ th' \in [Proc -> Path] /\ th'[p] = User /\ th'[c] = User
        /\ \A q \in Proc : q # p /\ q # c => th'[q] = th[q]
    BY <1>1, <1>2, <1>3, PathFields
  <1>5. /\ ProcTypes' /\ sz'[c] = sz[p] /\ status'[c] = "live"
        /\ \A q \in Proc : q # c => /\ sz'[q] = sz[q] /\ status'[q] = status[q]
                                    /\ active'[q] = active[q] /\ parent'[q] = parent[q]
    BY <1>1, <1>2, PathFacts DEF ProcTypes
  <1>6. TypeOK'
    <2>1. MemTypes' /\ TableTypes'
      BY <1>1, <1>2, AllocatorTypes, PathFacts DEF TableTypes, tables
    <2> QED
      BY <1>4, <1>5, <2>1, PathFacts, TypePartsAfter
  <1>7. \A q \in Proc : Cur(q)' = Cur(q) /\ Scratch(q)' = Scratch(q)
    BY <1>2 DEF Cur, Scratch
  <1>8. Full(p) /\ Void(Scratch(p)) /\ Void(Scratch(c)) /\ pa[Cur(c)][Root] # NoPage /\ Maps(Cur(c), sz[p])
    <2>1. Full(p) /\ Void(Scratch(p)) /\ pa[Cur(c)][Root] # NoPage
      BY <1>1, <1>2, PathFacts DEF Keeps
    <2>2. Void(Scratch(c))
      <3>1. th[c].k = "none"
        BY <1>1, KidIsDead
      <3> QED
        BY <3>1, PathFacts DEF Keeps
    <2>3. Maps(Cur(c), sz[p])
      BY <1>1, <1>2, PathFacts DEF Progress
    <2> QED
      BY <2>1, <2>2, <2>3
  <1>9. Full(p)' /\ Void(Scratch(p))' /\ Full(c)' /\ Void(Scratch(c))'
    BY <1>1, <1>2, <1>5, <1>7, <1>8 DEF Full, Maps, Void, tables
  <1>10. /\ PathShape(p)' /\ ~HasKid(p)' /\ th'[p].at = "user" /\ th'[p].k = "none"
         /\ PathShape(c)' /\ ~HasKid(c)' /\ th'[c].at = "user" /\ th'[c].k = "none"
    BY <1>1, <1>4, <1>5, <1>9, UserShape
  <1>11. \A q \in Proc : Tree(<<q, 0>>)' /\ Tree(<<q, 1>>)'
    <2>1. \A t \in Table : Tree(t)'
      BY <1>2 DEF ShapeInv, Tree, tables
    <2> QED
      BY <2>1 DEF Table
  <1>12. \A q \in Proc \ Reach(p) : Same(q)
    BY <1>1, <1>2, <1>4, <1>5 DEF Same, tables
  <1>13. /\ th[p].k # "boot" /\ th'[p].k # "boot" /\ th'[p].at # "boot"
         /\ \A q \in Proc : parent'[q] = parent[q] \/ q \in Reach(p)
    BY <1>1, <1>2, <1>5, <1>10
  <1>14. \A d \in Proc : HasKid(p) /\ d = th[p].kid =>
           /\ PathShape(d)' /\ Tree(<<d, 0>>)' /\ Tree(<<d, 1>>)'
           /\ ~HasKid(d)' /\ th'[d].at # "boot" /\ th'[d].k # "boot"
    BY <1>1, <1>10, <1>11
  <1> QED
    BY <1>1, <1>6, <1>10, <1>11, <1>12, <1>13, <1>14, PathStep

\* kcopy_n_deref() yields a page for the entry that is to be remapped.
LEMMA CowCopyPath ==
  ASSUME ShapeInv, NEW p \in Proc, NEW va \in VA, NEW k \in Calling,
         CheckCow(p, va), CowCopy(p, va, k), th[p].pg = NoPage
  PROVE  /\ th' \in [Proc -> Path] /\ \A q \in Proc : q # p => th'[q] = th[q]
         /\ th'[p] \in Path
         /\ th'[p].at = "remap" /\ th'[p].k = k /\ th'[p].i = va /\ th'[p].lo = th[p].lo
         /\ th'[p].pg \in Page /\ th'[p].kid = th[p].kid /\ th'[p].n = th[p].n
         /\ MemTypes' /\ UNCHANGED <<tables, procs>>
         /\ va < sz[p] /\ perm[Cur(p)][va].cow
  <1>1. TypeOK /\ Cur(p) \in Table /\ pa[Cur(p)][va] \in Page /\ va \in 0 .. NVA
    BY PathFacts, TheTables, ConstantTypes DEF CheckCow, TableTypes
  <1>2. PICK h \in Page :
          /\ MemTypes'
          /\ th' = [th EXCEPT ![p].at = "remap", ![p].k = k, ![p].i = va, ![p].pg = h]
    <2>1. UNCHANGED mem => MemTypes'
      BY <1>1, AllocatorTypes
    <2>2. \A h \in Page : KcopyTo(pa[Cur(p)][va], h) => MemTypes'
      BY <1>1, AllocatorTypes
    <2> QED
      BY <1>1, <2>1, <2>2 DEF CowCopy
  <1>3. Sets(p, "remap", k, va, th[p].n, th[p].lo, h, th[p].kid)
    BY <1>1, <1>2, PathFields DEF Sets, Path
  <1>4. /\ th'[p] \in Path
        /\ th'[p].at = "remap" /\ th'[p].k = k /\ th'[p].i = va /\ th'[p].lo = th[p].lo
        /\ th'[p].pg = h /\ th'[p].kid = th[p].kid /\ th'[p].n = th[p].n
    BY <1>1, <1>3, PathFields DEF Sets, Path, Ats
  <1>5. th' \in [Proc -> Path] /\ \A q \in Proc : q # p => th'[q] = th[q]
    BY <1>1, <1>3, <1>4, OnePathMoves DEF Sets
  <1> QED
    BY <1>2, <1>4, <1>5 DEF CowCopy, CheckCow

\* copyout() copies a shared page, or takes it over, before it writes.
LEMMA CopyoutCowShape ==
  ASSUME ShapeInv, NEW p \in Proc, CopyoutCow(p), UNCHANGED <<eager, kern>>
  PROVE  ShapeInv'
  <1>1. /\ th[p].at = "copyout" /\ CheckCow(p, th[p].i) /\ CowCopy(p, th[p].i, th[p].k)
        /\ th[p].i \in VA /\ th[p].pg = NoPage /\ th[p].k \in {"read", "exec", "wait"} /\ Acts(p)
    BY PathFacts DEF CopyoutCow, LoopBounds, ServesCall, Acts
  <1>2. /\ th' \in [Proc -> Path] /\ \A q \in Proc : q # p => th'[q] = th[q]
        /\ th'[p].at = "remap" /\ th'[p].k = th[p].k /\ th'[p].i = th[p].i /\ th'[p].lo = th[p].lo
        /\ th'[p].pg \in Page /\ th'[p].kid = th[p].kid
        /\ MemTypes' /\ UNCHANGED <<tables, procs>>
        /\ th[p].i < sz[p] /\ perm[Cur(p)][th[p].i].cow
    BY <1>1, CowCopyPath DEF Calling
  <1>3. Target(p)' = Target(p) /\ Cur(p)' = Cur(p)
    BY <1>2, SameTarget DEF procs
  <1>4. ServesCall(p)'
    BY <1>1, <1>2 DEF ServesCall
  <1>5. LoopBounds(p)'
    <2>1. LoopBounds(p) /\ sz' = sz /\ perm' = perm
      BY <1>2, PathFacts DEF procs, tables
    <2> QED
      BY <1>1, <1>2, <1>3, <2>1, ConstantTypes DEF LoopBounds
  <1>6. Progress(p)'
    <2>1. Progress(p) /\ sz' = sz /\ pa' = pa
      BY <1>2, PathFacts DEF procs, tables
    <2> QED
      BY <1>1, <1>2, <1>3, <2>1 DEF Progress, Maps
  <1> QED
    BY <1>1, <1>2, <1>4, <1>5, <1>6, VariablesStep

\* copyout() goes on when the page is not shared, or when no page is left for the copy.
LEMMA CopyoutGoesOnShape ==
  ASSUME ShapeInv, NEW p \in Proc, CopyoutGoesOn(p), UNCHANGED <<eager, kern>>
  PROVE  ShapeInv'
  <1>1. /\ th[p].at = "copyout" /\ Goto(p, "put") /\ UNCHANGED <<mem, tables, procs>>
        /\ th[p].k \in {"read", "exec", "wait"} /\ Acts(p) /\ TypeOK
    BY PathFacts DEF CopyoutGoesOn, ServesCall, Acts
  <1>2. Sets(p, "put", th[p].k, th[p].i, th[p].n, th[p].lo, th[p].pg, th[p].kid)
    BY <1>1, PathFields DEF Sets, Path, Goto
  <1>3. /\ th'[p] \in Path
        /\ th'[p].at = "put" /\ th'[p].k = th[p].k /\ th'[p].i = th[p].i /\ th'[p].lo = th[p].lo
        /\ th'[p].pg = th[p].pg /\ th'[p].kid = th[p].kid
    BY <1>1, <1>2, PathFields DEF Sets, Path, Ats
  <1>4. th' \in [Proc -> Path] /\ \A q \in Proc : q # p => th'[q] = th[q]
    BY <1>1, <1>2, <1>3, OnePathMoves DEF Sets
  <1>5. ServesCall(p)' /\ LoopBounds(p)'
    BY <1>1, <1>3, PathFacts DEF ServesCall, LoopBounds
  <1>6. Progress(p)'
    <2>1. Progress(p) /\ Target(p)' = Target(p) /\ sz' = sz /\ pa' = pa
      BY <1>1, <1>3, PathFacts, SameTarget DEF procs, tables
    <2> QED
      BY <1>1, <1>3, <2>1 DEF Progress, Maps
  <1>7. MemTypes'
    BY <1>1, AllocatorTypes
  <1> QED
    BY <1>1, <1>3, <1>4, <1>5, <1>6, <1>7, VariablesStep

\* uvmcowcopy() maps the page that it has copied or taken over.
LEMMA RemapShape ==
  ASSUME ShapeInv, NEW p \in Proc, Remap(p), UNCHANGED <<eager, kern>>
  PROVE  ShapeInv'
  <1>1. PICK va \in VA :
          /\ va = th[p].i /\ va < sz[p] /\ th[p].at = "remap" /\ th[p].pg \in Page
          /\ th[p].k \in {"fault", "read", "exec", "wait"} /\ Acts(p) /\ TypeOK
          /\ Full(p) /\ Cur(p) \in Table /\ va \in Where /\ va # Leaf /\ va # Root
    <2>1. /\ th[p].at = "remap" /\ th[p].i < sz[p] /\ th[p].pg \in Page /\ Acts(p) /\ TypeOK
          /\ th[p].k \in {"fault", "read", "exec", "wait"}
      <3>1. th[p].at = "remap" /\ LoopBounds(p) /\ ServesCall(p) /\ TypeOK
        BY PathFacts DEF Remap
      <3>2. th[p].pg \in Page \cup {NoPage}
        BY <3>1, PathFields
      <3> QED
        BY <3>1, <3>2 DEF LoopBounds, ServesCall, Acts
    <2>2. th[p].i \in VA
      <3>1. th[p].i \in 0 .. NVA /\ sz[p] \in 0 .. NVA /\ NVA \in Nat
        BY <2>1, PathFields, ConstantTypes
      <3> QED
        BY <2>1, <3>1 DEF VA
    <2>3. Full(p) /\ Cur(p) \in Table
      BY <2>1, PathFacts, TheTables DEF Keeps
    <2> QED
      BY <2>1, <2>2, <2>3, ConstantTypes
  <1>2. /\ pa' = [pa EXCEPT ![Cur(p)][va] = th[p].pg]
        /\ perm' = [perm EXCEPT ![Cur(p)][va] = [@ EXCEPT !.w = TRUE, !.cow = FALSE]]
        /\ UNCHANGED <<mem, procs>>
    BY <1>1 DEF Remap
  <1>3. /\ pa'[Cur(p)][va] = th[p].pg
        /\ \A s \in Where : s # va => pa'[Cur(p)][s] = pa[Cur(p)][s]
        /\ \A u \in Table : u # Cur(p) => pa'[u] = pa[u] /\ perm'[u] = perm[u]
    BY <1>1, <1>2, PathFacts DEF TableTypes
  <1>4. MemTypes' /\ TableTypes'
    <2>1. perm[Cur(p)][va] \in Perm
      BY <1>1, PathFacts DEF TableTypes
    <2> DEFINE e == perm[Cur(p)][va]
    <2> HIDE DEF e
    <2>2. [e EXCEPT !.w = TRUE, !.cow = FALSE] \in Perm
      BY <2>1 DEF Perm, e
    <2>3. perm' = [perm EXCEPT ![Cur(p)][va] = [e EXCEPT !.w = TRUE, !.cow = FALSE]]
      BY <1>1, <1>2, PathFacts DEF e, TableTypes
    <2>4. MemTypes'
      BY <1>1, <1>2, AllocatorTypes
    <2> QED
      BY <1>1, <1>2, <2>2, <2>3, <2>4, PathFacts DEF TableTypes
  <1>5. Full(p)'
    <2>1. Cur(p)' = Cur(p) /\ sz' = sz
      BY <1>2 DEF procs, Cur
    <2>2. Maps(Cur(p), sz[p]) /\ pa[Cur(p)][Root] # NoPage
      BY <1>1 DEF Full
    <2>3. pa'[Cur(p)][Root] # NoPage
      BY <1>1, <1>3, <2>2, ConstantTypes
    <2>4. \A b \in VA : pa'[Cur(p)][b] # NoPage <=> b < sz[p]
      BY <1>1, <1>3, <2>2, ConstantTypes DEF Maps
    <2> QED
      BY <2>1, <2>3, <2>4 DEF Full, Maps
  <1>6. \A t \in {Cur(p)} : Tree(t)'
    <2>1. pa[Cur(p)][va] # NoPage /\ Tree(Cur(p))
      BY <1>1, PathFacts DEF Full, Maps
    <2>2. pa'[Cur(p)][Leaf] = pa[Cur(p)][Leaf] /\ pa'[Cur(p)][Root] = pa[Cur(p)][Root]
      BY <1>1, <1>3, ConstantTypes
    <2> QED
      BY <1>1, <2>1, <2>2 DEF Tree
  <1>7. CASE th[p].k = "fault"
    <2>1. Return(p)
      BY <1>7 DEF Remap, Return
    <2>2. TypeOK'
      BY <1>1, <1>2, <1>4, <2>1, UserPath, PathFacts, TypePartsAfter DEF ProcTypes, procs
    <2>3. ~HasKid(p) /\ Reach(p) = {p}
      BY <1>7 DEF HasKid, Reach
    <2>4. status'[p] = "live"
      BY <1>1, <1>2, PathFacts DEF Life, procs
    <2>5. Void(Scratch(p))'
      <3>1. Void(Scratch(p)) /\ Scratch(p) \in Table /\ Scratch(p) # Cur(p) /\ Scratch(p)' = Scratch(p)
        BY <1>1, <1>2, <1>7, PathFacts, TheTables DEF Keeps, Scratch, procs
      <3> QED
        BY <1>3, <3>1 DEF Void
    <2>6. \A t \in Table : Tree(t)'
      <3>1. \A t \in Table : t # Cur(p) => Tree(t)'
        BY <1>3 DEF ShapeInv, Tree
      <3> QED
        BY <1>6, <3>1
    <2>7. \A t \in Table : t[1] \notin Reach(p) => pa'[t] = pa[t] /\ perm'[t] = perm[t]
      BY <1>1, <1>3, <2>3, TheTables
    <2> QED
      BY <1>1, <1>2, <1>5, <2>1, <2>2, <2>3, <2>4, <2>5, <2>6, <2>7, ReturnStep DEF procs
  <1>8. CASE th[p].k # "fault"
    <2>1. th' = [th EXCEPT ![p] = [@ EXCEPT !.at = "put", !.pg = NoPage]]
      BY <1>1, <1>8, PathFields DEF Remap
    <2>2. Sets(p, "put", th[p].k, th[p].i, th[p].n, th[p].lo, NoPage, th[p].kid)
      BY <1>1, <2>1, PathFields DEF Sets, Path
    <2>3. /\ th'[p] \in Path
          /\ th'[p].at = "put" /\ th'[p].k = th[p].k /\ th'[p].i = th[p].i /\ th'[p].lo = th[p].lo
          /\ th'[p].pg = NoPage /\ th'[p].kid = th[p].kid
      BY <1>1, <2>2, PathFields DEF Sets, Path, Ats
    <2>4. th' \in [Proc -> Path] /\ \A q \in Proc : q # p => th'[q] = th[q]
      BY <1>1, <2>2, <2>3, OnePathMoves DEF Sets
    <2>5. TypeOK'
      BY <1>2, <1>4, <2>4, PathFacts, TypePartsAfter DEF ProcTypes, procs
    <2>6. Target(p)' = Target(p) /\ Cur(p)' = Cur(p) /\ sz' = sz
      BY <1>2, <2>3, SameTarget DEF procs
    <2>7. th[p].k \in {"exec", "wait"} => Target(p) \in Table /\ Target(p) # Cur(p)
      <3>1. th[p].k = "exec" => Target(p) = Scratch(p)
        BY OwnTables
      <3>2. th[p].k = "wait" => Target(p) = Cur(th[p].kid) /\ th[p].kid # p
        BY OwnTables, KidIsDead DEF HasKid
      <3> QED
        BY <1>1, <3>1, <3>2, OwnTables, TheTables DEF Cur
    <2>8. ServesCall(p)'
      BY <1>1, <1>8, <2>3 DEF ServesCall
    <2>9. LoopBounds(p)'
      <3>1. th[p].k = "exec" => th[p].i < Len(Image)
        BY <1>1, PathFacts DEF LoopBounds
      <3>2. th[p].k # "sbrk" /\ th[p].lo = 0
        BY <1>1, PathFacts DEF LoopBounds
      <3> QED
        BY <1>1, <2>3, <3>1, <3>2 DEF LoopBounds
    <2>10. Progress(p)'
      <3>1. Progress(p)
        BY PathFacts
      <3>2. th[p].k = "wait" => Maps(Target(p), sz[th[p].kid]) /\ pa'[Target(p)] = pa[Target(p)]
        BY <1>1, <1>3, <2>7, <3>1 DEF Progress
      <3>3. th[p].k = "exec" => Maps(Target(p), Len(Image)) /\ pa'[Target(p)] = pa[Target(p)]
        BY <1>1, <1>3, <2>7, <3>1 DEF Progress
      <3> QED
        BY <2>3, <2>6, <3>2, <3>3 DEF Progress, Maps
    <2>11. pa'[Target(p)][Root] # NoPage
      <3>1. pa[Target(p)][Root] # NoPage /\ Target(p) \in Table
        BY <1>1, PathFacts, OwnTables DEF Keeps
      <3> QED
        BY <1>1, <1>3, <3>1, ConstantTypes
    <2>12. \A t \in {Target(p), Cur(p)} : Tree(t)'
      <3>1. Target(p) \in Table /\ Tree(Target(p))
        BY OwnTables, PathFacts
      <3>2. \A t \in {Target(p)} : t # Cur(p) => Tree(t)'
        BY <1>3, <3>1 DEF Tree
      <3> QED
        BY <1>6, <3>2
    <2> QED
      BY <1>1, <1>2, <1>3, <1>5, <2>3, <2>4, <2>5, <2>8, <2>9, <2>10, <2>11, <2>12, WorkStep
  <1> QED
    BY <1>7, <1>8

\* copyout() writes to the page, and its call goes on.
LEMMA PutShape ==
  ASSUME ShapeInv, NEW p \in Proc, NEW d \in Data, Put(p, d), UNCHANGED <<eager, kern>>
  PROVE  ShapeInv'
  <1>1. /\ th[p].at = "put" /\ th[p].k \in {"read", "exec", "wait"} /\ Acts(p) /\ TypeOK /\ Full(p)
        /\ UNCHANGED <<free, ref, tables, procs>>
    BY PathFacts DEF Put, ServesCall, Acts, Keeps
  <1>2. MemTypes' /\ TableTypes'
    <2>1. PICK g : data' = [data EXCEPT ![g] = d]
      BY DEF Put
    <2> QED
      BY <1>1, <2>1, PathFacts DEF MemTypes, TableTypes, tables
  <1>3. CASE th[p].k = "read"
    <2>1. Return(p)
      BY <1>1, <1>3, PathFields DEF Put, Return
    <2>2. TypeOK'
      BY <1>1, <1>2, <2>1, UserPath, PathFacts, TypePartsAfter DEF ProcTypes, procs
    <2>3. ~HasKid(p)
      BY <1>3 DEF HasKid
    <2>4. status'[p] = "live"
      BY <1>1, <1>3, PathFacts DEF Life, procs
    <2>5. Full(p)' /\ Void(Scratch(p))'
      <3>1. Full(p) /\ Void(Scratch(p))
        BY <1>1, <1>3, PathFacts DEF Keeps
      <3> QED
        BY <1>1, <3>1 DEF Full, Maps, Void, Cur, Scratch, tables, procs
    <2>6. \A t \in Table : Tree(t)'
      BY <1>1 DEF ShapeInv, Tree, tables
    <2> QED
      BY <1>1, <2>1, <2>2, <2>3, <2>4, <2>5, <2>6, ReturnStep DEF procs, tables
  <1>4. CASE th[p].k = "wait"
    <2>1. th' = [th EXCEPT ![p] = [@ EXCEPT !.at = "unmap", !.i = 0, !.n = sz[th[p].kid]]]
      BY <1>1, <1>4, PathFields DEF Put
    <2>2. Sets(p, "unmap", th[p].k, 0, sz[th[p].kid], th[p].lo, th[p].pg, th[p].kid)
      BY <1>1, <2>1, PathFields DEF Sets, Path
    <2>3. th[p].kid \in Proc /\ sz[th[p].kid] \in 0 .. NVA /\ 0 \in 0 .. NVA
      <3>1. th[p].kid \in Proc
        BY <1>4, KidIsDead DEF HasKid
      <3> QED
        BY <3>1, PathFacts, ConstantTypes DEF ProcTypes
    <2>4. /\ th'[p] \in Path
          /\ th'[p].at = "unmap" /\ th'[p].k = th[p].k /\ th'[p].i = 0 /\ th'[p].n = sz[th[p].kid]
          /\ th'[p].lo = th[p].lo /\ th'[p].pg = th[p].pg /\ th'[p].kid = th[p].kid
      BY <1>1, <2>2, <2>3, PathFields DEF Sets, Path, Ats
    <2>5. th' \in [Proc -> Path] /\ \A q \in Proc : q # p => th'[q] = th[q]
      BY <1>1, <2>2, <2>4, OnePathMoves DEF Sets
    <2>6. ServesCall(p)'
      BY <1>4, <2>4 DEF ServesCall
    <2>7. LoopBounds(p)'
      <3>1. LoopBounds(p)
        BY PathFacts
      <3> QED
        BY <1>1, <1>4, <2>3, <2>4, <3>1 DEF LoopBounds
    <2>8. Progress(p)'
      <3>1. Target(p)' = Target(p) /\ Maps(Target(p), sz[th[p].kid]) /\ th[p].lo = 0
        BY <1>1, <1>4, <2>4, PathFacts, SameTarget DEF procs, Progress, LoopBounds
      <3>2. \A b \in VA : b \in Int /\ 0 <= b
        BY ConstantTypes
      <3> QED
        BY <1>1, <2>3, <2>4, <3>1, <3>2 DEF Progress, Maps, tables
    <2> QED
      BY <1>1, <1>2, <1>4, <2>4, <2>5, <2>6, <2>7, <2>8, VariablesStep
  <1>5. CASE th[p].k = "exec"
    <2>1. th' = [th EXCEPT ![p] = [@ EXCEPT !.at = "commit"]]
      BY <1>1, <1>5, PathFields DEF Put
    <2>2. Sets(p, "commit", th[p].k, th[p].i, th[p].n, th[p].lo, th[p].pg, th[p].kid)
      BY <1>1, <2>1, PathFields DEF Sets, Path
    <2>3. /\ th'[p] \in Path
          /\ th'[p].at = "commit" /\ th'[p].k = th[p].k
          /\ th'[p].lo = th[p].lo /\ th'[p].pg = th[p].pg /\ th'[p].kid = th[p].kid
      BY <1>1, <2>2, PathFields DEF Sets, Path, Ats
    <2>4. th' \in [Proc -> Path] /\ \A q \in Proc : q # p => th'[q] = th[q]
      BY <1>1, <2>2, <2>3, OnePathMoves DEF Sets
    <2>5. ServesCall(p)' /\ LoopBounds(p)'
      BY <1>1, <1>5, <2>3, PathFacts DEF ServesCall, LoopBounds
    <2>6. Progress(p)'
      <3>1. Target(p)' = Target(p) /\ Maps(Target(p), Len(Image))
        BY <1>1, <1>5, <2>3, PathFacts, SameTarget DEF procs, Progress
      <3> QED
        BY <1>1, <2>3, <3>1 DEF Progress, Maps, tables
    <2> QED
      BY <1>1, <1>2, <1>5, <2>3, <2>4, <2>5, <2>6, VariablesStep
  <1> QED
    BY <1>1, <1>3, <1>4, <1>5

\* copyout() finds no page to write to, and its call fails.
LEMMA PutFailsShape ==
  ASSUME ShapeInv, NEW p \in Proc, PutFails(p), UNCHANGED <<eager, kern>>
  PROVE  ShapeInv'
  <1>1. /\ th[p].at = "put" /\ th[p].k \in {"read", "wait"} /\ Acts(p) /\ TypeOK /\ Return(p)
        /\ UNCHANGED <<mem, tables, procs>>
    BY PathFacts DEF PutFails, ServesCall, Acts
  <1>2. TypeOK'
    <2>1. MemTypes' /\ TableTypes'
      BY <1>1, AllocatorTypes, PathFacts DEF TableTypes, tables
    <2> QED
      BY <1>1, <2>1, UserPath, PathFacts, TypePartsAfter DEF ProcTypes, procs
  <1>3. Full(p)' /\ Void(Scratch(p))' /\ status'[p] = "live"
    <2>1. Full(p) /\ Void(Scratch(p)) /\ status[p] = "live"
      BY <1>1, PathFacts DEF Keeps, Life
    <2> QED
      BY <1>1, <2>1 DEF Full, Maps, Void, Cur, Scratch, tables, procs
  <1>4. \A t \in Table : Tree(t)'
    BY <1>1 DEF ShapeInv, Tree, tables
  <1>5. ASSUME NEW c \in Proc, HasKid(p), c = th[p].kid
        PROVE  /\ status'[c] # "live" /\ Void(Scratch(c))'
               /\ status'[c] = "unused" => Void(Cur(c))'
               /\ status'[c] = "zombie" => Full(c)'
    <2>1. th[p].k = "wait" /\ status[c] = "zombie" /\ th[c].k = "none"
      BY <1>1, <1>5, KidIsDead, PathFacts DEF HasKid, Life
    <2>2. Void(Scratch(c))
      BY <2>1, PathFacts DEF Keeps
    <2>3. Full(c)
      <3>1. Target(p) = Cur(c)
        BY <1>5, OwnTables
      <3> QED
        BY <1>1, <1>5, <2>1, <3>1, PathFacts DEF Keeps, Progress, Full
    <2> QED
      BY <1>1, <2>1, <2>2, <2>3 DEF Full, Maps, Void, Cur, Scratch, tables, procs
  <1> QED
    BY <1>1, <1>2, <1>3, <1>4, <1>5, ReturnStep DEF procs, tables

\* A step of a process that has no child in the making.
LEMMA OwnStep ==
  ASSUME ShapeInv, TypeOK', NEW p \in Proc, Acts(p), ~HasKid(p), ~HasKid(p)',
         th[p].k # "boot", th'[p].k # "boot", th'[p].at # "boot",
         \A q \in Proc : q # p => /\ th'[q] = th[q] /\ status'[q] = status[q]
                                  /\ sz'[q] = sz[q] /\ active'[q] = active[q],
         \A q \in Proc : parent'[q] = parent[q] \/ parent[q] = p,
         \A t \in Table : t[1] # p => pa'[t] = pa[t] /\ perm'[t] = perm[t],
         PathShape(p)', \A t \in Table : Tree(t)'
  PROVE  ShapeInv'
  <1>1. Reach(p) = {p}
    BY DEF Reach
  <1>2. \A q \in Proc \ Reach(p) : Same(q)
    <2> SUFFICES ASSUME NEW q \in Proc, q # p PROVE Same(q)
      BY <1>1
    <2>1. \A b \in {0, 1} : <<q, b>> \in Table /\ <<q, b>>[1] # p
      BY DEF Table
    <2> QED
      BY <2>1 DEF Same
  <1>3. Tree(<<p, 0>>)' /\ Tree(<<p, 1>>)'
    BY DEF Table
  <1> QED
    BY <1>1, <1>2, <1>3, PathStep

\* exec() makes the new page table the process's own and takes down the old one.
LEMMA ExecCommitShape ==
  ASSUME ShapeInv, NEW p \in Proc, ExecCommit(p), UNCHANGED <<eager, kern>>
  PROVE  ShapeInv'
  <1>1. /\ th[p].at = "commit" /\ th[p].k = "exec" /\ Acts(p) /\ TypeOK /\ ~HasKid(p)
        /\ UNCHANGED <<mem, tables, status, parent>> /\ status[p] = "live"
        /\ Full(p) /\ Maps(Scratch(p), Len(Image)) /\ pa[Scratch(p)][Root] # NoPage
        /\ active[p] \in {0, 1}
    <2>1. th[p].at = "commit" /\ th[p].k = "exec" /\ Target(p) = Scratch(p)
      BY PathFacts, OwnTables DEF ExecCommit, ServesCall
    <2> QED
      BY <2>1, PathFacts DEF ExecCommit, Acts, HasKid, Keeps, Progress, Life, ProcTypes
  <1>2. PICK n \in 0 .. NVA :
          /\ th' = [th EXCEPT ![p] = [At("unmap", "exec") EXCEPT !.n = n]]
          /\ \/ active' = [active EXCEPT ![p] = 1 - @] /\ sz' = [sz EXCEPT ![p] = Len(Image)] /\ n = sz[p]
             \/ UNCHANGED <<active, sz>> /\ n = Len(Image)
    <2>1. sz[p] \in 0 .. NVA /\ Len(Image) \in 0 .. NVA
      BY <1>1, PathFields, ConstantTypes
    <2> QED
      BY <2>1 DEF ExecCommit
  <1>3. Sets(p, "unmap", "exec", 0, n, 0, NoPage, NoProc)
    BY <1>1, <1>2, PathFields DEF Sets, At
  <1>4. /\ th'[p] \in Path
        /\ th'[p].at = "unmap" /\ th'[p].k = "exec" /\ th'[p].i = 0 /\ th'[p].n = n
        /\ th'[p].lo = 0 /\ th'[p].pg = NoPage /\ th'[p].kid = NoProc
    <2>1. 0 \in 0 .. NVA
      BY ConstantTypes
    <2> QED
      BY <1>3, <2>1 DEF Sets, Path, Ats, Calling
  <1>5. th' \in [Proc -> Path] /\ \A q \in Proc : q # p => th'[q] = th[q]
    BY <1>1, <1>3, <1>4, OnePathMoves DEF Sets
  <1>6. ProcTypes' /\ \A q \in Proc : q # p => sz'[q] = sz[q] /\ active'[q] = active[q]
    <2>1. 1 - active[p] \in {0, 1} /\ Len(Image) \in 0 .. NVA
      BY <1>1, ConstantTypes
    <2> QED
      BY <1>1, <1>2, <2>1, PathFacts DEF ProcTypes
  <1>7. TypeOK'
    <2>1. MemTypes' /\ TableTypes'
      BY <1>1, AllocatorTypes, PathFacts DEF TableTypes, tables
    <2> QED
      BY <1>5, <1>6, <2>1, PathFacts, TypePartsAfter
  <1>8. /\ Full(p)' /\ Target(p)' = Scratch(p)'
        /\ Maps(Scratch(p), n)' /\ pa'[Scratch(p)'][Root] # NoPage
    <2>1. Target(p)' = Scratch(p)'
      BY <1>4 DEF Target
    <2>2. CASE active' = [active EXCEPT ![p] = 1 - @] /\ sz' = [sz EXCEPT ![p] = Len(Image)] /\ n = sz[p]
      <3>1. Cur(p)' = Scratch(p) /\ Scratch(p)' = Cur(p) /\ sz'[p] = Len(Image)
        <4>1. active'[p] = 1 - active[p] /\ sz'[p] = Len(Image)
          BY <2>2, PathFacts DEF ProcTypes
        <4> QED
          BY <1>1, <4>1 DEF Cur, Scratch
      <3> QED
        BY <1>1, <2>1, <2>2, <3>1 DEF Full, Maps, tables
    <2>3. CASE UNCHANGED <<active, sz>> /\ n = Len(Image)
      BY <1>1, <2>1, <2>3 DEF Full, Maps, tables, Cur, Scratch
    <2> QED
      BY <1>2, <2>2, <2>3
  <1>9. ServesCall(p)' /\ LoopBounds(p)'
    BY <1>4 DEF ServesCall, LoopBounds
  <1>10. Progress(p)'
    <2>1. \A b \in VA : b \in Int /\ 0 <= b
      BY ConstantTypes
    <2>2. \A b \in VA : pa'[Target(p)'][b] # NoPage <=> b < n
      BY <1>8 DEF Maps
    <2> QED
      BY <1>4, <2>1, <2>2 DEF Progress
  <1>11. Keeps(p)' /\ Life(p)' /\ ~HasKid(p)'
    BY <1>1, <1>4, <1>8 DEF Keeps, Life, Acts, HasKid
  <1>12. \A t \in Table : Tree(t)' /\ pa'[t] = pa[t] /\ perm'[t] = perm[t]
    BY <1>1 DEF ShapeInv, Tree, tables
  <1>13. PathShape(p)'
    BY <1>9, <1>10, <1>11 DEF PathShape
  <1> QED
    BY <1>1, <1>4, <1>5, <1>6, <1>7, <1>11, <1>12, <1>13, OwnStep

\* uvmalloc() has mapped all it was asked for: boot, sbrk() or exec() goes on.
LEMMA AllocDoneShape ==
  ASSUME ShapeInv, NEW p \in Proc, AllocDone(p), UNCHANGED <<eager, kern>>
  PROVE  ShapeInv'
  <1>1. /\ th[p].at = "alloc" /\ th[p].i = th[p].n /\ th[p].k \in {"boot", "sbrk", "exec"}
        /\ Acts(p) /\ TypeOK /\ ~HasKid(p) /\ UNCHANGED <<mem, tables>> /\ Maps(Target(p), th[p].n)
        /\ pa[Target(p)][Root] # NoPage
    BY PathFacts DEF AllocDone, ServesCall, Acts, HasKid, Progress, Keeps
  <1>2. MemTypes' /\ TableTypes'
    BY <1>1, AllocatorTypes, PathFacts DEF TableTypes, tables
  <1>3. \A t \in Table : Tree(t)' /\ pa'[t] = pa[t] /\ perm'[t] = perm[t]
    BY <1>1 DEF ShapeInv, Tree, tables
  <1>4. CASE th[p].k = "exec"
    <2>1. UNCHANGED procs /\ th' = [th EXCEPT ![p] = [At("copyout", "exec") EXCEPT !.i = Len(Image) - 1, !.kid = NoProc]]
      BY <1>4 DEF AllocDone, Copyout
    <2>2. Sets(p, "copyout", "exec", Len(Image) - 1, 0, 0, NoPage, NoProc)
      BY <1>1, <2>1, PathFields DEF Sets, At
    <2>3. /\ th'[p] \in Path
          /\ th'[p].at = "copyout" /\ th'[p].k = "exec" /\ th'[p].i = Len(Image) - 1
          /\ th'[p].lo = 0 /\ th'[p].pg = NoPage
      <3>1. 0 \in 0 .. NVA /\ Len(Image) - 1 \in 0 .. NVA
        BY ConstantTypes
      <3> QED
        BY <2>2, <3>1 DEF Sets, Path, Ats, Calling
    <2>4. th' \in [Proc -> Path] /\ \A q \in Proc : q # p => th'[q] = th[q]
      BY <1>1, <2>2, <2>3, OnePathMoves DEF Sets
    <2>5. TypeOK'
      BY <1>2, <2>1, <2>4, PathFacts, TypePartsAfter DEF ProcTypes, procs
    <2>6. ServesCall(p)' /\ LoopBounds(p)'
      <3>1. Len(Image) - 1 \in VA /\ Len(Image) - 1 < Len(Image)
        BY ConstantTypes
      <3> QED
        BY <2>3, <3>1 DEF ServesCall, LoopBounds
    <2>7. Full(p) /\ status[p] = "live" /\ Target(p) = Scratch(p) /\ th[p].n = Len(Image)
      BY <1>1, <1>4, PathFacts, OwnTables DEF Keeps, Life, LoopBounds
    <2>8. Full(p)' /\ Target(p)' = Scratch(p)
      BY <1>1, <2>1, <2>3, <2>7 DEF Full, Maps, Cur, Scratch, Target, tables, procs
    <2>9. Progress(p)'
      BY <1>1, <2>3, <2>7, <2>8 DEF Progress, Maps, tables
    <2>10. Keeps(p)' /\ Life(p)' /\ ~HasKid(p)'
      BY <1>1, <2>1, <2>3, <2>7, <2>8 DEF Keeps, Life, Acts, HasKid, tables, procs
    <2>11. PathShape(p)'
      BY <2>6, <2>9, <2>10 DEF PathShape
    <2> QED
      BY <1>1, <1>3, <1>4, <2>1, <2>3, <2>4, <2>5, <2>10, <2>11, OwnStep DEF procs
  <1>5. CASE th[p].k # "exec"
    <2>1. /\ sz' = [sz EXCEPT ![p] = th[p].n] /\ status' = [status EXCEPT ![p] = "live"]
          /\ Return(p) /\ UNCHANGED <<active, parent>>
      BY <1>5 DEF AllocDone
    <2>2. /\ ProcTypes' /\ sz'[p] = th[p].n /\ status'[p] = "live"
          /\ \A q \in Proc : q # p => sz'[q] = sz[q] /\ status'[q] = status[q]
      <3>1. th[p].n \in 0 .. NVA
        BY <1>1, PathFields
      <3> QED
        BY <2>1, <3>1, PathFacts DEF ProcTypes
    <2>3. TypeOK'
      BY <1>1, <1>2, <2>1, <2>2, UserPath, PathFacts, TypePartsAfter
    <2>4. Target(p) = Cur(p) /\ Void(Scratch(p)) /\ Cur(p)' = Cur(p) /\ Scratch(p)' = Scratch(p)
      BY <1>1, <1>5, <2>1, PathFacts, OwnTables DEF Keeps, Cur, Scratch
    <2>5. Full(p)' /\ Void(Scratch(p))'
      BY <1>1, <2>2, <2>4 DEF Full, Maps, Void, tables
    <2>6. Reach(p) = {p}
      BY <1>1 DEF Reach
    <2> QED
      BY <1>1, <1>3, <2>1, <2>2, <2>3, <2>5, <2>6, ReturnStep
  <1> QED
    BY <1>4, <1>5

\* What ShapeInv says of a process in user space.
LEMMA UserFacts ==
  ASSUME ShapeInv, NEW p \in Proc, InUser(p)
  PROVE  /\ th[p].at = "user" /\ th[p].k = "none" /\ th[p].pg = NoPage /\ th[p].lo = 0
         /\ Acts(p) /\ ~HasKid(p) /\ status[p] = "live" /\ TypeOK
         /\ Full(p) /\ Void(Scratch(p)) /\ Cur(p) \in Table /\ Scratch(p) \in Table
         /\ Cur(p) # Scratch(p)
  <1>1. th[p].at = "user" /\ th[p].k = "none" /\ status[p] = "live"
    BY PathFacts DEF InUser, ServesCall
  <1>2. Acts(p) /\ ~HasKid(p)
    BY <1>1 DEF Acts, HasKid
  <1> QED
    BY <1>1, <1>2, PathFacts, TheTables DEF LoopBounds, Keeps

\* A process in user space enters the kernel.
LEMMA StartStep ==
  ASSUME ShapeInv, TypeOK', NEW p \in Proc, InUser(p), UNCHANGED procs,
         th'[p].k \in {"read", "sbrk", "fault", "exec"},
         th'[p].at \notin {"boot", "dead", "freewalk"},
         \A q \in Proc : q # p => th'[q] = th[q],
         \A t \in Table : t # Scratch(p) => pa'[t] = pa[t],
         perm' = perm,
         th'[p].k # "exec" => pa' = pa,
         th'[p].k = "exec" => pa'[Scratch(p)][Root] # NoPage,
         \A t \in {Scratch(p)} : Tree(t)',
         ServesCall(p)', LoopBounds(p)', Progress(p)'
  PROVE  ShapeInv'
  <1>1. Cur(p)' = Cur(p) /\ Scratch(p)' = Scratch(p) /\ sz' = sz
    BY DEF Cur, Scratch, procs
  <1>2. Target(p)' = IF th'[p].k = "exec" THEN Scratch(p) ELSE Cur(p)
    BY <1>1 DEF Target
  <1>3. Full(p)' /\ pa'[Cur(p)][Root] # NoPage
    BY <1>1, UserFacts DEF Full, Maps
  <1>4. Keeps(p)'
    BY <1>1, <1>2, <1>3, UserFacts DEF Keeps, Void
  <1>5. Life(p)' /\ ~HasKid(p)'
    BY UserFacts DEF Life, Acts, HasKid, procs
  <1>6. \A t \in Table : Tree(t)'
    <2>1. \A t \in Table : t # Scratch(p) => Tree(t)'
      BY DEF ShapeInv, Tree
    <2> QED
      BY <2>1
  <1>7. \A t \in Table : t[1] # p => pa'[t] = pa[t] /\ perm'[t] = perm[t]
    BY UserFacts, TheTables
  <1>8. PathShape(p)'
    BY <1>4, <1>5 DEF PathShape
  <1> QED
    BY <1>5, <1>6, <1>7, <1>8, UserFacts, OwnStep DEF procs

\* A store changes the bytes of a page and no table.
LEMMA StoreShape ==
  ASSUME ShapeInv, NEW p \in Proc, NEW va \in VA, NEW d \in Data, Store(p, va, d),
         UNCHANGED <<eager, kern>>
  PROVE  ShapeInv'
  <1>1. InUser(p) /\ UNCHANGED <<free, ref, tables, procs, th>>
    BY DEF Store
  <1>2. MemTypes'
    <2>1. PICK g : data' = [data EXCEPT ![g] = d]
      BY DEF Store
    <2> QED
      BY <1>1, <2>1, PathFacts DEF MemTypes
  <1>3. th' \in [Proc -> Path] /\ ServesCall(p)' /\ LoopBounds(p)' /\ Progress(p)'
    <2>1. th' \in [Proc -> Path]
      BY <1>1, UserFacts, PathFields
    <2>2. ServesCall(p)' /\ LoopBounds(p)' /\ Progress(p)'
      BY <1>1, UserFacts DEF ServesCall, LoopBounds, Progress
    <2> QED
      BY <2>1, <2>2
  <1> QED
    BY <1>1, <1>2, <1>3, UserFacts, VariablesStep

\* usertrap() serves a store to a shared page, or kills the process.
LEMMA CowFaultShape ==
  ASSUME ShapeInv, NEW p \in Proc, NEW va \in VA, CowFault(p, va), UNCHANGED <<eager, kern>>
  PROVE  ShapeInv'
  <1>1. InUser(p) /\ CheckCow(p, va) /\ CowCopy(p, va, "fault")
    BY DEF CowFault
  <1>2. /\ th' \in [Proc -> Path] /\ \A q \in Proc : q # p => th'[q] = th[q]
        /\ th'[p].at = "remap" /\ th'[p].k = "fault" /\ th'[p].i = va /\ th'[p].lo = 0
        /\ th'[p].pg \in Page
        /\ MemTypes' /\ UNCHANGED <<tables, procs>>
        /\ va < sz[p] /\ perm[Cur(p)][va].cow
    BY <1>1, UserFacts, CowCopyPath DEF Calling
  <1>3. TypeOK'
    BY <1>2, PathFacts, TypePartsAfter DEF TableTypes, ProcTypes, tables, procs
  <1>4. ServesCall(p)' /\ LoopBounds(p)' /\ Progress(p)'
    <2>1. Cur(p)' = Cur(p)
      BY <1>2 DEF Cur, procs
    <2> QED
      BY <1>2, <2>1, ConstantTypes DEF ServesCall, LoopBounds, Progress, tables, procs
  <1>5. \A t \in {Scratch(p)} : Tree(t)'
    BY <1>2, PathFacts DEF Tree, tables
  <1> QED
    BY <1>1, <1>2, <1>3, <1>4, <1>5, StartStep DEF tables

\* read() sets out to write to the caller's memory.
LEMMA ReadShape ==
  ASSUME ShapeInv, NEW p \in Proc, NEW va \in VA, Read(p, va), UNCHANGED <<eager, kern>>
  PROVE  ShapeInv'
  <1>1. InUser(p) /\ UNCHANGED <<mem, tables, procs>> /\ TypeOK
    BY PathFacts DEF Read
  <1>2. Sets(p, "copyout", "read", va, 0, 0, NoPage, NoProc)
    BY <1>1, PathFields DEF Read, Copyout, Sets, At
  <1>3. /\ th'[p] \in Path /\ th'[p].at = "copyout" /\ th'[p].k = "read" /\ th'[p].i = va
        /\ th'[p].lo = 0 /\ th'[p].pg = NoPage
    <2>1. 0 \in 0 .. NVA /\ va \in 0 .. NVA
      BY ConstantTypes
    <2> QED
      BY <1>2, <2>1 DEF Sets, Path, Ats, Calling
  <1>4. th' \in [Proc -> Path] /\ \A q \in Proc : q # p => th'[q] = th[q]
    BY <1>1, <1>2, <1>3, OnePathMoves DEF Sets
  <1>5. TypeOK'
    BY <1>1, <1>4, PathFacts, AllocatorTypes, TypePartsAfter DEF TableTypes, ProcTypes, tables, procs
  <1>6. ServesCall(p)' /\ LoopBounds(p)' /\ Progress(p)'
    BY <1>3, ConstantTypes DEF ServesCall, LoopBounds, Progress
  <1>7. \A t \in {Scratch(p)} : Tree(t)'
    BY <1>1, PathFacts DEF Tree, tables
  <1> QED
    BY <1>1, <1>3, <1>4, <1>5, <1>6, <1>7, StartStep DEF tables

\* sbrk() sets out to map pages or to unmap them.
LEMMA SbrkShape ==
  ASSUME ShapeInv, NEW p \in Proc, NEW m \in 0 .. NVA, Sbrk(p, m), UNCHANGED <<eager, kern>>
  PROVE  ShapeInv'
  <1>1. /\ InUser(p) /\ UNCHANGED <<mem, tables, procs>> /\ TypeOK /\ m # sz[p]
        /\ sz[p] \in 0 .. NVA
    BY PathFacts, PathFields DEF Sbrk
  <1>2. \/ m > sz[p] /\ Sets(p, "alloc", "sbrk", sz[p], m, sz[p], NoPage, NoProc)
        \/ m < sz[p] /\ Sets(p, "unmap", "sbrk", m, sz[p], m, NoPage, NoProc)
    <2>1. th \in [Proc -> Path]
      BY <1>1, PathFields
    <2>2. CASE m > sz[p]
      <3>1. th' = [th EXCEPT ![p] = [At("alloc", "sbrk") EXCEPT !.i = sz[p], !.n = m, !.lo = sz[p]]]
        BY <2>2 DEF Sbrk
      <3> QED
        BY <2>1, <2>2, <3>1 DEF Sets, At
    <2>3. CASE ~(m > sz[p])
      <3>1. th' = [th EXCEPT ![p] = [At("unmap", "sbrk") EXCEPT !.i = m, !.n = sz[p], !.lo = m]]
        BY <2>3 DEF Sbrk
      <3>2. m < sz[p]
        BY <1>1, <2>3
      <3> QED
        BY <2>1, <3>1, <3>2 DEF Sets, At
    <2> QED
      BY <2>2, <2>3
  <1>3. /\ th'[p] \in Path /\ th'[p].k = "sbrk" /\ th'[p].pg = NoPage
        /\ \/ /\ m > sz[p] /\ th'[p].at = "alloc"
              /\ th'[p].i = sz[p] /\ th'[p].n = m /\ th'[p].lo = sz[p]
           \/ /\ m < sz[p] /\ th'[p].at = "unmap"
              /\ th'[p].i = m /\ th'[p].n = sz[p] /\ th'[p].lo = m
    BY <1>1, <1>2 DEF Sets, Path, Ats, Calling
  <1>4. th' \in [Proc -> Path] /\ \A q \in Proc : q # p => th'[q] = th[q]
    BY <1>1, <1>2, <1>3, OnePathMoves DEF Sets
  <1>5. TypeOK'
    BY <1>1, <1>4, PathFacts, AllocatorTypes, TypePartsAfter DEF TableTypes, ProcTypes, tables, procs
  <1>6. ServesCall(p)' /\ LoopBounds(p)'
    BY <1>1, <1>3 DEF ServesCall, LoopBounds, procs
  <1>7. Progress(p)'
    <2>1. Target(p)' = Cur(p) /\ Maps(Cur(p), sz[p])
      BY <1>1, <1>3, UserFacts DEF Target, Cur, Full, procs
    <2>2. \A b \in VA : b \in Int
      BY ConstantTypes
    <2> QED
      BY <1>1, <1>3, <2>1, <2>2 DEF Progress, Maps, tables
  <1>8. \A t \in {Scratch(p)} : Tree(t)'
    BY <1>1, PathFacts DEF Tree, tables
  <1> QED
    BY <1>1, <1>3, <1>4, <1>5, <1>6, <1>7, <1>8, StartStep DEF tables

\* exec() sets out with an empty page table beside the process's own.
LEMMA ExecShape ==
  ASSUME ShapeInv, NEW p \in Proc, Exec(p), UNCHANGED <<eager, kern>>
  PROVE  ShapeInv'
  <1>1. PICK g \in free : Kalloc(g, Junk) /\ pa' = [pa EXCEPT ![Scratch(p)][Root] = g]
    BY DEF Exec
  <1>2. InUser(p) /\ UNCHANGED <<perm, procs>> /\ TypeOK /\ g \in Page /\ g # NoPage
    BY PathFacts, ConstantTypes DEF Exec, MemTypes
  <1>3. Sets(p, "alloc", "exec", 0, Len(Image), 0, NoPage, NoProc)
    BY <1>2, PathFields DEF Exec, Sets, At
  <1>4. /\ th'[p] \in Path /\ th'[p].at = "alloc" /\ th'[p].k = "exec" /\ th'[p].i = 0
        /\ th'[p].n = Len(Image) /\ th'[p].lo = 0 /\ th'[p].pg = NoPage
    <2>1. 0 \in 0 .. NVA /\ Len(Image) \in 0 .. NVA
      BY ConstantTypes
    <2> QED
      BY <1>3, <2>1 DEF Sets, Path, Ats, Calling
  <1>5. th' \in [Proc -> Path] /\ \A q \in Proc : q # p => th'[q] = th[q]
    BY <1>2, <1>3, <1>4, OnePathMoves DEF Sets
  <1>6. /\ pa'[Scratch(p)][Root] = g
        /\ \A s \in Where : s # Root => pa'[Scratch(p)][s] = pa[Scratch(p)][s]
        /\ \A t \in Table : t # Scratch(p) => pa'[t] = pa[t]
    BY <1>1, <1>2, UserFacts, PathFacts, ConstantTypes DEF TableTypes
  <1>7. TypeOK'
    <2>1. MemTypes'
      BY <1>1, <1>2, AllocatorTypes
    <2>2. TableTypes'
      BY <1>1, <1>2, UserFacts, PathFacts, ConstantTypes DEF TableTypes
    <2> QED
      BY <1>2, <1>5, <2>1, <2>2, PathFacts, TypePartsAfter DEF ProcTypes, procs
  <1>8. \A s \in Where : s # Root => pa'[Scratch(p)][s] = NoPage
    BY <1>2, <1>6, UserFacts DEF Void
  <1>9. ServesCall(p)' /\ LoopBounds(p)'
    BY <1>4, ConstantTypes DEF ServesCall, LoopBounds
  <1>10. Progress(p)'
    <2>1. Target(p)' = Scratch(p)
      BY <1>2, <1>4 DEF Target, Scratch, procs
    <2>2. \A b \in VA : b \in Int /\ 0 <= b /\ pa'[Scratch(p)][b] = NoPage
      BY <1>8, ConstantTypes
    <2> QED
      BY <1>4, <2>1, <2>2 DEF Progress, Maps
  <1>11. \A t \in {Scratch(p)} : Tree(t)'
    BY <1>2, <1>6, <1>8, ConstantTypes DEF Tree
  <1> QED
    BY <1>2, <1>4, <1>5, <1>6, <1>7, <1>9, <1>10, <1>11, StartStep

\* exit() leaves the memory to wait(), and the children to init.
LEMMA ExitShape ==
  ASSUME ShapeInv, NEW p \in Proc, InUser(p), Exit(p), UNCHANGED <<eager, kern>>
  PROVE  ShapeInv'
  <1>1. /\ UNCHANGED <<mem, tables, active, sz>> /\ TypeOK /\ InitProc \in Proc
    BY PathFacts, ConstantTypes DEF Exit, Panic, procs
  <1>2. MemTypes' /\ TableTypes'
    BY <1>1, PathFacts, AllocatorTypes DEF TableTypes, tables
  <1>3. \A t \in Table : Tree(t)' /\ pa'[t] = pa[t] /\ perm'[t] = perm[t]
    BY <1>1 DEF ShapeInv, Tree, tables
  <1>4. Full(p)' /\ Void(Scratch(p))'
    BY <1>1, UserFacts DEF Full, Maps, Void, Cur, Scratch, tables
  <1>5. CASE p = InitProc
    <2>1. UNCHANGED procs /\ th' = [th EXCEPT ![p] = At("panic", "init exiting")]
      BY <1>5 DEF Exit, Panic
    <2>0. PICK why \in Calling : why = "init exiting"
      BY DEF Calling, Panics
    <2>2. Sets(p, "panic", why, 0, 0, 0, NoPage, NoProc)
      BY <1>1, <2>0, <2>1, PathFields DEF Sets, At
    <2>3. /\ th'[p] \in Path /\ th'[p].at = "panic" /\ th'[p].k = why /\ th'[p].lo = 0
          /\ th'[p].pg = NoPage
      <3>1. 0 \in 0 .. NVA /\ "panic" \in Ats
        BY ConstantTypes DEF Ats
      <3> QED
        BY <2>2, <3>1 DEF Sets, Path
    <2>4. th' \in [Proc -> Path] /\ \A q \in Proc : q # p => th'[q] = th[q]
      BY <1>1, <2>2, <2>3, OnePathMoves DEF Sets
    <2>5. TypeOK'
      BY <1>2, <2>1, <2>4, PathFacts, TypePartsAfter DEF ProcTypes, procs
    <2>6. ServesCall(p)' /\ LoopBounds(p)' /\ Progress(p)'
      BY <1>5, <2>0, <2>3 DEF ServesCall, LoopBounds, Progress
    <2>7. Target(p)' = Cur(p)' /\ ~HasKid(p)' /\ th'[p].k \notin {"boot", "sbrk", "exec"}
      BY <2>0, <2>3 DEF Target, HasKid
    <2>8. Keeps(p)' /\ Life(p)' /\ ~HasKid(p)'
      BY <1>4, <2>1, <2>3, <2>7, UserFacts DEF Keeps, Life, Full, Acts, HasKid, procs
    <2>9. PathShape(p)'
      BY <2>6, <2>8 DEF PathShape
    <2> QED
      BY <1>3, <2>1, <2>3, <2>4, <2>5, <2>7, <2>8, <2>9, UserFacts, OwnStep DEF procs
  <1>6. CASE p # InitProc
    <2>1. /\ status' = [status EXCEPT ![p] = "zombie"]
          /\ parent' = [c \in Proc |-> IF parent[c] = p THEN InitProc ELSE parent[c]]
          /\ th' = [th EXCEPT ![p] = At("dead", "none")]
      BY <1>6 DEF Exit
    <2>2. Sets(p, "dead", "none", 0, 0, 0, NoPage, NoProc)
      BY <1>1, <2>1, PathFields DEF Sets, At
    <2>3. /\ th'[p] \in Path /\ th'[p].at = "dead" /\ th'[p].k = "none" /\ th'[p].lo = 0
          /\ th'[p].pg = NoPage
      <3>1. 0 \in 0 .. NVA
        BY ConstantTypes
      <3> QED
        BY <2>2, <3>1 DEF Sets, Path, Ats, Calling
    <2>4. th' \in [Proc -> Path] /\ \A q \in Proc : q # p => th'[q] = th[q]
      BY <1>1, <2>2, <2>3, OnePathMoves DEF Sets
    <2>5. /\ ProcTypes' /\ status'[p] = "zombie"
          /\ \A q \in Proc : q # p => status'[q] = status[q]
          /\ \A q \in Proc : parent'[q] = parent[q] \/ parent[q] = p
      BY <1>1, <2>1, PathFacts DEF ProcTypes
    <2>6. TypeOK'
      BY <1>2, <2>4, <2>5, PathFacts, TypePartsAfter
    <2>7. PathShape(p)' /\ ~HasKid(p)'
      BY <1>4, <2>3, <2>5, DeadShape
    <2> QED
      BY <1>1, <1>3, <2>3, <2>4, <2>5, <2>6, <2>7, UserFacts, OwnStep
  <1> QED
    BY <1>5, <1>6

\* A process that no path makes or reaps, outside of the path of p.
LEMMA NewChildStep ==
  ASSUME ShapeInv, TypeOK', NEW p \in Proc, InUser(p), NEW c \in Proc, c # p,
         \A q \in Proc : q # p /\ HasKid(q) => th[q].kid # c,
         th[c].at = "dead", th[c].k = "none", th'[c] = th[c],
         th'[p].kid = c, th'[p].k \in {"fork", "wait"},
         th'[p].at \notin {"boot", "dead", "freewalk", "user", "copyout", "remap", "put"} \/ th'[p].k = "wait",
         th'[p].at \notin {"boot", "dead", "freewalk", "user"},
         \A q \in Proc : q # p => th'[q] = th[q],
         \A q \in Proc : /\ sz'[q] = sz[q] /\ active'[q] = active[q] /\ parent'[q] = parent[q]
                         /\ q # c => status'[q] = status[q],
         \A t \in Table : (t # Cur(c) => pa'[t] = pa[t]) /\ perm'[t] = perm[t],
         pa'[Cur(c)][Root] # NoPage, \A t \in {Cur(c)} : Tree(t)',
         th'[p].k = "fork" => status'[c] = "used",
         th'[p].k = "wait" => status'[c] = "zombie" /\ parent[c] = p,
         ServesCall(p)', LoopBounds(p)', Progress(p)'
  PROVE  ShapeInv'
  <1>1. \A q \in Proc : Cur(q)' = Cur(q) /\ Scratch(q)' = Scratch(q)
    BY DEF Cur, Scratch
  <1>2. /\ th[p].at = "user" /\ Acts(p) /\ ~HasKid(p) /\ status[p] = "live" /\ TypeOK
        /\ Full(p) /\ Void(Scratch(p)) /\ Cur(p) \in Table /\ Scratch(p) \in Table
    BY UserFacts
  <1>3. Cur(c) \in Table /\ Scratch(c) \in Table /\ Cur(c)[1] = c /\ Cur(c) # Scratch(c)
    BY <1>2, TheTables
  <1>4. Cur(p) # Cur(c) /\ Scratch(p) # Cur(c)
    BY <1>2, <1>3, TheTables
  <1>5. HasKid(p)' /\ Target(p)' = Cur(c)
    BY <1>1 DEF HasKid, Target
  <1>6. Keeps(p)'
    <2>1. Full(p)' /\ Void(Scratch(p))'
      BY <1>1, <1>2, <1>4 DEF Full, Maps, Void
    <2> QED
      BY <1>1, <1>5, <2>1 DEF Keeps
  <1>7. Life(p)'
    <2>1. status'[p] = "live"
      BY <1>2
    <2> QED
      BY <1>5, <2>1 DEF Life, Acts
  <1>8. PathShape(p)'
    BY <1>6, <1>7 DEF PathShape
  <1>9. PathShape(c)' /\ ~HasKid(c)'
    <2>1. LoopBounds(c) /\ Keeps(c) /\ status'[c] \in {"used", "zombie"}
      BY PathFacts
    <2>2. ServesCall(c)' /\ LoopBounds(c)' /\ Progress(c)'
      BY <2>1 DEF ServesCall, LoopBounds, Progress
    <2>3. Keeps(c)'
      BY <1>1, <1>3, <2>1 DEF Keeps, Acts, Void
    <2>4. Life(c)' /\ ~HasKid(c)'
      BY <1>5, <2>1 DEF Life, Acts, HasKid
    <2> QED
      BY <2>2, <2>3, <2>4 DEF PathShape
  <1>10. \A q \in Proc : Tree(<<q, 0>>)' /\ Tree(<<q, 1>>)'
    <2>1. \A t \in Table : t # Cur(c) => Tree(t)'
      BY DEF ShapeInv, Tree
    <2>2. \A t \in Table : Tree(t)'
      BY <2>1
    <2> QED
      BY <2>2 DEF Table
  <1>11. \A q \in Proc \ {p, c} : Same(q)
    <2> SUFFICES ASSUME NEW q \in Proc, q # p, q # c PROVE Same(q)
      OBVIOUS
    <2>1. \A b \in {0, 1} : <<q, b>> \in Table /\ <<q, b>> # Cur(c)
      BY <1>3 DEF Table
    <2> QED
      BY <2>1 DEF Same
  <1>12. BootAlone'
    <2>1. th'[InitProc].at # "boot" /\ th'[InitProc].k # "boot"
      BY <1>2, Booted, UserFacts, ConstantTypes DEF Booting
    <2> QED
      BY <2>1 DEF BootAlone, Booting
  <1>13. ~HasKid(c)
    BY DEF HasKid
  <1>14. \A q \in Proc \ {p, c} : HasKid(q) => th[q].kid \notin {p, c}
    <2> SUFFICES ASSUME NEW q \in Proc, q # p, q # c, HasKid(q) PROVE th[q].kid # p
      OBVIOUS
    <2>1. th[th[q].kid].at = "dead"
      BY KidIsDead
    <2> QED
      BY <1>2, <2>1
  <1>15. \A q \in Proc \ {p, c} : th[q].k = "wait" => parent'[th[q].kid] = parent[th[q].kid]
    <2> SUFFICES ASSUME NEW q \in Proc, th[q].k = "wait" PROVE parent'[th[q].kid] = parent[th[q].kid]
      OBVIOUS
    <2>1. th[q].kid \in Proc
      BY KidIsDead DEF HasKid
    <2> QED
      BY <2>1
  <1>16. \A d \in {p, c} : HasKid(d) => th[d].kid \in {p, c}
    BY <1>2, <1>13
  <1>17. \A d \in {p, c} : HasKid(d)' => th'[d].kid \in {p, c}
    BY <1>9
  <1>18. \A d, e \in {p, c} : HasKid(d)' /\ HasKid(e)' => d = e
    BY <1>9
  <1>19. \A d \in {p, c} : PathShape(d)' /\ Tree(<<d, 0>>)' /\ Tree(<<d, 1>>)'
    BY <1>8, <1>9, <1>10
  <1>20. {p, c} \in SUBSET Proc
    OBVIOUS
  <1> QED
    BY <1>11, <1>12, <1>14, <1>15, <1>16, <1>17, <1>18, <1>19, <1>20, LocalStep

\* fork() sets out with a slot that nobody uses and an empty page table for the child.
LEMMA ForkShape ==
  ASSUME ShapeInv, NEW p \in Proc, NEW c \in Proc, Fork(p, c), UNCHANGED <<eager, kern>>
  PROVE  ShapeInv'
  <1>1. PICK g \in free : Kalloc(g, Junk) /\ pa' = [pa EXCEPT ![Cur(c)][Root] = g]
    BY DEF Fork
  <1>2. /\ InUser(p) /\ status[c] = "unused" /\ UNCHANGED <<perm, active, sz, parent>>
        /\ status' = [status EXCEPT ![c] = "used"] /\ g \in Page /\ g # NoPage
        /\ c # p /\ TypeOK /\ Cur(c) \in Table /\ eager \in BOOLEAN
    BY PathFacts, TheTables, UserFacts, ConstantTypes DEF Fork, MemTypes
  <1>3. PICK a \in {"alloc", "forkmap"} : Sets(p, a, "fork", 0, sz[p], 0, NoPage, c)
    <2>1. PICK a \in {"alloc", "forkmap"} : th' = [th EXCEPT ![p] = [At(a, "fork") EXCEPT !.n = sz[p], !.kid = c]]
      BY <1>2 DEF Fork
    <2> QED
      BY <1>2, <2>1, PathFields DEF Sets, At
  <1>4. /\ th'[p] \in Path /\ th'[p].at = a /\ th'[p].k = "fork" /\ th'[p].i = 0
        /\ th'[p].n = sz[p] /\ th'[p].lo = 0 /\ th'[p].pg = NoPage /\ th'[p].kid = c
    <2>1. 0 \in 0 .. NVA /\ sz[p] \in 0 .. NVA /\ a \in Ats /\ "fork" \in Calling
      BY <1>2, ConstantTypes, PathFields DEF Ats, Calling
    <2> QED
      BY <1>3, <2>1 DEF Sets, Path
  <1>5. th' \in [Proc -> Path] /\ \A q \in Proc : q # p => th'[q] = th[q]
    BY <1>2, <1>3, <1>4, OnePathMoves DEF Sets
  <1>6. /\ pa'[Cur(c)][Root] = g
        /\ \A s \in Where : s # Root => pa'[Cur(c)][s] = pa[Cur(c)][s]
        /\ \A t \in Table : t # Cur(c) => pa'[t] = pa[t]
    BY <1>1, <1>2, PathFacts, ConstantTypes DEF TableTypes
  <1>7. /\ ProcTypes' /\ status'[c] = "used" /\ \A q \in Proc : q # c => status'[q] = status[q]
    BY <1>2, PathFacts DEF ProcTypes
  <1>8. TypeOK'
    <2>1. MemTypes'
      BY <1>1, <1>2, AllocatorTypes
    <2>2. TableTypes'
      BY <1>1, <1>2, PathFacts, ConstantTypes DEF TableTypes
    <2> QED
      BY <1>5, <1>7, <2>1, <2>2, PathFacts, TypePartsAfter
  <1>9. Void(Cur(c)) /\ th[c].at = "dead" /\ th[c].k = "none"
    <2>1. th[c].at # "boot" /\ th[c].k # "boot" /\ ~Acts(c) /\ Void(Cur(c)) /\ ServesCall(c)
      BY <1>2, PathFacts DEF Life
    <2> QED
      BY <2>1 DEF Acts, ServesCall
  <1>10. \A s \in Where : s # Root => pa'[Cur(c)][s] = NoPage
    BY <1>6, <1>9 DEF Void
  <1>11. ServesCall(p)'
    BY <1>4 DEF ServesCall
  <1>12. LoopBounds(p)'
    <2>1. sz'[p] = sz[p] /\ sz[p] \in 0 .. NVA
      BY <1>2, PathFields
    <2> QED
      BY <1>4, <2>1 DEF LoopBounds
  <1>13. Progress(p)'
    <2>1. Target(p)' = Cur(c)
      BY <1>2, <1>4 DEF Target, Cur
    <2>2. \A b \in VA : b \in Int /\ 0 <= b /\ pa'[Cur(c)][b] = NoPage
      BY <1>10, ConstantTypes
    <2> QED
      BY <1>4, <2>1, <2>2 DEF Progress, Maps
  <1>14. \A t \in {Cur(c)} : Tree(t)'
    BY <1>2, <1>6, <1>10, ConstantTypes DEF Tree
  <1>15. \A q \in Proc : q # p /\ HasKid(q) => th[q].kid # c
    BY <1>2, PathFacts DEF Life, HasKid
  <1> QED
    BY <1>2, <1>4, <1>5, <1>6, <1>7, <1>8, <1>9, <1>11, <1>12, <1>13, <1>14, <1>15, NewChildStep

\* wait() sets out to take down the memory of a child that has exited.
LEMMA WaitShape ==
  ASSUME ShapeInv, NEW p \in Proc, NEW c \in Proc, Wait(p, c), UNCHANGED <<eager, kern>>
  PROVE  ShapeInv'
  <1>1. /\ InUser(p) /\ status[c] = "zombie" /\ parent[c] = p /\ UNCHANGED <<mem, tables, procs>>
        /\ c # p /\ TypeOK /\ Cur(c) \in Table
    BY PathFacts, TheTables, UserFacts DEF Wait
  <1>2. \/ Sets(p, "unmap", "wait", 0, sz[c], 0, NoPage, c)
        \/ \E va \in VA : Sets(p, "copyout", "wait", va, 0, 0, NoPage, c)
    <2>1. th \in [Proc -> Path]
      BY <1>1, PathFields
    <2>2. CASE th' = [th EXCEPT ![p] = [At("unmap", "wait") EXCEPT !.n = sz[c], !.kid = c]]
      BY <2>1, <2>2 DEF Sets, At
    <2>3. ASSUME NEW va \in VA, Copyout(p, "wait", va, c)
          PROVE  Sets(p, "copyout", "wait", va, 0, 0, NoPage, c)
      BY <2>1, <2>3 DEF Sets, At, Copyout
    <2> QED
      BY <2>2, <2>3 DEF Wait
  <1>3. /\ th'[p] \in Path /\ th'[p].k = "wait" /\ th'[p].lo = 0 /\ th'[p].pg = NoPage /\ th'[p].kid = c
        /\ \/ th'[p].at = "unmap" /\ th'[p].i = 0 /\ th'[p].n = sz[c]
           \/ th'[p].at = "copyout" /\ th'[p].i \in VA
    <2>1. 0 \in 0 .. NVA /\ sz[c] \in 0 .. NVA /\ {"unmap", "copyout"} \subseteq Ats /\ "wait" \in Calling
          /\ VA \subseteq 0 .. NVA
      BY <1>1, ConstantTypes, PathFields DEF Ats, Calling
    <2>2. CASE Sets(p, "unmap", "wait", 0, sz[c], 0, NoPage, c)
      BY <2>1, <2>2 DEF Sets, Path
    <2>3. ASSUME NEW va \in VA, Sets(p, "copyout", "wait", va, 0, 0, NoPage, c)
          PROVE  /\ th'[p] \in Path /\ th'[p].k = "wait" /\ th'[p].lo = 0 /\ th'[p].pg = NoPage
                 /\ th'[p].kid = c /\ th'[p].at = "copyout" /\ th'[p].i \in VA
      BY <2>1, <2>3 DEF Sets, Path
    <2> QED
      BY <1>2, <2>2, <2>3
  <1>4. th' \in [Proc -> Path] /\ \A q \in Proc : q # p => th'[q] = th[q]
    <2>1. th' = [th EXCEPT ![p] = th'[p]]
      BY <1>2 DEF Sets
    <2> QED
      BY <1>1, <1>3, <2>1, OnePathMoves
  <1>5. TypeOK'
    BY <1>1, <1>4, PathFacts, AllocatorTypes, TypePartsAfter DEF TableTypes, ProcTypes, tables, procs
  <1>6. \A q \in Proc : q # p /\ HasKid(q) => th[q].kid # c
    <2> SUFFICES ASSUME NEW q \in Proc, HasKid(q), th[q].kid = c PROVE q = p
      OBVIOUS
    <2>1. Life(q)
      BY PathFacts
    <2> QED
      BY <1>1, <2>1 DEF Life, HasKid
  <1>7. Full(c)
    <2>1. ~HasKid(p) /\ Life(c)
      BY <1>1, UserFacts, PathFacts
    <2> QED
      BY <1>1, <1>6, <2>1 DEF Life
  <1>8. th[c].at = "dead" /\ th[c].k = "none"
    <2>1. th[c].at # "boot" /\ th[c].k # "boot" /\ ~Acts(c) /\ ServesCall(c)
      BY <1>1, PathFacts DEF Life
    <2> QED
      BY <2>1 DEF Acts, ServesCall
  <1>9. ServesCall(p)'
    BY <1>3 DEF ServesCall
  <1>10. LoopBounds(p)'
    <2>1. sz[c] \in 0 .. NVA
      BY <1>1, PathFields
    <2> QED
      BY <1>3, <2>1 DEF LoopBounds
  <1>11. Progress(p)'
    <2>1. Target(p)' = Cur(c) /\ Maps(Cur(c), sz[c])
      BY <1>1, <1>3, <1>7 DEF Target, Cur, Full, procs
    <2>2. \A b \in VA : b \in Int /\ 0 <= b
      BY ConstantTypes
    <2> QED
      BY <1>1, <1>3, <2>1, <2>2 DEF Progress, Maps, tables, procs
  <1>12. pa'[Cur(c)][Root] # NoPage /\ \A t \in {Cur(c)} : Tree(t)'
    BY <1>1, <1>7, PathFacts DEF Full, Tree, tables
  <1> QED
    BY <1>1, <1>3, <1>4, <1>5, <1>6, <1>8, <1>9, <1>10, <1>11, <1>12, NewChildStep DEF tables, procs

\* userinit() sets out with an empty page table for the first process.
LEMMA UserInitShape ==
  ASSUME ShapeInv, NEW p \in Proc, UserInit(p), UNCHANGED <<eager, kern>>
  PROVE  ShapeInv'
  <1>1. PICK g \in free : Kalloc(g, Junk) /\ pa' = [pa EXCEPT ![Cur(p)][Root] = g]
    BY DEF UserInit
  <1>2. /\ th[p].at = "boot" /\ Cardinality(kern) \in KernelPages /\ UNCHANGED <<perm, procs>>
        /\ TypeOK /\ g \in Page /\ g # NoPage /\ Cur(p) \in Table /\ p = InitProc
        /\ status[p] = "used" /\ Void(Cur(p)) /\ Void(Scratch(p)) /\ th[p].k = "none"
        /\ Scratch(p) # Cur(p) /\ Scratch(p) \in Table
    <2>1. th[p].at = "boot" /\ Cardinality(kern) \in KernelPages /\ UNCHANGED <<perm, procs>>
      BY DEF UserInit
    <2>2. p = InitProc /\ status[p] = "used" /\ Void(Cur(p))
      BY <2>1, PathFacts DEF Life
    <2>3. th[p].k = "none" /\ Void(Scratch(p))
      BY <2>1, PathFacts DEF Keeps, ServesCall
    <2>4. TypeOK /\ g \in Page /\ g # NoPage
      BY PathFacts, ConstantTypes DEF MemTypes
    <2> QED
      BY <2>1, <2>2, <2>3, <2>4, TheTables
  <1>3. BootAlone /\ Booting
    BY <1>2 DEF ShapeInv, Booting
  <1>4. Sets(p, "alloc", "boot", 0, 1, 0, NoPage, NoProc)
    BY <1>2, PathFields DEF UserInit, Sets, At
  <1>5. /\ th'[p] \in Path /\ th'[p].at = "alloc" /\ th'[p].k = "boot" /\ th'[p].i = 0
        /\ th'[p].n = 1 /\ th'[p].lo = 0 /\ th'[p].pg = NoPage
    <2>1. 0 \in 0 .. NVA /\ 1 \in 0 .. NVA
      BY ConstantTypes
    <2> QED
      BY <1>4, <2>1 DEF Sets, Path, Ats, Calling
  <1>6. th' \in [Proc -> Path] /\ \A q \in Proc : q # p => th'[q] = th[q]
    BY <1>2, <1>4, <1>5, OnePathMoves DEF Sets
  <1>7. /\ pa'[Cur(p)][Root] = g
        /\ \A s \in Where : s # Root => pa'[Cur(p)][s] = pa[Cur(p)][s]
        /\ \A t \in Table : t # Cur(p) => pa'[t] = pa[t]
    BY <1>1, <1>2, PathFacts, ConstantTypes DEF TableTypes
  <1>8. \A s \in Where : s # Root => pa'[Cur(p)][s] = NoPage
    BY <1>2, <1>7 DEF Void
  <1>9. TypeOK'
    <2>1. MemTypes'
      BY <1>1, <1>2, AllocatorTypes
    <2>2. TableTypes'
      BY <1>1, <1>2, PathFacts, ConstantTypes DEF TableTypes
    <2> QED
      BY <1>2, <1>6, <2>1, <2>2, PathFacts, TypePartsAfter DEF ProcTypes, procs
  <1>10. Target(p)' = Cur(p) /\ Cur(p)' = Cur(p) /\ Scratch(p)' = Scratch(p)
    BY <1>2, <1>5 DEF Target, Cur, Scratch, procs
  <1>11. ServesCall(p)' /\ LoopBounds(p)'
    BY <1>5 DEF ServesCall, LoopBounds
  <1>12. Progress(p)'
    <2>1. \A b \in VA : b \in Int /\ 0 <= b /\ pa'[Cur(p)][b] = NoPage
      BY <1>8, ConstantTypes
    <2> QED
      BY <1>5, <1>10, <2>1 DEF Progress, Maps
  <1>13. Keeps(p)'
    BY <1>2, <1>5, <1>7, <1>10 DEF Keeps, Void
  <1>14. Life(p)' /\ ~HasKid(p)'
    BY <1>2, <1>5 DEF Life, Acts, HasKid, procs
  <1>15. BootAlone'
    <2>1. free' = free \ {g} /\ Page \ free = kern
      BY <1>1, <1>2, <1>3 DEF Kalloc, BootAlone
    <2>2. \A q \in Proc : q # InitProc => th'[q].at = "dead"
      BY <1>2, <1>3, <1>6 DEF BootAlone
    <2>3. pa'[Cur(InitProc)'][Root] = g
      BY <1>2, <1>7, <1>10
    <2> QED
      BY <1>2, <1>5, <2>1, <2>2, <2>3 DEF BootAlone
  <1>16. PathShape(p)'
    BY <1>11, <1>12, <1>13, <1>14 DEF PathShape
  <1>17. Tree(<<p, 0>>)' /\ Tree(<<p, 1>>)'
    <2>1. \A t \in {Cur(p)} : Tree(t)'
      BY <1>2, <1>7, <1>8, ConstantTypes DEF Tree
    <2>2. \A t \in Table : t # Cur(p) => Tree(t)'
      BY <1>7 DEF ShapeInv, Tree
    <2> QED
      BY <2>1, <2>2 DEF Table
  <1>18. \A q \in Proc \ {p} : Same(q) /\ ~HasKid(q)
    <2> SUFFICES ASSUME NEW q \in Proc, q # p PROVE Same(q) /\ ~HasKid(q)
      OBVIOUS
    <2>1. \A b \in {0, 1} : <<q, b>> \in Table /\ <<q, b>> # Cur(p)
      BY DEF Table, Cur
    <2>2. th[q].at = "dead" /\ ServesCall(q)
      BY <1>2, <1>3, PathFacts DEF BootAlone
    <2> QED
      BY <1>2, <1>6, <1>7, <2>1, <2>2 DEF Same, procs, HasKid, ServesCall
  <1>19. ~HasKid(p)
    BY <1>2 DEF HasKid
  <1>20. \A q \in Proc \ {p} : HasKid(q) => th[q].kid \notin {p}
    BY <1>18
  <1>21. \A q \in Proc \ {p} : th[q].k = "wait" => parent'[th[q].kid] = parent[th[q].kid]
    BY <1>2 DEF procs
  <1> QED
    BY <1>9, <1>14, <1>15, <1>16, <1>17, <1>18, <1>19, <1>20, <1>21, LocalStep

\* At boot the kernel takes pages for good and leaves those that userinit() needs.
LEMMA KernelAllocShape ==
  ASSUME ShapeInv, KernelAlloc, UNCHANGED eager
  PROVE  ShapeInv'
  <1>1. PICK g \in free : Kalloc(g, Junk) /\ kern' = kern \cup {g}
    BY DEF KernelAlloc
  <1>2. /\ th[InitProc].at = "boot" /\ UNCHANGED <<tables, procs, th>> /\ InitProc \in Proc
        /\ TypeOK /\ MemTypes /\ kern \in SUBSET Page /\ g \in Page /\ BootAlone
    BY PathFacts, ConstantTypes DEF KernelAlloc, MemTypes, ShapeInv
  <1>3. TypeOK'
    <2>1. MemTypes'
      BY <1>1, <1>2, AllocatorTypes
    <2>2. TableTypes' /\ ProcTypes' /\ th' \in [Proc -> Path] /\ eager' \in BOOLEAN
      BY <1>2, PathFacts, PathFields DEF TableTypes, ProcTypes, tables, procs
    <2> QED
      BY <1>1, <1>2, <2>1, <2>2, TypePartsAfter
  <1>4. BootAlone'
    <2>1. free' = free \ {g} /\ Page \ free = kern
      BY <1>1, <1>2 DEF Kalloc, BootAlone
    <2>2. th[InitProc].k = "none"
      BY <1>2, PathFacts DEF ServesCall
    <2>3. \A q \in Proc : q # InitProc => th'[q].at = "dead"
      BY <1>2 DEF BootAlone, Booting
    <2>4. Page \ free' = kern'
      BY <1>1, <1>2, <2>1
    <2> QED
      BY <1>2, <2>2, <2>3, <2>4 DEF BootAlone, Booting
  <1>5. \A q \in Proc : Same(q)
    BY <1>2 DEF Same, tables, procs
  <1>6. \A q \in Proc : parent'[q] = parent[q] /\ (HasKid(q) => th[q].kid \in Proc)
    BY <1>2, KidIsDead DEF procs
  <1>7. \A q \in Proc \ {} : th[q].k = "wait" => parent'[th[q].kid] = parent[th[q].kid]
    BY <1>6 DEF HasKid
  <1>8. {} \in SUBSET Proc
    OBVIOUS
  <1> QED
    BY <1>3, <1>4, <1>5, <1>7, <1>8, LocalStep

\* At the start no table maps anything and nothing runs.
LEMMA InitShape ==
  ASSUME Init PROVE ShapeInv
  <1>1. /\ free = Page /\ kern = {} /\ pa = [t \in Table |-> [s \in Where |-> NoPage]]
        /\ active = [p \in Proc |-> 0] /\ sz = [p \in Proc |-> 0]
        /\ status = [p \in Proc |-> IF p = InitProc THEN "used" ELSE "unused"]
        /\ parent = [p \in Proc |-> NoProc]
        /\ th = [p \in Proc |-> At(IF p = InitProc THEN "boot" ELSE "dead", "none")]
        /\ InitProc \in Proc /\ 0 \in 0 .. NVA
    BY ConstantTypes DEF Init
  <1>2. TypeOK
    <2>1. MemTypes
      BY CowAssumption DEF Init, MemTypes
    <2>2. TableTypes
      <3>1. NoPerm \in Perm
        BY DEF NoPerm, Perm
      <3> QED
        BY <3>1 DEF Init, TableTypes
    <2>3. ProcTypes
      BY <1>1 DEF ProcTypes
    <2>4. th \in [Proc -> Path]
      <3>1. \A a \in {"boot", "dead"} : At(a, "none") \in Path
        BY <1>1 DEF At, Path, Ats, Calling
      <3> QED
        BY <1>1, <3>1
    <2>5. eager \in BOOLEAN /\ kern \in SUBSET Page
      BY <1>1, CowAssumption DEF Init
    <2> QED
      BY <2>1, <2>2, <2>3, <2>4, <2>5, TypeParts
  <1>3. \A t \in Table : Tree(t) /\ Void(t)
    BY <1>1, ConstantTypes DEF Tree, Void
  <1>4. ASSUME NEW p \in Proc
        PROVE  PathShape(p) /\ ~HasKid(p) /\ th[p].at = (IF p = InitProc THEN "boot" ELSE "dead")
               /\ th[p].k = "none"
    <2>1. /\ th[p].at = (IF p = InitProc THEN "boot" ELSE "dead") /\ th[p].k = "none"
          /\ th[p].lo = 0 /\ th[p].pg = NoPage /\ status[p] = (IF p = InitProc THEN "used" ELSE "unused")
      BY <1>1 DEF At
    <2>2. ServesCall(p) /\ LoopBounds(p) /\ Progress(p)
      BY <2>1 DEF ServesCall, LoopBounds, Progress
    <2>3. Void(Cur(p)) /\ Void(Scratch(p))
      BY <1>2, <1>3, TheTables
    <2>4. Keeps(p) /\ Life(p) /\ ~HasKid(p)
      BY <2>1, <2>3 DEF Keeps, Life, Acts, HasKid
    <2> QED
      BY <2>1, <2>2, <2>4 DEF PathShape
  <1>5. KidsApart
    BY <1>4 DEF KidsApart
  <1>6. BootAlone
    BY <1>1, <1>4 DEF BootAlone
  <1> QED
    BY <1>2, <1>3, <1>4, <1>5, <1>6 DEF ShapeInv

\* Every step of every path keeps the shape of all.
LEMMA StepKeepsShape ==
  ASSUME ShapeInv, [Next]_vars PROVE ShapeInv'
  <1>1. ASSUME UNCHANGED eager, KernelAlloc PROVE ShapeInv'
    BY <1>1, KernelAllocShape
  <1>2. ASSUME UNCHANGED eager, NEW p \in Proc, UserStep(p), UNCHANGED kern PROVE ShapeInv'
    <2>1. \A va \in VA, d \in Data : Store(p, va, d) => ShapeInv'
      BY <1>2, StoreShape
    <2>2. \A va \in VA : CowFault(p, va) => ShapeInv'
      BY <1>2, CowFaultShape
    <2>3. \A va \in VA : CowFaultKills(p, va) => ShapeInv'
      BY <1>2, ExitShape DEF CowFaultKills
    <2>4. \A va \in VA : Read(p, va) => ShapeInv'
      BY <1>2, ReadShape
    <2>5. \A c \in Proc : Fork(p, c) => ShapeInv'
      BY <1>2, ForkShape
    <2>6. \A c \in Proc : Wait(p, c) => ShapeInv'
      BY <1>2, WaitShape
    <2>7. \A m \in 0 .. NVA : Sbrk(p, m) => ShapeInv'
      BY <1>2, SbrkShape
    <2>8. Exec(p) => ShapeInv'
      BY <1>2, ExecShape
    <2>9. Quit(p) => ShapeInv'
      BY <1>2, ExitShape DEF Quit
    <2> QED
      BY <1>2, <2>1, <2>2, <2>3, <2>4, <2>5, <2>6, <2>7, <2>8, <2>9 DEF UserStep
  <1>3. ASSUME UNCHANGED eager, NEW p \in Proc, KernelStep(p), UNCHANGED kern PROVE ShapeInv'
    <2>1. UserInit(p) \/ WalkAlloc(p) \/ AllocPage(p) \/ AllocFails(p) => ShapeInv'
      BY <1>3, UserInitShape, WalkAllocShape, AllocPageShape, AllocFailsShape
    <2>2. MapPage(p) \/ MapFails(p) \/ AllocDone(p) => ShapeInv'
      BY <1>3, MapPageShape, MapFailsShape, AllocDoneShape
    <2>3. UnmapPage(p) \/ UnmapDone(p) => ShapeInv'
      BY <1>3, UnmapPageShape, UnmapDoneShape
    <2>4. \A s \in {Leaf, Root} : FreewalkPage(p, s) => ShapeInv'
      BY <1>3, FreewalkPageShape
    <2>5. FreewalkDone(p) \/ ForkMap(p) \/ ForkRef(p) => ShapeInv'
      BY <1>3, FreewalkDoneShape, ForkMapShape, ForkRefShape
    <2>6. ForkMapFails(p) \/ ForkDone(p) => ShapeInv'
      BY <1>3, ForkMapFailsShape, ForkDoneShape
    <2>7. CopyoutCow(p) \/ CopyoutGoesOn(p) \/ Remap(p) => ShapeInv'
      BY <1>3, CopyoutCowShape, CopyoutGoesOnShape, RemapShape
    <2>8. \A d \in Data : Put(p, d) => ShapeInv'
      BY <1>3, PutShape
    <2>9. PutFails(p) \/ ExecCommit(p) => ShapeInv'
      BY <1>3, PutFailsShape, ExecCommitShape
    <2> QED
      BY <1>3, <2>1, <2>2, <2>3, <2>4, <2>5, <2>6, <2>7, <2>8, <2>9 DEF KernelStep
  <1>4. CASE UNCHANGED vars
    <2>1. UNCHANGED <<free, kern, pa, perm, active, sz, status, parent, th>>
      BY <1>4 DEF vars
    <2>2. TypeOK'
      BY <1>4 DEF vars, TypeOK, ShapeInv
    <2>3. BootAlone'
      BY <2>1 DEF BootAlone, Booting, ShapeInv, Cur
    <2>4. \A q \in Proc : Same(q) /\ (HasKid(q) => th[q].kid \in Proc)
      BY <2>1, KidIsDead DEF Same
    <2>5. \A q \in Proc \ {} : th[q].k = "wait" => parent'[th[q].kid] = parent[th[q].kid]
      BY <2>1
    <2>6. {} \in SUBSET Proc
      OBVIOUS
    <2> QED
      BY <2>2, <2>3, <2>4, <2>5, <2>6, LocalStep
  <1> QED
    BY <1>1, <1>2, <1>3, <1>4 DEF Next

\* Whatever allocation fails and however the paths interleave, a page table maps
\* what its path has got to, the child of a fork belongs to that path alone, and
\* boot has memory enough (vm.c uvmalloc, uvmunmap, uvmcopy; proc.c fork, wait).
THEOREM ShapeInvariance == Spec => []ShapeInv
  <1>1. Init => ShapeInv
    BY InitShape
  <1>2. ShapeInv /\ [Next]_vars => ShapeInv'
    BY StepKeepsShape
  <1> QED
    BY <1>1, <1>2, PTL DEF Spec
-----------------------------------------------------------------------------
(* What a page-table entry counts for *)

\* The entry that a path is about to fill, or to count, and what it counts for.
Pends(p) == th[p].at \in {"map", "remap", "forkref"}
Place(p) == <<IF th[p].at = "remap" THEN Cur(p) ELSE Target(p), th[p].i>>
Value(p) == IF th[p].at = "forkref" THEN NoPage ELSE th[p].pg

HeldFacts ==
  /\ Held \in [Slot -> Page \cup {NoPage}]
  /\ \A p \in Proc : Pends(p) => Place(p) \in Table \X Where /\ Held[Place(p)] = Value(p)
  /\ \A t \in Table, s \in Where :
       (\A p \in Proc : Pends(p) => Place(p) # <<t, s>>) => Held[<<t, s>>] = pa[t][s]
  /\ \A g \in Page : Held[<<<<NoProc, 0>>, g>>] = IF g \in kern THEN g ELSE NoPage

\* The entry that a path is about to fill belongs to the tables it may change.
LEMMA PlaceFacts ==
  ASSUME ShapeInv, NEW p \in Proc, Pends(p)
  PROVE  /\ Place(p)[1] \in Table /\ Place(p)[2] \in VA /\ Place(p) = <<Place(p)[1], Place(p)[2]>>
         /\ Place(p)[1][1] \in Reach(p) /\ Place(p) \in Table \X Where /\ Acts(p)
  <1>1. th[p].at \in {"map", "forkref"} => th[p].i < th[p].n
    BY PathFacts DEF LoopBounds
  <1>2. th[p].at = "remap" => th[p].i < sz[p]
    BY PathFacts DEF LoopBounds
  <1>3. th[p].i \in VA
    <2>1. /\ th[p].i \in 0 .. NVA /\ th[p].n \in 0 .. NVA /\ sz[p] \in 0 .. NVA /\ NVA \in Nat
          /\ Pends(p)
      BY PathFacts, PathFields, ConstantTypes
    <2>2. th[p].i < NVA
      BY <1>1, <1>2, <2>1 DEF Pends
    <2> QED
      BY <2>1, <2>2 DEF VA
  <1>4. Cur(p) \in Table /\ Cur(p)[1] = p /\ Target(p) \in Table /\ Target(p)[1] \in Reach(p) /\ p \in Reach(p)
    BY PathFacts, TheTables, OwnTables, ReachTypes
  <1> QED
    BY <1>3, <1>4, ConstantTypes DEF Place, Pends, Acts

\* Two paths work on tables of different processes.
LEMMA ReachApart ==
  ASSUME ShapeInv, NEW p \in Proc, NEW q \in Proc, p # q, Acts(p), Acts(q)
  PROVE  \A x \in Reach(p) : x \notin Reach(q)
  <1>1. ~(HasKid(q) /\ th[q].kid = p) /\ ~(HasKid(p) /\ th[p].kid = q)
    BY KidIsDead DEF Acts
  <1>2. HasKid(p) /\ HasKid(q) => th[p].kid # th[q].kid
    BY DEF ShapeInv, KidsApart
  <1> QED
    BY <1>1, <1>2 DEF Reach

\* No two paths are about to fill the same entry.
LEMMA PlacesApart ==
  ASSUME ShapeInv, NEW p \in Proc, NEW q \in Proc, Pends(p), Pends(q), Place(p) = Place(q)
  PROVE  p = q
  BY PlaceFacts, ReachApart

\* Held, entry by entry: what the table says, but for the entries about to be filled.
LEMMA HeldAt == ShapeInv => HeldFacts
  <1> SUFFICES ASSUME ShapeInv PROVE HeldFacts
    OBVIOUS
  <1>1. TypeOK /\ kern \in SUBSET Page /\ TableTypes /\ NoProc \notin Proc
    BY ConstantTypes, TypeParts DEF ShapeInv
  <1>2. \A t \in Table, s \in Where : t[1] # NoProc /\ <<t, s>> \in Slot
    BY <1>1 DEF Table, Slot
  <1>3. \A g \in Page : <<<<NoProc, 0>>, g>> \in Slot
    BY DEF Slot
  <1>4. \A x \in Slot : (x[1] \in Table /\ x[2] \in Where /\ x = <<x[1], x[2]>>) \/ (\E g \in Page : x = <<<<NoProc, 0>>, g>>)
    BY DEF Slot
  <1>5. \A g \in Page : Held[<<<<NoProc, 0>>, g>>] = IF g \in kern THEN g ELSE NoPage
    BY <1>3 DEF Held
  <1>6. \A p \in Proc, t \in Table, s \in Where :
          (th[p].at = "forkref" /\ t = Target(p) /\ s = th[p].i) \/ Fills(p, t, s)
            <=> Pends(p) /\ Place(p) = <<t, s>>
    BY DEF Fills, Pends, Place
  <1>7. ASSUME NEW p \in Proc, Pends(p) PROVE Place(p) \in Table \X Where /\ Held[Place(p)] = Value(p)
    <2>1. PICK t \in Table, s \in Where : Place(p) = <<t, s>>
      BY <1>7, PlaceFacts
    <2>2. \A q \in Proc : Pends(q) /\ Place(q) = <<t, s>> => q = p
      BY <1>7, <2>1, PlacesApart
    <2>3. CASE th[p].at = "forkref"
      <3>1. th[p].at = "forkref" /\ t = Target(p) /\ s = th[p].i
        BY <2>1, <2>3 DEF Place
      <3> QED
        BY <1>2, <2>1, <2>3, <3>1 DEF Held, Value
    <2>4. CASE th[p].at # "forkref"
      <3>1. Fills(p, t, s)
        BY <1>6, <1>7, <2>1, <2>4
      <3>2. \A q \in Proc : Fills(q, t, s) => q = p
        BY <1>6, <2>2
      <3>3. \A q \in Proc : ~((th[q].at = "forkref") /\ t = Target(q) /\ s = th[q].i)
        BY <1>6, <2>2, <2>4
      <3>4. (CHOOSE q \in Proc : Fills(q, t, s)) = p
        BY <3>1, <3>2
      <3>5. Held[<<t, s>>] = th[p].pg
        BY <1>2, <3>1, <3>3, <3>4 DEF Held
      <3> QED
        BY <2>1, <2>4, <3>5 DEF Value
    <2> QED
      BY <2>1, <2>3, <2>4
  <1>8. ASSUME NEW t \in Table, NEW s \in Where, \A p \in Proc : Pends(p) => Place(p) # <<t, s>>
        PROVE  Held[<<t, s>>] = pa[t][s]
    <2>1. \A q \in Proc : ~((th[q].at = "forkref") /\ t = Target(q) /\ s = th[q].i) /\ ~Fills(q, t, s)
      BY <1>6, <1>8
    <2> QED
      BY <1>2, <2>1 DEF Held
  <1>9. Held \in [Slot -> Page \cup {NoPage}]
    <2>1. ASSUME NEW x \in Slot PROVE Held[x] \in Page \cup {NoPage}
      <3>1. CASE \E g \in Page : x = <<<<NoProc, 0>>, g>>
        BY <1>5, <3>1
      <3>2. CASE \E t \in Table, s \in Where : x = <<t, s>>
        <4>1. PICK t \in Table, s \in Where : x = <<t, s>>
          BY <3>2
        <4>2. CASE \E p \in Proc : Pends(p) /\ Place(p) = <<t, s>>
          <5>1. PICK p \in Proc : Pends(p) /\ Place(p) = <<t, s>>
            BY <4>2
          <5>2. Value(p) \in Page \cup {NoPage}
            BY <1>1, PathFields DEF Value
          <5> QED
            BY <1>7, <4>1, <5>1, <5>2
        <4>3. CASE ~ \E p \in Proc : Pends(p) /\ Place(p) = <<t, s>>
          BY <1>1, <1>8, <4>1, <4>3 DEF TableTypes
        <4> QED
          BY <4>2, <4>3
      <3> QED
        BY <1>4, <3>1, <3>2
    <2>2. Held = [x \in Slot |-> Held[x]]
      BY DEF Held
    <2> QED
      BY <2>1, <2>2
  <1> QED
    BY <1>5, <1>7, <1>8, <1>9 DEF HeldFacts

\* ... and after a step.
LEMMA HeldAfter == ShapeInv' => HeldFacts'
  BY HeldAt, PTL

\* The other paths pend where they did.
OthersStay(p) ==
  \A q \in Proc : q # p =>
    /\ Pends(q)' <=> Pends(q)
    /\ Pends(q) => Place(q)' = Place(q) /\ Value(q)' = Value(q)

\* The step redirects place x to v, and no path comes to pend elsewhere.
Redirects(x, v) ==
  /\ x \in Slot /\ Held \in [Slot -> Page \cup {NoPage}]
  /\ Held' = [Held EXCEPT ![x] = v]
  /\ \A q \in Proc : Pends(q)' /\ Place(q)' # x =>
       Pends(q) /\ Place(q) = Place(q)' /\ Value(q) = Value(q)'

\* A step of path p that changes at most the entry at <<t, s>> and what pends there.
LEMMA HeldMoves ==
  ASSUME ShapeInv, ShapeInv', NEW p \in Proc, OthersStay(p), kern' = kern,
         NEW t \in Table, NEW s \in Where,
         \A q \in Proc : q # p /\ Pends(q) => Place(q) # <<t, s>>,
         \A u \in Table, w \in Where : <<u, w>> # <<t, s>> => pa'[u][w] = pa[u][w],
         Pends(p) => Place(p) = <<t, s>>,
         Pends(p)' => Place(p)' = <<t, s>>
  PROVE  /\ Redirects(<<t, s>>, Held'[<<t, s>>])
         /\ Held[<<t, s>>] = IF Pends(p) THEN Value(p) ELSE pa[t][s]
         /\ Held'[<<t, s>>] = IF Pends(p)' THEN Value(p)' ELSE pa'[t][s]
  <1>1. HeldFacts /\ HeldFacts'
    BY HeldAt, HeldAfter
  <1>2. <<t, s>> \in Slot
    BY DEF Slot
  <1>3. Held[<<t, s>>] = IF Pends(p) THEN Value(p) ELSE pa[t][s]
    BY <1>1 DEF HeldFacts
  <1>4. \A q \in Proc : q # p /\ Pends(q)' => Place(q)' # <<t, s>>
    BY DEF OthersStay
  <1>5. Held'[<<t, s>>] = IF Pends(p)' THEN Value(p)' ELSE pa'[t][s]
    BY <1>1, <1>4 DEF HeldFacts
  <1>6. ASSUME NEW u \in Table, NEW w \in Where, <<u, w>> # <<t, s>>
        PROVE  Held'[<<u, w>>] = Held[<<u, w>>]
    <2>1. CASE \E q \in Proc : Pends(q) /\ Place(q) = <<u, w>>
      <3>1. PICK q \in Proc : Pends(q) /\ Place(q) = <<u, w>>
        BY <2>1
      <3>2. q # p
        BY <1>6, <3>1
      <3>3. Pends(q)' /\ Place(q)' = <<u, w>> /\ Value(q)' = Value(q)
        BY <3>1, <3>2 DEF OthersStay
      <3> QED
        BY <1>1, <3>1, <3>3 DEF HeldFacts
    <2>2. CASE ~ \E q \in Proc : Pends(q) /\ Place(q) = <<u, w>>
      <3>1. \A q \in Proc : Pends(q)' => Place(q)' # <<u, w>>
        BY <1>6, <2>2 DEF OthersStay
      <3> QED
        BY <1>1, <1>6, <2>2, <3>1 DEF HeldFacts
    <2> QED
      BY <2>1, <2>2
  <1>7. \A g \in Page : Held'[<<<<NoProc, 0>>, g>>] = Held[<<<<NoProc, 0>>, g>>]
    BY <1>1 DEF HeldFacts
  <1>8. \A x \in Slot : x # <<t, s>> => Held'[x] = Held[x]
    BY <1>6, <1>7 DEF Slot
  <1>9. Held \in [Slot -> Page \cup {NoPage}] /\ Held' \in [Slot -> Page \cup {NoPage}]
    BY <1>1 DEF HeldFacts, Slot
  <1>10. Held' = [Held EXCEPT ![<<t, s>>] = Held'[<<t, s>>]]
    BY <1>2, <1>8, <1>9
  <1>11. \A q \in Proc : Pends(q)' /\ Place(q)' # <<t, s>> =>
           Pends(q) /\ Place(q) = Place(q)' /\ Value(q) = Value(q)'
    BY DEF OthersStay
  <1> QED
    BY <1>2, <1>3, <1>5, <1>9, <1>10, <1>11 DEF Redirects
-----------------------------------------------------------------------------
(* Every step is a step of the allocator's contract, or none *)

\* Paths whose variables stay, and whose tables stay theirs, pend where they did.
LEMMA StayLemma ==
  ASSUME NEW p \in Proc, \A q \in Proc : q # p => th'[q] = th[q], UNCHANGED active
  PROVE  OthersStay(p)
  BY DEF OthersStay, Pends, Place, Value, Target, Cur, Scratch

\* No other path pends in the tables that a path may change.
LEMMA Foreign ==
  ASSUME ShapeInv, NEW p \in Proc, Acts(p), NEW t \in Table, t[1] \in Reach(p), NEW s
  PROVE  \A q \in Proc : q # p /\ Pends(q) => Place(q) # <<t, s>>
  BY PlaceFacts, ReachApart

\* A step that takes and gives back no reference, and leaves nothing pending.
Quiet(p) == /\ OthersStay(p) /\ UNCHANGED <<free, ref, pa>>
            /\ ~Pends(p) /\ ~Pends(p)'

\* A quiet step is none of the allocator's.
LEMMA QuietStep ==
  ASSUME ShapeInv, ShapeInv', UNCHANGED kern, NEW p \in Proc, Quiet(p)
  PROVE  UNCHANGED Refs!vars
  <1> DEFINE t == Cur(p)
  <1>1. t \in Table /\ Root \in Where /\ Root \notin VA
    BY PathFacts, TheTables, ConstantTypes
  <1>2. \A q \in Proc : Pends(q) => Place(q) # <<t, Root>>
    BY <1>1, PlaceFacts
  <1> HIDE DEF t
  <1>3. /\ Redirects(<<t, Root>>, Held'[<<t, Root>>])
        /\ Held[<<t, Root>>] = pa[t][Root] /\ Held'[<<t, Root>>] = pa'[t][Root]
    BY <1>1, <1>2, HeldMoves DEF Quiet
  <1>4. Held' = Held
    BY <1>3 DEF Redirects, Quiet
  <1> QED
    BY <1>4 DEF Refs!vars, Quiet

\* ... and one that only moves what pends at <<t, s>>.
LEMMA MoveStep ==
  ASSUME ShapeInv, ShapeInv', NEW p \in Proc, Acts(p), OthersStay(p), UNCHANGED kern,
         NEW t \in Table, NEW s \in Where, t[1] \in Reach(p),
         \A u \in Table, w \in Where : <<u, w>> # <<t, s>> => pa'[u][w] = pa[u][w],
         Pends(p) => Place(p) = <<t, s>>,
         Pends(p)' => Place(p)' = <<t, s>>
  PROVE  /\ Redirects(<<t, s>>, Held'[<<t, s>>])
         /\ Held[<<t, s>>] = IF Pends(p) THEN Value(p) ELSE pa[t][s]
         /\ Held'[<<t, s>>] = IF Pends(p)' THEN Value(p)' ELSE pa'[t][s]
  BY Foreign, HeldMoves

\* A step that calls kalloc() for one place is the contract's Alloc, ...
LEMMA TakesPage ==
  ASSUME NEW g \in Page, NEW d, Kalloc(g, d), NEW x, Held[x] = NoPage, Redirects(x, g)
  PROVE  Refs!Next
  BY DEF Refs!Next, Refs!Alloc, Refs!Refer, Kalloc, Redirects

\* ... one that calls kfree() for the page of one place its Drop, ...
LEMMA DropsPage ==
  ASSUME NEW g \in Page, Kfree(g), NEW x, Held[x] = g, Redirects(x, NoPage)
  PROVE  Refs!Next
  BY DEF Refs!Next, Refs!Drop, Refs!Holders, Kfree, Redirects

\* ... one that calls krefpage() for a further place its Share, ...
LEMMA SharesPage ==
  ASSUME NEW g \in Page, Krefpage(g), NEW y \in Slot, Held[y] = g,
         NEW x, Held[x] = NoPage, Redirects(x, g)
  PROVE  Refs!Next
  BY DEF Refs!Next, Refs!Share, Refs!Refer, Refs!Holders, Krefpage, Redirects

\* ... and one that copies a shared page for one of its places its Copy.
LEMMA CopiesPage ==
  ASSUME TypeOK, NEW g \in Page, NEW h \in Page, KcopyTo(g, h), NEW x, Held[x] = g, Redirects(x, h)
  PROVE  Refs!Next
  <1>1. ref[g] > 1
    <2>1. ref[g] \in Int
      BY DEF TypeOK
    <2> QED
      BY <2>1 DEF KcopyTo, SoleOwner
  <1> QED
    BY <1>1 DEF Refs!Next, Refs!Copy, Refs!Holders, KcopyTo, Redirects

\* What the properties of the allocator are to be kept by.
RefStep == Refs!Next \/ UNCHANGED Refs!vars

\* The inner page table that walk() adds counts for the entry that refers to it.
LEMMA WalkAllocRefs ==
  ASSUME ShapeInv, ShapeInv', NEW p \in Proc, WalkAlloc(p), UNCHANGED kern
  PROVE  RefStep /\ \E g \in free : Redirects(<<Target(p), Leaf>>, g)
  <1>1. PICK g \in free : Kalloc(g, Junk) /\ pa' = [pa EXCEPT ![Target(p)][Leaf] = g]
    BY DEF WalkAlloc
  <1> DEFINE t == Target(p)
  <1>2. /\ th[p].at \in {"map", "forkmap"} /\ pa[t][Leaf] = NoPage /\ UNCHANGED <<procs, th>>
        /\ Acts(p) /\ g \in Page /\ t \in Table /\ t[1] \in Reach(p) /\ Leaf \in Where /\ Leaf \notin VA
    BY PathFacts, OwnTables, ConstantTypes DEF WalkAlloc, NeedsWalk, Acts, MemTypes
  <1> HIDE DEF t
  <1>3. OthersStay(p)
    BY <1>2, StayLemma DEF procs
  <1>4. pa'[t][Leaf] = g /\ \A u \in Table, w \in Where : <<u, w>> # <<t, Leaf>> => pa'[u][w] = pa[u][w]
    BY <1>1, <1>2, PathFacts DEF TableTypes, t
  <1>5. HeldFacts /\ HeldFacts'
    BY HeldAt, HeldAfter
  <1>6. \A q \in Proc : (Pends(q) => Place(q) # <<t, Leaf>>) /\ (Pends(q)' <=> Pends(q)) /\ Place(q)' = Place(q)
    BY <1>2, PlaceFacts DEF Pends, Place, Target, Cur, Scratch, procs
  <1>7. Held[<<t, Leaf>>] = NoPage /\ Held'[<<t, Leaf>>] = g /\ <<t, Leaf>> \in Slot
    BY <1>2, <1>4, <1>5, <1>6 DEF HeldFacts, Slot
  <1>8. Held' = [Held EXCEPT ![<<t, Leaf>>] = g]
    <2>1. \A u \in Table, w \in Where : <<u, w>> # <<t, Leaf>> => Held'[<<u, w>>] = Held[<<u, w>>]
      <3> SUFFICES ASSUME NEW u \in Table, NEW w \in Where, <<u, w>> # <<t, Leaf>>
                   PROVE  Held'[<<u, w>>] = Held[<<u, w>>]
        OBVIOUS
      <3>1. CASE \E q \in Proc : Pends(q) /\ Place(q) = <<u, w>>
        <4>1. PICK q \in Proc : Pends(q) /\ Place(q) = <<u, w>>
          BY <3>1
        <4>2. Pends(q)' /\ Place(q)' = <<u, w>> /\ Value(q)' = Value(q)
          BY <1>2, <1>6, <4>1 DEF Value
        <4> QED
          BY <1>5, <4>1, <4>2 DEF HeldFacts
      <3>2. CASE ~ \E q \in Proc : Pends(q) /\ Place(q) = <<u, w>>
        BY <1>4, <1>5, <1>6, <3>2 DEF HeldFacts
      <3> QED
        BY <3>1, <3>2
    <2>2. \A x \in Slot : x # <<t, Leaf>> => Held'[x] = Held[x]
      BY <1>5, <2>1 DEF HeldFacts, Slot
    <2> QED
      BY <1>5, <1>7, <2>2 DEF HeldFacts, Slot
  <1>9. Redirects(<<t, Leaf>>, g)
    <2>1. \A q \in Proc : (Pends(q)' <=> Pends(q)) /\ Place(q)' = Place(q) /\ Value(q)' = Value(q)
      BY <1>2, <1>6 DEF Value
    <2> QED
      BY <1>5, <1>7, <1>8, <2>1 DEF Redirects, HeldFacts
  <1> QED
    BY <1>1, <1>2, <1>7, <1>9, TakesPage DEF RefStep, t

\* The page that waits to be mapped counts for the entry it is meant for.
LEMMA AllocPageRefs ==
  ASSUME ShapeInv, ShapeInv', NEW p \in Proc, AllocPage(p), UNCHANGED kern
  PROVE  RefStep /\ \E g \in free : Redirects(<<Target(p), th[p].i>>, g)
  <1>1. PICK g \in free : Kalloc(g, NewData(p)) /\ th' = [th EXCEPT ![p].at = "map", ![p].pg = g]
    BY DEF AllocPage
  <1> DEFINE t == Target(p)
             s == th[p].i
  <1>2. /\ th[p].at = "alloc" /\ th[p].i < th[p].n /\ UNCHANGED <<tables, procs>> /\ g \in Page
        /\ Acts(p) /\ t \in Table /\ t[1] \in Reach(p) /\ s \in Where /\ s \in VA /\ s \in Int
    BY PathFacts, OwnTables, IndexInTable DEF AllocPage, Acts, MemTypes
  <1>3. /\ th'[p].at = "map" /\ th'[p].pg = g /\ th'[p].i = s /\ th'[p].k = th[p].k /\ th'[p].kid = th[p].kid
        /\ \A q \in Proc : q # p => th'[q] = th[q]
    BY <1>1, PathFacts, PathFields
  <1>4. pa[t][s] = NoPage
    BY <1>2, PathFacts DEF Progress, Maps
  <1>5. ~Pends(p) /\ Pends(p)' /\ Place(p)' = <<t, s>> /\ Value(p)' = g /\ OthersStay(p)
    <2>1. Target(p)' = t
      BY <1>2, <1>3, SameTarget DEF procs
    <2> QED
      BY <1>2, <1>3, <2>1, StayLemma DEF Pends, Place, Value, procs
  <1> HIDE DEF t, s
  <1>6. Redirects(<<t, s>>, g) /\ Held[<<t, s>>] = NoPage
    BY <1>2, <1>4, <1>5, MoveStep DEF tables
  <1> QED
    BY <1>1, <1>2, <1>6, TakesPage DEF RefStep, t, s

\* Mapping a page that is held moves no reference: it counts for the entry already.
LEMMA MapPageRefs ==
  ASSUME ShapeInv, ShapeInv', NEW p \in Proc, MapPage(p), UNCHANGED kern
  PROVE  UNCHANGED Refs!vars /\ ~Pends(p)' /\ OthersStay(p)
  <1> DEFINE t == Target(p)
             s == th[p].i
  <1>1. /\ th[p].at = "map" /\ Acts(p) /\ Pends(p) /\ Place(p) = <<t, s>> /\ Value(p) = th[p].pg
        /\ t \in Table /\ t[1] \in Reach(p) /\ s \in Where
    <2>1. th[p].at = "map" /\ Pends(p)
      BY DEF MapPage, Pends
    <2> QED
      BY <2>1, PlaceFacts, OwnTables, ConstantTypes DEF Place, Value
  <1>2. pa[t][s] = NoPage
    <2>1. s \in VA /\ s \in Int
      BY <1>1, PlaceFacts, ConstantTypes
    <2> QED
      BY <1>1, <2>1, PathFacts DEF Progress, Maps
  <1>3. /\ pa' = [pa EXCEPT ![t][s] = th[p].pg]
        /\ th' = [th EXCEPT ![p].at = "alloc", ![p].i = s + 1, ![p].pg = NoPage]
        /\ UNCHANGED <<mem, procs>>
    BY <1>2 DEF MapPage
  <1> HIDE DEF t, s
  <1>4. /\ ~Pends(p)' /\ OthersStay(p)
    <2>1. th'[p].at = "alloc" /\ \A q \in Proc : q # p => th'[q] = th[q]
      BY <1>3, PathFacts, PathFields
    <2> QED
      BY <1>3, <2>1, StayLemma DEF Pends, procs
  <1>5. pa'[t][s] = th[p].pg /\ \A u \in Table, w \in Where : <<u, w>> # <<t, s>> => pa'[u][w] = pa[u][w]
    BY <1>1, <1>3, PathFacts DEF TableTypes
  <1>6. Redirects(<<t, s>>, Held'[<<t, s>>]) /\ Held[<<t, s>>] = Held'[<<t, s>>]
    BY <1>1, <1>4, <1>5, MoveStep
  <1>7. Held' = Held
    BY <1>6 DEF Redirects
  <1> QED
    BY <1>3, <1>4, <1>7 DEF Refs!vars, mem

\* The other paths pend where they did when they and their tables stay.
LEMMA StayApart ==
  ASSUME ShapeInv, NEW p \in Proc, Acts(p), \A q \in Proc : q # p => th'[q] = th[q],
         \A q \in Proc : q \notin Reach(p) => active'[q] = active[q]
  PROVE  OthersStay(p)
  <1> SUFFICES ASSUME NEW q \in Proc, q # p
               PROVE  /\ Pends(q)' <=> Pends(q)
                      /\ Pends(q) => Place(q)' = Place(q) /\ Value(q)' = Value(q)
    BY DEF OthersStay
  <1>1. th'[q] = th[q]
    OBVIOUS
  <1>2. (Pends(q)' <=> Pends(q)) /\ Value(q)' = Value(q)
    BY <1>1 DEF Pends, Value
  <1>3. ASSUME Pends(q) PROVE Place(q)' = Place(q)
    <2>1. Acts(q) /\ q \in Reach(q) /\ q \notin Reach(p)
      BY <1>3, PlaceFacts, ReachTypes, ReachApart
    <2>2. HasKid(q) => th[q].kid \in Proc /\ th[q].kid \notin Reach(p)
      BY Elsewhere, KidIsDead
    <2> QED
      BY <1>1, <2>1, <2>2 DEF Place, Target, Cur, Scratch, HasKid
  <1> QED
    BY <1>2, <1>3

\* The steps that neither take nor give back a reference.
LEMMA QuietPath ==
  ASSUME NEW p \in Proc, UNCHANGED <<free, ref, pa, active>>,
         \A q \in Proc : q # p => th'[q] = th[q],
         ~Pends(p), ~Pends(p)'
  PROVE  Quiet(p)
  BY StayLemma DEF Quiet

\* The ends of the loops, and an allocation that fails, ...
LEMMA QuietAllocation ==
  ASSUME ShapeInv, NEW p \in Proc,
         AllocFails(p) \/ UnmapDone(p) \/ ForkMapFails(p) \/ AllocDone(p)
  PROVE  Quiet(p)
  <1>1. th \in [Proc -> Path] /\ UNCHANGED <<free, ref, pa, active>>
    BY PathFields, PathFacts DEF AllocFails, UnmapDone, ForkMapFails, AllocDone, mem, tables, procs
  <1>2. th[p].at \in {"alloc", "unmap", "forkmap"}
    BY DEF AllocFails, UnmapDone, ForkMapFails, AllocDone
  <1>3. /\ \A q \in Proc : q # p => th'[q] = th[q]
        /\ th'[p].at \in {"unmap", "user", "freewalk", "copyout"}
    <2>1. CASE AllocFails(p) \/ ForkMapFails(p)
      BY <1>1, <2>1 DEF AllocFails, ForkMapFails, GiveBack, Path
    <2>2. CASE UnmapDone(p)
      <3>1. Return(p) \/ Goto(p, "freewalk")
        BY <2>2 DEF UnmapDone
      <3>2. CASE Return(p)
        BY <1>1, <3>2 DEF Return, User, At
      <3>3. CASE Goto(p, "freewalk")
        BY <1>1, <3>3 DEF Goto, Path
      <3> QED
        BY <3>1, <3>2, <3>3
    <2>3. CASE AllocDone(p)
      <3>1. Return(p) \/ Copyout(p, "exec", Len(Image) - 1, NoProc)
        BY <2>3 DEF AllocDone
      <3>2. CASE Return(p)
        BY <1>1, <3>2 DEF Return, User, At
      <3>3. CASE Copyout(p, "exec", Len(Image) - 1, NoProc)
        BY <1>1, <3>3 DEF Copyout, At
      <3> QED
        BY <3>1, <3>2, <3>3
    <2> QED
      BY <2>1, <2>2, <2>3
  <1> QED
    BY <1>1, <1>2, <1>3, QuietPath DEF Pends

\* ... the calls that only start, and the writes of copyout(), ...
LEMMA QuietCalls ==
  ASSUME ShapeInv, NEW p \in Proc,
         \/ \E va \in VA : Read(p, va) \/ \E d \in Data : Store(p, va, d)
         \/ CopyoutGoesOn(p) \/ PutFails(p) \/ \E d \in Data : Put(p, d)
         \/ \E c \in Proc : Wait(p, c)
         \/ \E m \in 0 .. NVA : Sbrk(p, m)
  PROVE  Quiet(p)
  <1>1. th \in [Proc -> Path]
    BY PathFields DEF ShapeInv
  <1>2. UNCHANGED <<free, ref, pa, active>> /\ th[p].at \in {"user", "copyout", "put"}
    <2>1. ASSUME NEW va \in VA, Read(p, va)
          PROVE  UNCHANGED <<free, ref, pa, active>> /\ InUser(p)
      BY <2>1, Zenon DEF Read, mem, tables, procs
    <2>2. ASSUME NEW va \in VA, NEW d \in Data, Store(p, va, d)
          PROVE  UNCHANGED <<free, ref, pa, active>> /\ InUser(p)
      BY <2>2, Zenon DEF Store, tables, procs
    <2>3. ASSUME CopyoutGoesOn(p)
          PROVE  UNCHANGED <<free, ref, pa, active>> /\ th[p].at = "copyout"
      BY <2>3, Zenon DEF CopyoutGoesOn, mem, tables, procs
    <2>4. ASSUME PutFails(p)
          PROVE  UNCHANGED <<free, ref, pa, active>> /\ th[p].at = "put"
      BY <2>4, Zenon DEF PutFails, mem, tables, procs
    <2>5. ASSUME NEW d \in Data, Put(p, d)
          PROVE  UNCHANGED <<free, ref, pa, active>> /\ th[p].at = "put"
      BY <2>5, Zenon DEF Put, tables, procs
    <2>6. ASSUME NEW c \in Proc, Wait(p, c)
          PROVE  UNCHANGED <<free, ref, pa, active>> /\ InUser(p)
      BY <2>6, Zenon DEF Wait, mem, tables, procs
    <2>7. ASSUME NEW m \in 0 .. NVA, Sbrk(p, m)
          PROVE  UNCHANGED <<free, ref, pa, active>> /\ InUser(p)
      BY <2>7, Zenon DEF Sbrk, mem, tables, procs
    <2>8. InUser(p) => th[p].at = "user"
      BY DEF InUser
    <2> QED
      BY <2>1, <2>2, <2>3, <2>4, <2>5, <2>6, <2>7, <2>8
  <1>3. /\ \A q \in Proc : q # p => th'[q] = th[q]
        /\ th'[p].at \in {"unmap", "user", "put", "alloc", "commit", "copyout"}
    <2>1. CASE \E va \in VA : Read(p, va)
      BY <1>1, <2>1 DEF Read, Copyout, At
    <2>2. CASE \E va \in VA, d \in Data : Store(p, va, d)
      BY <1>2, <2>2 DEF Store, InUser
    <2>3. CASE CopyoutGoesOn(p)
      BY <1>1, <2>3 DEF CopyoutGoesOn, Goto, Path
    <2>4. CASE PutFails(p)
      BY <1>1, <2>4 DEF PutFails, Return, User, At
    <2>5. CASE \E d \in Data : Put(p, d)
      BY <1>1, <2>5 DEF Put, User, At, Path
    <2>6. CASE \E c \in Proc : Wait(p, c)
      BY <1>1, <2>6 DEF Wait, Copyout, At
    <2>7. CASE \E m \in 0 .. NVA : Sbrk(p, m)
      BY <1>1, <2>7 DEF Sbrk, At
    <2> QED
      BY <2>1, <2>2, <2>3, <2>4, <2>5, <2>6, <2>7
  <1>4. ~Pends(p) /\ ~Pends(p)'
    BY <1>2, <1>3 DEF Pends
  <1> QED
    BY <1>2, <1>3, <1>4, QuietPath

\* ... exit(), ...
LEMMA QuietExit ==
  ASSUME ShapeInv, NEW p \in Proc, InUser(p), Exit(p)
  PROVE  Quiet(p)
  <1>1. th \in [Proc -> Path] /\ UNCHANGED <<free, ref, pa, active>> /\ th[p].at = "user"
    <2>1. UNCHANGED <<mem, tables, active>>
      <3>1. CASE p = InitProc
        BY <3>1 DEF Exit, Panic, procs
      <3>2. CASE p # InitProc
        BY <3>2 DEF Exit
      <3> QED
        BY <3>1, <3>2
    <2> QED
      BY <2>1, PathFields, PathFacts DEF InUser, mem, tables
  <1>2. /\ \A q \in Proc : q # p => th'[q] = th[q]
        /\ th'[p].at \in {"panic", "dead"}
    <2>1. CASE p = InitProc
      <3>1. th' = [th EXCEPT ![p] = At("panic", "init exiting")]
        BY <2>1 DEF Exit, Panic
      <3>2. PICK why : why = "init exiting"
        OBVIOUS
      <3>3. th' = [th EXCEPT ![p] = At("panic", why)]
        BY <3>1, <3>2
      <3> QED
        BY <1>1, <3>3 DEF At
    <2>2. CASE p # InitProc
      <3>1. th' = [th EXCEPT ![p] = At("dead", "none")]
        BY <2>2 DEF Exit
      <3> QED
        BY <1>1, <3>1 DEF At
    <2> QED
      BY <2>1, <2>2
  <1> QED
    BY <1>1, <1>2, QuietPath DEF Pends

\* ... the ends of freewalk(), and exec() changing page tables, ...
LEMMA QuietReturns ==
  ASSUME ShapeInv, NEW p \in Proc, FreewalkDone(p) \/ ExecCommit(p)
  PROVE  Quiet(p)
  <1>1. /\ th \in [Proc -> Path] /\ UNCHANGED <<free, ref, pa>> /\ th[p].at \in {"freewalk", "commit"}
        /\ TypeOK /\ active \in [Proc -> {0, 1}]
    BY PathFields, PathFacts DEF FreewalkDone, ExecCommit, ProcTypes, mem, tables
  <1>2. /\ \A q \in Proc : q # p => th'[q] = th[q]
        /\ th'[p].at \in {"user", "unmap"}
    BY <1>1 DEF FreewalkDone, ExecCommit, Return, User, At
  <1>3. \A q \in Proc : q \notin Reach(p) => active'[q] = active[q]
    <2>1. CASE FreewalkDone(p)
      <3>1. th[p].k = "exec" \/ HasKid(p)
        BY <2>1, PathFacts DEF FreewalkDone, ServesCall, HasKid
      <3> QED
        BY <1>1, <2>1, <3>1 DEF FreewalkDone, Reach, procs
    <2>2. CASE ExecCommit(p)
      BY <1>1, <2>2, ReachTypes DEF ExecCommit
    <2> QED
      BY <2>1, <2>2
  <1>4. OthersStay(p)
    BY <1>1, <1>2, <1>3, StayApart DEF Acts
  <1> QED
    BY <1>1, <1>2, <1>4 DEF Pends, Quiet

\* ... and the end of fork() move no reference.
LEMMA QuietForkDone ==
  ASSUME ShapeInv, NEW p \in Proc, ForkDone(p)
  PROVE  Quiet(p)
  <1>1. PICK c \in Proc : c = th[p].kid
    <2>1. HasKid(p)
      BY DEF ForkDone, HasKid
    <2> QED
      BY <2>1, KidIsDead
  <1>2. c # p /\ th[c].at = "dead" /\ th[p].at \in {"forkmap", "alloc"} /\ th \in [Proc -> Path]
        /\ UNCHANGED <<free, ref, pa, active>>
    BY <1>1, KidIsDead, PathFacts, PathFields DEF ForkDone, HasKid, mem, tables
  <1>3. th'[p].at = "user" /\ th'[c].at = "user" /\ \A q \in Proc : q # p /\ q # c => th'[q] = th[q]
    BY <1>1, <1>2 DEF ForkDone, User, At
  <1>4. OthersStay(p)
    BY <1>2, <1>3 DEF OthersStay, Pends, Place, Value, Target, Cur, Scratch
  <1> QED
    BY <1>2, <1>3, <1>4 DEF Pends, Quiet

\* A page held in a variable is given back, as its table cannot be extended.
LEMMA MapFailsRefs ==
  ASSUME ShapeInv, ShapeInv', NEW p \in Proc, MapFails(p), UNCHANGED kern
  PROVE  RefStep /\ Redirects(<<Target(p), th[p].i>>, NoPage)
  <1> DEFINE t == Target(p)
             s == th[p].i
             g == th[p].pg
  <1>1. /\ th[p].at = "map" /\ Pends(p) /\ Acts(p) /\ Place(p) = <<t, s>> /\ Value(p) = g
        /\ t \in Table /\ t[1] \in Reach(p) /\ s \in Where
    <2>1. th[p].at = "map" /\ Pends(p)
      BY DEF MapFails, Pends
    <2> QED
      BY <2>1, PlaceFacts, OwnTables, ConstantTypes DEF Place, Value
  <1>2. pa[t][s] = NoPage /\ g \in Page
    <2>1. s \in VA /\ s \in Int
      BY <1>1, PlaceFacts, ConstantTypes
    <2>2. Progress(p) /\ LoopBounds(p) /\ g \in Page \cup {NoPage}
      BY PathFacts, PathFields
    <2> QED
      BY <1>1, <2>1, <2>2 DEF Progress, Maps, LoopBounds
  <1>3. Kfree(g) /\ UNCHANGED <<tables, procs>> /\ th \in [Proc -> Path] /\ GiveBack(p)
    BY PathFields, PathFacts DEF MapFails
  <1> HIDE DEF t, s, g
  <1>4. ~Pends(p)' /\ OthersStay(p)
    <2>1. th'[p].at = "unmap" /\ \A q \in Proc : q # p => th'[q] = th[q]
      BY <1>3 DEF GiveBack, Path
    <2> QED
      BY <1>3, <2>1, StayLemma DEF Pends, procs
  <1>5. Redirects(<<t, s>>, NoPage) /\ Held[<<t, s>>] = g
    BY <1>1, <1>2, <1>3, <1>4, MoveStep DEF tables
  <1> QED
    BY <1>2, <1>3, <1>5, DropsPage DEF RefStep, t, s

\* An entry is cleared and its page given back.
LEMMA ClearsEntry ==
  ASSUME ShapeInv, ShapeInv', NEW p \in Proc, Acts(p), ~Pends(p), ~Pends(p)', UNCHANGED kern,
         OthersStay(p), NEW t \in Table, NEW s \in Where, t[1] \in Reach(p),
         NEW g \in Page, pa[t][s] = g, Kfree(g), pa' = [pa EXCEPT ![t][s] = NoPage]
  PROVE  RefStep /\ Redirects(<<t, s>>, NoPage)
  <1>1. pa'[t][s] = NoPage /\ \A u \in Table, w \in Where : <<u, w>> # <<t, s>> => pa'[u][w] = pa[u][w]
    BY PathFacts DEF TableTypes
  <1>2. Redirects(<<t, s>>, NoPage) /\ Held[<<t, s>>] = g
    BY <1>1, MoveStep
  <1> QED
    BY <1>2, DropsPage DEF RefStep

\* uvmunmap() drops the reference of the entry it clears.
LEMMA UnmapPageRefs ==
  ASSUME ShapeInv, ShapeInv', NEW p \in Proc, UnmapPage(p), UNCHANGED kern
  PROVE  RefStep /\ Redirects(<<Target(p), th[p].i>>, NoPage)
  <1> DEFINE t == Target(p)
             s == th[p].i
  <1>1. /\ th[p].at = "unmap" /\ s < th[p].n /\ ~Pends(p) /\ Acts(p)
        /\ t \in Table /\ t[1] \in Reach(p)
    BY OwnTables DEF UnmapPage, Pends, Acts
  <1>2. s \in VA /\ s \in Where /\ s \in Int /\ TypeOK /\ th[p].lo \in Int /\ th \in [Proc -> Path]
    BY <1>1, IndexInTable, PathFacts, PathFields
  <1>3. pa[t][s] # NoPage
    <2>1. th[p].lo <= s
      BY <1>1, PathFacts DEF LoopBounds
    <2> QED
      BY <1>1, <1>2, <2>1, PathFacts DEF Progress
  <1>4. pa[t][s] \in Page
    BY <1>1, <1>2, <1>3, PathFacts DEF TableTypes
  <1>5. /\ Kfree(pa[t][s]) /\ pa' = [pa EXCEPT ![t][s] = NoPage] /\ UNCHANGED procs
        /\ th' = [th EXCEPT ![p].i = s + 1]
    BY <1>3 DEF UnmapPage
  <1>6. ~Pends(p)' /\ OthersStay(p)
    <2>1. th'[p].at = "unmap" /\ \A q \in Proc : q # p => th'[q] = th[q]
      BY <1>1, <1>2, <1>5 DEF Path
    <2> QED
      BY <1>5, <2>1, StayLemma DEF Pends, procs
  <1> HIDE DEF t, s
  <1> QED
    BY <1>1, <1>2, <1>4, <1>5, <1>6, ClearsEntry DEF t, s

\* freewalk() drops the reference to the inner page table it frees.
LEMMA FreewalkPageRefs ==
  ASSUME ShapeInv, ShapeInv', NEW p \in Proc, NEW s \in {Leaf, Root}, FreewalkPage(p, s), UNCHANGED kern
  PROVE  RefStep /\ Redirects(<<Target(p), s>>, NoPage)
  <1> DEFINE t == Target(p)
  <1>1. /\ th[p].at = "freewalk" /\ pa[t][s] # NoPage /\ ~Pends(p) /\ Acts(p)
        /\ t \in Table /\ t[1] \in Reach(p) /\ s \in Where
    BY OwnTables, ConstantTypes DEF FreewalkPage, Pends, Acts
  <1>2. \A va \in VA : pa[t][va] = NoPage
    <2>1. \A va \in VA : va \in Int /\ ~(va < 0)
      BY ConstantTypes
    <2> QED
      BY <1>1, <2>1, PathFacts DEF Progress, Maps
  <1>3. pa[t][s] \in Page
    BY <1>1, PathFacts DEF TableTypes
  <1>4. Kfree(pa[t][s]) /\ pa' = [pa EXCEPT ![t][s] = NoPage] /\ UNCHANGED <<procs, th>>
    BY <1>2 DEF FreewalkPage
  <1>5. ~Pends(p)' /\ OthersStay(p)
    BY <1>1, <1>4, StayLemma DEF Pends, procs
  <1> HIDE DEF t
  <1> QED
    BY <1>1, <1>3, <1>4, <1>5, ClearsEntry DEF t

\* The first page of a table goes to the entry that stands for its root.
LEMMA FillsRoot ==
  ASSUME ShapeInv, ShapeInv', NEW p \in Proc, ~Pends(p), ~Pends(p)', UNCHANGED kern,
         OthersStay(p), NEW t \in Table, Void(t),
         NEW g \in Page, NEW d, Kalloc(g, d), pa' = [pa EXCEPT ![t][Root] = g]
  PROVE  RefStep /\ Redirects(<<t, Root>>, g)
  <1>1. Root \in Where /\ Root \notin VA /\ pa[t][Root] = NoPage
    BY ConstantTypes DEF Void
  <1>2. \A q \in Proc : q # p /\ Pends(q) => Place(q) # <<t, Root>>
    BY <1>1, PlaceFacts
  <1>3. pa'[t][Root] = g /\ \A u \in Table, w \in Where : <<u, w>> # <<t, Root>> => pa'[u][w] = pa[u][w]
    BY <1>1, PathFacts DEF TableTypes
  <1>4. Redirects(<<t, Root>>, g) /\ Held[<<t, Root>>] = NoPage
    BY <1>1, <1>2, <1>3, HeldMoves
  <1> QED
    BY <1>4, TakesPage DEF RefStep

\* The root of a new page table counts for the entry that stands for it.
LEMMA NewTableRefs ==
  ASSUME ShapeInv, ShapeInv', NEW p \in Proc, UNCHANGED kern,
         UserInit(p) \/ Exec(p) \/ \E c \in Proc : Fork(p, c)
  PROVE  /\ RefStep
         /\ \E t \in Table, g \in free : /\ Redirects(<<t, Root>>, g) /\ Void(t)
                                        /\ pa' = [pa EXCEPT ![t][Root] = g]
  <1>1. /\ th[p].at \in {"boot", "user"} /\ TypeOK /\ th \in [Proc -> Path] /\ UNCHANGED active
    BY PathFacts, PathFields DEF UserInit, Exec, Fork, InUser, procs
  <1>2. PICK t \in Table, g \in free : /\ Void(t) /\ Kalloc(g, Junk)
                                       /\ pa' = [pa EXCEPT ![t][Root] = g]
    <2>1. CASE UserInit(p)
      <3>1. Cur(p) \in Table /\ Void(Cur(p))
        BY <1>1, <2>1, TheTables, PathFacts DEF UserInit, Life
      <3> QED
        BY <2>1, <3>1 DEF UserInit
    <2>2. CASE Exec(p)
      <3>1. Scratch(p) \in Table /\ Void(Scratch(p))
        BY <1>1, <2>2, TheTables, PathFacts DEF Exec, InUser, Keeps, ServesCall
      <3> QED
        BY <2>2, <3>1 DEF Exec
    <2>3. CASE \E c \in Proc : Fork(p, c)
      <3>1. PICK c \in Proc : Fork(p, c)
        BY <2>3
      <3>2. Cur(c) \in Table /\ Void(Cur(c))
        BY <1>1, <3>1, TheTables, PathFacts DEF Fork, Life
      <3> QED
        BY <3>1, <3>2 DEF Fork
    <2> QED
      BY <2>1, <2>2, <2>3
  <1>3. th'[p].at \in {"alloc", "forkmap"} /\ \A q \in Proc : q # p => th'[q] = th[q]
    <2>1. UserInit(p) \/ Exec(p) => th'[p].at = "alloc" /\ \A q \in Proc : q # p => th'[q] = th[q]
      BY <1>1 DEF UserInit, Exec, At
    <2>2. ASSUME NEW c \in Proc, Fork(p, c)
          PROVE  th'[p].at \in {"alloc", "forkmap"} /\ \A q \in Proc : q # p => th'[q] = th[q]
      BY <1>1, <2>2 DEF Fork, At
    <2> QED
      BY <2>1, <2>2
  <1>4. ~Pends(p) /\ ~Pends(p)' /\ OthersStay(p) /\ g \in Page
    BY <1>1, <1>3, StayLemma, PathFacts DEF Pends, MemTypes
  <1> QED
    BY <1>2, <1>4, FillsRoot

\* uvmcopy() maps a page in the child that it counts one step later.
LEMMA ForkMapRefs ==
  ASSUME ShapeInv, ShapeInv', NEW p \in Proc, ForkMap(p), UNCHANGED kern
  PROVE  /\ UNCHANGED Refs!vars /\ OthersStay(p) /\ Pends(p)' /\ Value(p)' = NoPage
         /\ Place(p)' = <<Target(p), th[p].i>> /\ Held[<<Target(p), th[p].i>>] = NoPage
  <1> DEFINE t == Target(p)
             s == th[p].i
  <1>1. th[p].at = "forkmap" /\ s < sz[p] /\ s < th[p].n
    <2>1. th[p].at = "forkmap" /\ s < sz[p]
      BY DEF ForkMap
    <2>2. th[p].k = "fork" /\ th[p].n = sz[p]
      BY <2>1, PathFacts DEF ServesCall, LoopBounds
    <2> QED
      BY <2>1, <2>2
  <1>2. /\ Acts(p) /\ TypeOK /\ s \in VA /\ s \in Where /\ s \in Int /\ pa[Cur(p)][s] \in Page
        /\ t \in Table /\ t = Cur(th[p].kid)
        /\ th \in [Proc -> Path] /\ t[1] \in Reach(p)
    BY <1>1, ForkMapFacts, PathFields, OwnTables
  <1>3. /\ pa' = [pa EXCEPT ![t][s] = pa[Cur(p)][s]] /\ Goto(p, "forkref")
        /\ UNCHANGED <<mem, procs>>
    BY <1>2, ConstantTypes DEF ForkMap
  <1>4. pa[t][s] = NoPage
    BY <1>1, <1>2, PathFacts DEF Progress, Maps
  <1>5. /\ th'[p].at = "forkref" /\ th'[p].i = s /\ th'[p].k = th[p].k /\ th'[p].kid = th[p].kid
        /\ \A q \in Proc : q # p => th'[q] = th[q]
    BY <1>2, <1>3 DEF Goto, Path
  <1>6. ~Pends(p) /\ Pends(p)' /\ Place(p)' = <<t, s>> /\ Value(p)' = NoPage /\ OthersStay(p)
    <2>1. Target(p)' = t
      BY <1>3, <1>5, SameTarget DEF procs
    <2> QED
      BY <1>1, <1>3, <1>5, <2>1, StayLemma DEF Pends, Place, Value, procs
  <1>7. \A u \in Table, w \in Where : <<u, w>> # <<t, s>> => pa'[u][w] = pa[u][w]
    BY <1>2, <1>3, PathFacts DEF TableTypes
  <1> HIDE DEF t, s
  <1>8. Redirects(<<t, s>>, NoPage) /\ Held[<<t, s>>] = NoPage
    BY <1>2, <1>4, <1>6, <1>7, MoveStep
  <1>9. Held' = Held
    BY <1>8 DEF Redirects
  <1> QED
    BY <1>3, <1>6, <1>8, <1>9 DEF Refs!vars, mem, t, s

\* krefpage() counts the child's entry, while the parent's keeps the page allocated.
LEMMA ForkRefRefs ==
  ASSUME ShapeInv, ShapeInv', NEW p \in Proc, ForkRef(p), UNCHANGED kern
  PROVE  LET g == pa[Cur(p)][th[p].i]  y == <<Cur(p), th[p].i>> IN
         /\ RefStep /\ Redirects(<<Target(p), th[p].i>>, g) /\ ~Pends(p)'
         /\ g \in Page /\ Held[<<Target(p), th[p].i>>] = NoPage
         /\ y \in Slot /\ Held[y] = g /\ \A q \in Proc : Pends(q) => Place(q) # y
  <1> DEFINE t == Target(p)
             c == Cur(p)
             s == th[p].i
             g == pa[c][s]
  <1>1. th[p].at = "forkref" /\ s < th[p].n /\ pa[t][s] = g
    BY PathFacts DEF ForkRef, LoopBounds
  <1>2. /\ Acts(p) /\ TypeOK /\ s \in Where /\ s \in Int /\ g \in Page
        /\ t \in Table /\ c \in Table /\ t # c
        /\ th \in [Proc -> Path] /\ t[1] \in Reach(p) /\ c[1] \in Reach(p)
    BY <1>1, ForkMapFacts, PathFields, OwnTables, ReachTypes, TheTables
  <1>3. /\ Krefpage(g) /\ UNCHANGED <<tables, procs>>
        /\ th' = [th EXCEPT ![p].at = "forkmap", ![p].i = s + 1]
    BY DEF ForkRef
  <1>4. th'[p].at = "forkmap" /\ \A q \in Proc : q # p => th'[q] = th[q]
    BY <1>2, <1>3 DEF Path
  <1>5. Pends(p) /\ Place(p) = <<t, s>> /\ Value(p) = NoPage /\ ~Pends(p)' /\ OthersStay(p)
    BY <1>1, <1>3, <1>4, StayLemma DEF Pends, Place, Value, procs
  <1>6. Held[<<c, s>>] = g /\ <<c, s>> \in Slot /\ \A q \in Proc : Pends(q) => Place(q) # <<c, s>>
    <2>1. HeldFacts
      BY HeldAt
    <2>2. \A q \in Proc : q # p /\ Pends(q) => Place(q) # <<c, s>>
      BY <1>2, Foreign
    <2>3. Place(p) # <<c, s>>
      BY <1>2, <1>5
    <2> QED
      BY <1>2, <2>1, <2>2, <2>3 DEF HeldFacts, Slot
  <1>7. pa' = pa
    BY <1>3 DEF tables
  <1> HIDE DEF t, s, c, g
  <1>8. Redirects(<<t, s>>, g) /\ Held[<<t, s>>] = NoPage
    BY <1>1, <1>2, <1>5, <1>7, MoveStep
  <1> QED
    BY <1>2, <1>3, <1>5, <1>6, <1>8, SharesPage DEF RefStep, t, s, c, g

\* A page that is to be written: taken over, or copied and its share given up.
LEMMA CowCopyRefs ==
  ASSUME ShapeInv, ShapeInv', NEW p \in Proc, NEW va \in VA, NEW k, CheckCow(p, va), CowCopy(p, va, k),
         th[p].at \in {"user", "copyout"}, UNCHANGED kern
  PROVE  LET g == pa[Cur(p)][va]  x == <<Cur(p), va>> IN
         /\ RefStep /\ g \in Page /\ Held[x] = g
         /\ \E h \in Page : /\ Redirects(x, h) /\ ((h = g /\ SoleOwner(g)) \/ h \in free)
  <1> DEFINE c == Cur(p)
             g == pa[c][va]
  <1>1. /\ TypeOK /\ c \in Table /\ c[1] \in Reach(p) /\ va \in Where /\ th \in [Proc -> Path]
        /\ Acts(p) /\ ~Pends(p)
    BY PathFacts, TheTables, ReachTypes, ConstantTypes, PathFields DEF Acts, Pends
  <1>2. g \in Page /\ UNCHANGED <<tables, procs>>
    BY <1>1, PathFacts DEF CheckCow, TableTypes, CowCopy
  <1>3. PICK h \in Page :
          /\ (h = g /\ SoleOwner(g) /\ UNCHANGED mem) \/ KcopyTo(g, h)
          /\ th' = [th EXCEPT ![p].at = "remap", ![p].k = k, ![p].i = va, ![p].pg = h]
    BY <1>2 DEF CowCopy
  <1>4. /\ th'[p].at = "remap" /\ th'[p].i = va /\ th'[p].pg = h
        /\ \A q \in Proc : q # p => th'[q] = th[q]
    BY <1>1, <1>3 DEF Path
  <1>5. Pends(p)' /\ Place(p)' = <<c, va>> /\ Value(p)' = h /\ OthersStay(p)
    BY <1>2, <1>4, StayLemma DEF Pends, Place, Value, Cur, procs
  <1>6. pa' = pa
    BY <1>2 DEF tables
  <1> HIDE DEF c, g
  <1>7. Redirects(<<c, va>>, h) /\ Held[<<c, va>>] = g
    BY <1>1, <1>5, <1>6, MoveStep DEF g
  <1>8. ASSUME h = g, UNCHANGED mem PROVE RefStep
    <2>1. h = g /\ Redirects(<<c, va>>, g) /\ Held[<<c, va>>] = g
      BY <1>7, <1>8
    <2>2. Held' = Held
      BY <2>1 DEF Redirects
    <2> QED
      BY <1>8, <2>2 DEF RefStep, Refs!vars, mem
  <1>9. ASSUME KcopyTo(g, h) PROVE RefStep
    BY <1>1, <1>2, <1>7, <1>9, CopiesPage DEF RefStep
  <1>10. (h = g /\ SoleOwner(g)) \/ h \in free
    BY <1>3 DEF KcopyTo
  <1> QED
    BY <1>2, <1>3, <1>7, <1>8, <1>9, <1>10 DEF c, g

\* Remapping a page that is held moves no reference: it counts for the entry already.
LEMMA RemapRefs ==
  ASSUME ShapeInv, ShapeInv', NEW p \in Proc, Remap(p), UNCHANGED kern
  PROVE  UNCHANGED Refs!vars /\ OthersStay(p) /\ ~Pends(p)'
  <1> DEFINE c == Cur(p)
             s == th[p].i
             g == th[p].pg
  <1>1. th[p].at = "remap" /\ Pends(p) /\ Place(p) = <<c, s>> /\ Value(p) = g
    BY DEF Remap, Pends, Place, Value
  <1>2. /\ TypeOK /\ c \in Table /\ c[1] \in Reach(p) /\ s \in Where /\ th \in [Proc -> Path] /\ Acts(p)
    BY <1>1, PlaceFacts, PathFacts, TheTables, ReachTypes, ConstantTypes, PathFields
  <1>3. /\ pa' = [pa EXCEPT ![c][s] = g] /\ UNCHANGED <<mem, procs>>
        /\ th'[p].at \in {"user", "put"} /\ \A q \in Proc : q # p => th'[q] = th[q]
    BY <1>2 DEF Remap, User, At, Path
  <1>4. ~Pends(p)' /\ OthersStay(p)
    BY <1>3, StayLemma DEF Pends, procs
  <1>5. pa'[c][s] = g /\ \A u \in Table, w \in Where : <<u, w>> # <<c, s>> => pa'[u][w] = pa[u][w]
    BY <1>2, <1>3, PathFacts DEF TableTypes
  <1> HIDE DEF c, s, g
  <1>6. Redirects(<<c, s>>, g) /\ Held[<<c, s>>] = g
    BY <1>1, <1>2, <1>4, <1>5, MoveStep
  <1>7. Held' = Held
    BY <1>6 DEF Redirects
  <1> QED
    BY <1>3, <1>4, <1>7 DEF Refs!vars, mem

\* A page of the kernel counts for itself.
LEMMA KernelAllocRefs ==
  ASSUME ShapeInv, ShapeInv', KernelAlloc
  PROVE  /\ RefStep /\ UNCHANGED <<tables, procs, th>>
         /\ \E g \in free : g \in Page /\ Redirects(<<<<NoProc, 0>>, g>>, g)
  <1>1. PICK g \in free : Kalloc(g, Junk) /\ kern' = kern \cup {g}
    BY DEF KernelAlloc
  <1>2. UNCHANGED <<tables, procs, th>> /\ g \in Page /\ Page \ free = kern
    BY PathFacts, ConstantTypes DEF KernelAlloc, MemTypes, ShapeInv, BootAlone
  <1> DEFINE x == <<<<NoProc, 0>>, g>>
  <1>3. HeldFacts /\ HeldFacts'
    BY HeldAt, HeldAfter
  <1>4. x \in Slot /\ Held[x] = NoPage /\ Held'[x] = g
    BY <1>1, <1>2, <1>3 DEF HeldFacts, Slot
  <1>5. \A q \in Proc : (Pends(q)' <=> Pends(q)) /\ Place(q)' = Place(q) /\ Value(q)' = Value(q)
    BY <1>2 DEF Pends, Place, Value, Target, Cur, Scratch, procs
  <1>6. \A h \in Page : h # g => Held'[<<<<NoProc, 0>>, h>>] = Held[<<<<NoProc, 0>>, h>>]
    BY <1>1, <1>3 DEF HeldFacts
  <1>7. ASSUME NEW t \in Table, NEW s \in Where PROVE Held'[<<t, s>>] = Held[<<t, s>>]
    <2>1. CASE \E q \in Proc : Pends(q) /\ Place(q) = <<t, s>>
      <3>1. PICK q \in Proc : Pends(q) /\ Place(q) = <<t, s>>
        BY <2>1
      <3> QED
        BY <1>3, <1>5, <3>1 DEF HeldFacts
    <2>2. CASE \A q \in Proc : Pends(q) => Place(q) # <<t, s>>
      <3>1. \A q \in Proc : Pends(q)' => Place(q)' # <<t, s>>
        BY <1>5, <2>2
      <3> QED
        BY <1>2, <1>3, <2>2, <3>1 DEF HeldFacts, tables
    <2> QED
      BY <2>1, <2>2
  <1>8. \A y \in Slot : y # x => Held'[y] = Held[y]
    BY <1>6, <1>7 DEF Slot
  <1> HIDE DEF x
  <1>9. Redirects(x, g)
    BY <1>3, <1>4, <1>5, <1>8 DEF HeldFacts, Redirects
  <1> QED
    BY <1>1, <1>2, <1>4, <1>9, TakesPage DEF RefStep, x

\* A quiet step keeps to the contract.
LEMMA QuietRefs ==
  ASSUME ShapeInv, ShapeInv', UNCHANGED kern, NEW p \in Proc, Quiet(p)
  PROVE  RefStep
  BY QuietStep DEF RefStep

\* Every step keeps to the contract of the allocator.
LEMMA StepIsRefStep ==
  ASSUME ShapeInv, ShapeInv', [Next]_vars PROVE RefStep
  <1>1. ASSUME KernelAlloc PROVE RefStep
    BY <1>1, KernelAllocRefs
  <1>2. ASSUME NEW p \in Proc, UserStep(p), UNCHANGED kern PROVE RefStep
    <2>1. ASSUME NEW va \in VA, NEW d \in Data, Store(p, va, d) PROVE RefStep
      BY <1>2, <2>1, QuietCalls, QuietRefs
    <2>2. ASSUME NEW va \in VA, CowFault(p, va) PROVE RefStep
      BY <1>2, <2>2, CowCopyRefs DEF CowFault, InUser
    <2>3. ASSUME NEW va \in VA, CowFaultKills(p, va) PROVE RefStep
      BY <1>2, <2>3, QuietExit, QuietRefs DEF CowFaultKills
    <2>4. ASSUME NEW va \in VA, Read(p, va) PROVE RefStep
      BY <1>2, <2>4, QuietCalls, QuietRefs
    <2>5. ASSUME NEW c \in Proc, Fork(p, c) \/ Wait(p, c) PROVE RefStep
      BY <1>2, <2>5, QuietCalls, QuietRefs, NewTableRefs
    <2>6. ASSUME NEW m \in 0 .. NVA, Sbrk(p, m) PROVE RefStep
      BY <1>2, <2>6, QuietCalls, QuietRefs
    <2>7. Exec(p) => RefStep
      BY <1>2, NewTableRefs
    <2>8. Quit(p) => RefStep
      BY <1>2, QuietExit, QuietRefs DEF Quit
    <2> QED
      BY <1>2, <2>1, <2>2, <2>3, <2>4, <2>5, <2>6, <2>7, <2>8 DEF UserStep
  <1>3. ASSUME NEW p \in Proc, KernelStep(p), UNCHANGED kern PROVE RefStep
    <2>1. UserInit(p) \/ WalkAlloc(p) \/ AllocPage(p) \/ AllocFails(p) => RefStep
      BY <1>3, NewTableRefs, WalkAllocRefs, AllocPageRefs, QuietAllocation, QuietRefs
    <2>2. MapPage(p) \/ MapFails(p) \/ AllocDone(p) => RefStep
      BY <1>3, MapPageRefs, MapFailsRefs, QuietAllocation, QuietRefs DEF RefStep
    <2>3. UnmapPage(p) \/ UnmapDone(p) => RefStep
      BY <1>3, UnmapPageRefs, QuietAllocation, QuietRefs
    <2>4. \A s \in {Leaf, Root} : FreewalkPage(p, s) => RefStep
      BY <1>3, FreewalkPageRefs
    <2>5. FreewalkDone(p) \/ ForkMap(p) \/ ForkRef(p) => RefStep
      BY <1>3, QuietReturns, QuietRefs, ForkMapRefs, ForkRefRefs DEF RefStep
    <2>6. ForkMapFails(p) \/ ForkDone(p) => RefStep
      BY <1>3, QuietAllocation, QuietRefs, QuietForkDone, QuietRefs
    <2>7. CopyoutCow(p) => RefStep
      <3>1. ASSUME CopyoutCow(p) PROVE th[p].i \in VA
        BY <3>1, PathFacts DEF CopyoutCow, LoopBounds
      <3> QED
        BY <1>3, <3>1, CowCopyRefs DEF CopyoutCow
    <2>8. CopyoutGoesOn(p) \/ Remap(p) => RefStep
      BY <1>3, QuietCalls, QuietRefs, RemapRefs DEF RefStep
    <2>9. \A d \in Data : Put(p, d) => RefStep
      BY <1>3, QuietCalls, QuietRefs
    <2>10. PutFails(p) \/ ExecCommit(p) => RefStep
      BY <1>3, QuietCalls, QuietReturns, QuietRefs
    <2> QED
      BY <1>3, <2>1, <2>2, <2>3, <2>4, <2>5, <2>6, <2>7, <2>8, <2>9, <2>10 DEF KernelStep
  <1>4. CASE UNCHANGED vars
    <2>1. Held' = Held
      BY <1>4 DEF vars, Held, Fills, Target, Cur, Scratch
    <2> QED
      BY <1>4, <2>1 DEF vars, RefStep, Refs!vars
  <1> QED
    BY <1>1, <1>2, <1>3, <1>4 DEF Next

\* At the start all pages are free and no place refers to one.
LEMMA InitIsRefInit ==
  ASSUME Init PROVE Refs!Init
  <1>1. ShapeInv /\ HeldFacts
    BY InitShape, HeldAt
  <1>2. /\ th = [p \in Proc |-> At(IF p = InitProc THEN "boot" ELSE "dead", "none")]
        /\ kern = {} /\ pa = [t \in Table |-> [s \in Where |-> NoPage]]
    BY DEF Init
  <1>3. \A p \in Proc : ~Pends(p)
    BY <1>2 DEF Pends, At
  <1>4. \A x \in Slot : Held[x] = NoPage
    BY <1>1, <1>2, <1>3 DEF HeldFacts, Slot
  <1>5. Held = [x \in Slot |-> NoPage]
    BY <1>1, <1>4 DEF HeldFacts
  <1> QED
    BY <1>5 DEF Init, Refs!Init

\* Every step of every kernel path (proc.c, exec.c, trap.c, vm.c) takes, shares,
\* moves or drops one reference as kalloc.c's contract allows, or none at all:
\* a page held in a variable and one mapped but not yet counted included.
THEOREM ReferenceCounting == Spec => ImplementsPageRefs
  <1>1. Init => Refs!Init
    BY InitIsRefInit
  <1>2. ShapeInv /\ ShapeInv' /\ [Next]_vars => [Refs!Next]_(Refs!vars)
    BY StepIsRefStep DEF RefStep
  <1> QED
    BY <1>1, <1>2, ShapeInvariance, PTL DEF Spec, ImplementsPageRefs, Refs!Spec
-----------------------------------------------------------------------------
(* The allocator's contract: moving one reference changes the number of a page's *)
(* holders by at most one                                                        *)

\* The places that may refer to a page are finitely many.
LEMMA SlotsFinite == IsFiniteSet(Slot) /\ NoPage \notin Page
  <1>1. IsFiniteSet(Table)
    <2>1. IsFiniteSet(0 .. 1) /\ {0, 1} = 0 .. 1
      <3>1. 0 \in Int /\ 1 \in Int /\ {0, 1} = 0 .. 1
        OBVIOUS
      <3> QED
        BY <3>1, FS_Interval
    <2> QED
      BY <2>1, CowAssumption, FS_Product DEF Table
  <1>2. IsFiniteSet(Where)
    <2>1. NVA + 1 \in Int
      BY CowAssumption
    <2> QED
      BY <2>1, FS_Interval DEF Where
  <1>3. IsFiniteSet({<<NoProc, 0>>} \X Page)
    BY CowAssumption, FS_Product, FS_Singleton
  <1>4. {<<<<NoProc, 0>>, g>> : g \in Page} = {<<NoProc, 0>>} \X Page
    OBVIOUS
  <1>5. IsFiniteSet(Table \X Where)
    BY <1>1, <1>2, FS_Product
  <1> QED
    BY <1>3, <1>4, <1>5, FS_Union, CowAssumption DEF Slot

\* PageRefs has its own name for the cardinality of a set.
CountsHolders == \A g \in Page \ free : Refs!Holders(g) # {} /\ ref[g] = Cardinality(Refs!Holders(g))
Counted == Refs!FreeIsUnreferenced /\ CountsHolders

\* RefInv with the cardinality that the library's theorems speak of.
LEMMA CountedIs == Refs!RefInv <=> Counted
  <1>1. \A S : Refs!Cardinality(S) = Cardinality(S)
    BY DEF Refs!Cardinality, Cardinality
  <1> QED
    BY <1>1 DEF Refs!RefInv, Refs!CountIsReferences, Counted, CountsHolders

\* The number of slots that refer to a page is a natural number.
LEMMA HoldersFinite ==
  ASSUME NEW g \in Page
  PROVE  /\ IsFiniteSet(Refs!Holders(g))
         /\ Cardinality(Refs!Holders(g)) \in Nat
         /\ Cardinality(Refs!Holders(g)) = 0 <=> Refs!Holders(g) = {}
  <1>1. Refs!Holders(g) \subseteq Slot
    BY DEF Refs!Holders
  <1>2. IsFiniteSet(Refs!Holders(g))
    BY <1>1, FS_Subset, SlotsFinite
  <1> QED
    BY <1>2, FS_CardinalityType, FS_EmptySet

\* Redirecting slot s to v changes only the holders of v and of Held[s].
LEMMA HoldersAfterMove ==
  ASSUME Refs!TypeOK, NEW s \in Slot, NEW v \in Page \cup {NoPage},
         Held' = [Held EXCEPT ![s] = v], NEW g \in Page
  PROVE  Refs!Holders(g)' = IF v = g THEN Refs!Holders(g) \cup {s} ELSE Refs!Holders(g) \ {s}
  BY DEF Refs!TypeOK, Refs!Holders

\* ... and counts the move: one more for v, one less for the page left.
LEMMA CountAfterMove ==
  ASSUME Refs!TypeOK, NEW s \in Slot, NEW v \in Page \cup {NoPage}, v # Held[s],
         Held' = [Held EXCEPT ![s] = v], NEW g \in Page
  PROVE  /\ v = g => /\ Cardinality(Refs!Holders(g)') = Cardinality(Refs!Holders(g)) + 1
                     /\ Refs!Holders(g)' # {}
         /\ Held[s] = g => Cardinality(Refs!Holders(g)') = Cardinality(Refs!Holders(g)) - 1
         /\ v # g /\ Held[s] # g => Refs!Holders(g)' = Refs!Holders(g)
  <1>1. IsFiniteSet(Refs!Holders(g))
    BY HoldersFinite
  <1>2. s \in Refs!Holders(g) <=> Held[s] = g
    BY DEF Refs!Holders
  <1>3. Refs!Holders(g)' = IF v = g THEN Refs!Holders(g) \cup {s} ELSE Refs!Holders(g) \ {s}
    BY HoldersAfterMove
  <1>4. Cardinality(Refs!Holders(g) \cup {s})
          = IF s \in Refs!Holders(g) THEN Cardinality(Refs!Holders(g)) ELSE Cardinality(Refs!Holders(g)) + 1
    BY <1>1, FS_AddElement
  <1>5. Cardinality(Refs!Holders(g) \ {s})
          = IF s \in Refs!Holders(g) THEN Cardinality(Refs!Holders(g)) - 1 ELSE Cardinality(Refs!Holders(g))
    BY <1>1, FS_RemoveElement
  <1> QED
    BY <1>2, <1>3, <1>4, <1>5

\* A slot that refers to a page keeps it off the freelist (no dangling slot).
LEMMA HeldIsAllocated ==
  ASSUME Refs!TypeOK, Counted, NEW s \in Slot, Held[s] # NoPage
  PROVE  /\ Held[s] \in Page \ free
         /\ Refs!Holders(Held[s]) # {}
         /\ ref[Held[s]] = Cardinality(Refs!Holders(Held[s]))
  <1>1. Held[s] \in Page /\ s \in Refs!Holders(Held[s])
    BY DEF Refs!TypeOK, Refs!Holders
  <1>2. Held[s] \notin free
    BY <1>1 DEF Refs!TypeOK, Counted, Refs!FreeIsUnreferenced
  <1> QED
    BY <1>1, <1>2 DEF Counted, CountsHolders

\* kalloc() keeps the contract: a free page has no holder but the new slot.
LEMMA AllocKeeps ==
  ASSUME Refs!TypeOK, Counted, NEW g \in Page, Refs!Alloc(g)
  PROVE  Counted'
  <1> USE DEF Refs!Alloc, Refs!Refer
  <1>s. PICK s \in Slot : Refs!Refer(s, g)
    OBVIOUS
  <1>0. g # NoPage /\ g # Held[s] /\ Held[s] = NoPage
    BY <1>s, SlotsFinite
  <1>1. ASSUME NEW h \in Page, h # g
        PROVE  Refs!Holders(h)' = Refs!Holders(h) /\ ref'[h] = ref[h] /\ (h \in free' <=> h \in free)
    <2>1. g \in Page \cup {NoPage} /\ g # Held[s] /\ Held[s] # h /\ Held' = [Held EXCEPT ![s] = g]
      BY <1>s, <1>0, <1>1, SlotsFinite
    <2>2. Refs!Holders(h)' = Refs!Holders(h)
      BY <1>1, <2>1, CountAfterMove
    <2> QED
      BY <1>1, <2>2 DEF Refs!TypeOK
  <1>2. Refs!Holders(g)' = {s} /\ ref'[g] = 1 /\ g \notin free'
    <2>1. Refs!Holders(g) = {}
      BY DEF Counted, Refs!FreeIsUnreferenced
    <2>2. Refs!Holders(g)' = Refs!Holders(g) \cup {s}
      BY <1>s, HoldersAfterMove
    <2> QED
      BY <2>1, <2>2 DEF Refs!TypeOK
  <1>3. Cardinality({s}) = 1
    BY FS_Singleton
  <1>4. free' \subseteq free
    OBVIOUS
  <1>5. Refs!FreeIsUnreferenced'
    BY <1>1, <1>2, <1>4 DEF Refs!FreeIsUnreferenced, Counted, Refs!TypeOK
  <1>6. CountsHolders'
    <2> SUFFICES ASSUME NEW h \in Page, h \notin free'
                 PROVE  Refs!Holders(h)' # {} /\ ref'[h] = Cardinality(Refs!Holders(h)')
      BY DEF CountsHolders
    <2>1. CASE h = g
      BY <2>1, <1>2, <1>3
    <2>2. CASE h # g
      BY <2>2, <1>1 DEF Counted, CountsHolders
    <2> QED
      BY <2>1, <2>2
  <1> QED
    BY <1>5, <1>6 DEF Counted

\* kfree() keeps the contract: the page goes with its last holder.
LEMMA DropKeeps ==
  ASSUME Refs!TypeOK, Counted, NEW g \in Page, Refs!Drop(g)
  PROVE  Counted'
  <1>s. PICK s \in Slot : Held[s] = g /\ Held' = [Held EXCEPT ![s] = NoPage]
    BY DEF Refs!Drop, Refs!Holders
  <1>0. /\ g \in Page \ free /\ NoPage # g
        /\ ref[g] = Cardinality(Refs!Holders(g))
        /\ Refs!Holders(g) # {}
    BY <1>s, HeldIsAllocated, SlotsFinite
  <1>1. ASSUME NEW h \in Page, h # g
        PROVE  Refs!Holders(h)' = Refs!Holders(h) /\ ref'[h] = ref[h] /\ (h \in free' <=> h \in free)
    <2>1. Refs!Holders(h)' = Refs!Holders(h)
      BY <1>s, <1>0, <1>1, CountAfterMove, SlotsFinite
    <2> QED
      BY <2>1, <1>1, <1>s DEF Refs!Drop, Refs!TypeOK
  <1>2. /\ Cardinality(Refs!Holders(g)') = Cardinality(Refs!Holders(g)) - 1
        /\ ref'[g] = ref[g] - 1
        /\ g \in free' <=> ref[g] - 1 <= 0
    <2>1. Cardinality(Refs!Holders(g)') = Cardinality(Refs!Holders(g)) - 1
      BY <1>s, <1>0, CountAfterMove
    <2> QED
      BY <2>1, <1>0, <1>s DEF Refs!Drop, Refs!TypeOK
  <1>3. Refs!Holders(g)' = {} <=> Cardinality(Refs!Holders(g)') = 0
    <2>1. Refs!Holders(g)' \subseteq Slot
      BY DEF Refs!Holders
    <2> QED
      BY <2>1, FS_Subset, FS_EmptySet, SlotsFinite
  <1>4. Cardinality(Refs!Holders(g)) \in Nat /\ Cardinality(Refs!Holders(g)) # 0
    BY <1>0, HoldersFinite
  <1>5. Refs!FreeIsUnreferenced'
    <2> SUFFICES ASSUME NEW h \in Page, h \in free'
                 PROVE  Refs!Holders(h)' = {} /\ ref'[h] <= 0
      BY <1>0, <1>s DEF Refs!FreeIsUnreferenced, Refs!Drop, Refs!TypeOK
    <2>1. CASE h = g
      BY <2>1, <1>0, <1>2, <1>3, <1>4
    <2>2. CASE h # g
      BY <2>2, <1>1 DEF Counted, Refs!FreeIsUnreferenced
    <2> QED
      BY <2>1, <2>2
  <1>6. CountsHolders'
    <2> SUFFICES ASSUME NEW h \in Page, h \notin free'
                 PROVE  Refs!Holders(h)' # {} /\ ref'[h] = Cardinality(Refs!Holders(h)')
      BY DEF CountsHolders
    <2>1. CASE h = g
      BY <2>1, <1>0, <1>2, <1>3, <1>4
    <2>2. CASE h # g
      BY <2>2, <1>1 DEF Counted, CountsHolders
    <2> QED
      BY <2>1, <2>2
  <1> QED
    BY <1>5, <1>6 DEF Counted

\* krefpage() keeps the contract: one more holder, one more reference.
LEMMA ShareKeeps ==
  ASSUME Refs!TypeOK, Counted, NEW g \in Page, Refs!Share(g)
  PROVE  Counted'
  <1>s. PICK s \in Slot : Held[s] = NoPage /\ Held' = [Held EXCEPT ![s] = g]
    BY DEF Refs!Share, Refs!Refer
  <1>0. /\ g \in Page \ free /\ Held[s] = NoPage /\ g # NoPage
        /\ ref[g] = Cardinality(Refs!Holders(g))
    BY <1>s, SlotsFinite DEF Refs!Share, Counted, Refs!FreeIsUnreferenced, CountsHolders
  <1>1. ASSUME NEW h \in Page, h # g
        PROVE  Refs!Holders(h)' = Refs!Holders(h) /\ ref'[h] = ref[h]
    <2>1. Refs!Holders(h)' = Refs!Holders(h)
      BY <1>0, <1>s, <1>1, CountAfterMove, SlotsFinite
    <2> QED
      BY <2>1, <1>1 DEF Refs!Share, Refs!TypeOK
  <1>2. /\ Refs!Holders(g)' # {} /\ Cardinality(Refs!Holders(g)') = Cardinality(Refs!Holders(g)) + 1
        /\ ref'[g] = ref[g] + 1
    BY <1>0, <1>s, CountAfterMove DEF Refs!Share, Refs!TypeOK
  <1>3. Refs!FreeIsUnreferenced'
    BY <1>0, <1>1 DEF Refs!FreeIsUnreferenced, Counted, Refs!Share, Refs!TypeOK
  <1>4. CountsHolders'
    <2> SUFFICES ASSUME NEW h \in Page \ free
                 PROVE  Refs!Holders(h)' # {} /\ ref'[h] = Cardinality(Refs!Holders(h)')
      BY DEF CountsHolders, Refs!Share
    <2>1. CASE h = g
      BY <2>1, <1>0, <1>2
    <2>2. CASE h # g
      BY <2>2, <1>1 DEF Counted, CountsHolders
    <2> QED
      BY <2>1, <2>2
  <1> QED
    BY <1>3, <1>4 DEF Counted

\* kcopy_n_deref() keeps the contract: the shared page loses this holder and
\* keeps another, the copy has this one only.
LEMMA CopyKeeps ==
  ASSUME Refs!TypeOK, Counted, NEW old \in Page, NEW g \in Page, Refs!Copy(old, g)
  PROVE  Counted'
  <1>s. PICK s \in Slot : Held[s] = old /\ Held' = [Held EXCEPT ![s] = g]
    BY DEF Refs!Copy, Refs!Holders
  <1>0. /\ old \in Page \ free /\ old # NoPage /\ g # old /\ g \in free
        /\ ref[old] = Cardinality(Refs!Holders(old)) /\ ref[old] > 1
    BY <1>s, HeldIsAllocated, SlotsFinite DEF Refs!Copy
  <1>1. ASSUME NEW h \in Page, h # g, h # old
        PROVE  Refs!Holders(h)' = Refs!Holders(h) /\ ref'[h] = ref[h] /\ (h \in free' <=> h \in free)
    <2>1. Refs!Holders(h)' = Refs!Holders(h)
      BY <1>s, <1>0, <1>1, CountAfterMove
    <2> QED
      BY <2>1, <1>1, <1>s DEF Refs!Copy, Refs!TypeOK
  <1>2. Refs!Holders(g)' = {s} /\ ref'[g] = 1
    <2>1. Refs!Holders(g) = {}
      BY <1>0 DEF Counted, Refs!FreeIsUnreferenced
    <2>2. Refs!Holders(g)' = Refs!Holders(g) \cup {s}
      BY <1>s, HoldersAfterMove
    <2> QED
      BY <2>1, <2>2, <1>0 DEF Refs!Copy, Refs!TypeOK
  <1>3. /\ Cardinality(Refs!Holders(old)') = ref[old] - 1
        /\ ref'[old] = ref[old] - 1
    BY <1>s, <1>0, CountAfterMove DEF Refs!Copy, Refs!TypeOK
  <1>4. Refs!Holders(old)' # {}
    <2>1. ref[old] \in Int
      BY <1>0 DEF Refs!TypeOK
    <2>2. Cardinality(Refs!Holders(old)') # 0
      BY <2>1, <1>0, <1>3
    <2>3. Cardinality({}) = 0
      BY FS_EmptySet
    <2> QED
      BY <2>2, <2>3, Zenon
  <1>5. Refs!FreeIsUnreferenced'
    <2>1. free' = free \ {g} /\ free \subseteq Page
      BY DEF Refs!Copy, Refs!TypeOK
    <2> QED
      BY <2>1, <1>0, <1>1 DEF Counted, Refs!FreeIsUnreferenced
  <1>6. CountsHolders'
    <2> SUFFICES ASSUME NEW h \in Page, h \notin free'
                 PROVE  Refs!Holders(h)' # {} /\ ref'[h] = Cardinality(Refs!Holders(h)')
      BY DEF CountsHolders
    <2>1. CASE h = g
      BY <2>1, <1>2, FS_Singleton
    <2>2. CASE h = old
      BY <2>2, <1>3, <1>4
    <2>3. CASE h # g /\ h # old
      BY <2>3, <1>1 DEF Counted, CountsHolders
    <2> QED
      BY <2>1, <2>2, <2>3
  <1> QED
    BY <1>5, <1>6 DEF Counted
-----------------------------------------------------------------------------
\* pageref[], the freelist and the slots keep their types.
THEOREM PageRefsTypeCorrect == Refs!Spec => []Refs!TypeOK
  <1>1. Refs!Init => Refs!TypeOK
    BY DEF Refs!Init, Refs!TypeOK
  <1>2. Refs!TypeOK /\ [Refs!Next]_(Refs!vars) => Refs!TypeOK'
    <2> SUFFICES ASSUME Refs!TypeOK, [Refs!Next]_(Refs!vars) PROVE Refs!TypeOK'
      OBVIOUS
    <2> USE DEF Refs!TypeOK
    <2>1. ASSUME NEW g \in Page, Refs!Alloc(g) PROVE Refs!TypeOK'
      BY <2>1 DEF Refs!Alloc, Refs!Refer
    <2>2. ASSUME NEW g \in Page, Refs!Drop(g) PROVE Refs!TypeOK'
      BY <2>2 DEF Refs!Drop, Refs!Holders
    <2>3. ASSUME NEW g \in Page, Refs!Share(g) PROVE Refs!TypeOK'
      BY <2>3 DEF Refs!Share, Refs!Refer
    <2>4. ASSUME NEW old \in Page, NEW g \in Page, Refs!Copy(old, g) PROVE Refs!TypeOK'
      BY <2>4 DEF Refs!Copy, Refs!Holders
    <2>5. CASE UNCHANGED Refs!vars
      BY <2>5 DEF Refs!vars
    <2> QED
      BY <2>1, <2>2, <2>3, <2>4, <2>5 DEF Refs!Next
  <1> QED
    BY <1>1, <1>2, PTL DEF Refs!Spec

\* Every step of the contract keeps the counts exact.
LEMMA StepKeepsCounts ==
  ASSUME Refs!TypeOK, Counted, [Refs!Next]_(Refs!vars) PROVE Counted'
  <1>1. CASE Refs!Next
    BY <1>1, AllocKeeps, DropKeeps, ShareKeeps, CopyKeeps DEF Refs!Next
  <1>2. CASE UNCHANGED Refs!vars
    BY <1>2 DEF Refs!vars, Counted, Refs!FreeIsUnreferenced, CountsHolders, Refs!Holders
  <1> QED
    BY <1>1, <1>2

\* Whatever the callers do, a page is on the freelist exactly when nothing
\* refers to it and an allocated page is counted exactly (kalloc.c kfree).
THEOREM PageRefsCorrect == Refs!Spec => []Refs!RefInv
  <1>1. Refs!Init => Counted
    BY SlotsFinite DEF Refs!Init, Counted, Refs!FreeIsUnreferenced, CountsHolders, Refs!Holders
  <1>2. Refs!TypeOK /\ Counted /\ [Refs!Next]_(Refs!vars) => Counted'
    BY StepKeepsCounts
  <1> QED
    BY <1>1, <1>2, CountedIs, PageRefsTypeCorrect, PTL DEF Refs!Spec

\* At every moment of every path of the kernel a page is on the freelist exactly
\* when nothing refers to it, and pageref[] is the number of its references
\* (kalloc.c kalloc, kfree, krefpage, kcopy_n_deref and all their callers).
THEOREM CountsAreExact == Spec => []Refs!RefInv
  BY PageRefsCorrect, ReferenceCounting, PTL DEF ImplementsPageRefs
-----------------------------------------------------------------------------
(* A page that can be stored to is referred to by one entry *)

\* Entries that allow a store, and those about to be filled with a page to store to.
Stores(t, va) == pa[t][va] # NoPage /\ perm[t][va].w
Exclusive(y) ==
  \/ \E t \in Table, va \in VA : y = <<t, va>> /\ Stores(t, va)
  \/ \E p \in Proc : Pends(p) /\ Value(p) # NoPage /\ Place(p) = y

Alone(y) == Held[y] # NoPage /\ \A x \in Slot : Held[x] = Held[y] => x = y
OneOwner == \A y \in Slot : Exclusive(y) => Alone(y)
NeverBoth == \A t \in Table, va \in VA : ~(perm[t][va].w /\ perm[t][va].cow)
OwnerInv == NeverBoth /\ OneOwner

\* Nothing refers to a page that kalloc() hands out.
LEMMA FreshPage ==
  ASSUME Counted, NEW g \in free PROVE \A z \in Slot : Held[z] # g
  BY DEF Counted, Refs!FreeIsUnreferenced, Refs!Holders

\* A count of one is this reference (kcopy_n_deref's test).
LEMMA SoleIsAlone ==
  ASSUME ShapeInv, Counted, NEW x \in Slot, NEW g \in Page, Held[x] = g, SoleOwner(g)
  PROVE  Alone(x)
  <1>1. x \in Refs!Holders(g)
    BY DEF Refs!Holders
  <1>2. ref[g] = Cardinality(Refs!Holders(g))
    BY <1>1 DEF Counted, CountsHolders, Refs!FreeIsUnreferenced
  <1>3. Cardinality(Refs!Holders(g)) = 1
    BY <1>1, <1>2, HoldersFinite DEF SoleOwner
  <1>4. Refs!Holders(g) = {x}
    BY <1>1, <1>3, HoldersFinite, FS_Singleton
  <1> QED
    BY <1>4, SlotsFinite DEF Alone, Refs!Holders

\* When no reference moves, what may be stored to must have been alone.
LEMMA OwnersStay ==
  ASSUME OneOwner, Held' = Held, \A y \in Slot : Exclusive(y)' => Exclusive(y) \/ Alone(y)
  PROVE  OneOwner'
  BY DEF OneOwner, Alone

\* When one reference moves, the page it moves to must not be one that may be
\* stored to elsewhere, nor be referred to at all if it may be stored to here.
LEMMA OwnersMove ==
  ASSUME OneOwner, NEW x, NEW v \in Page \cup {NoPage}, Redirects(x, v),
         v = NoPage \/ \A z \in Slot : Exclusive(z) => Held[z] # v,
         \A y \in Slot : Exclusive(y)' /\ y # x => Exclusive(y),
         Exclusive(x)' => v # NoPage /\ \A z \in Slot : Held[z] # v
  PROVE  OneOwner'
  <1> SUFFICES ASSUME NEW y \in Slot, Exclusive(y)'
               PROVE  Held'[y] # NoPage /\ \A z \in Slot : Held'[z] = Held'[y] => z = y
    BY DEF OneOwner, Alone
  <1>1. x \in Slot /\ Held'[x] = v /\ \A z \in Slot : z # x => Held'[z] = Held[z]
    BY DEF Redirects
  <1>2. CASE y = x
    BY <1>1, <1>2
  <1>3. CASE y # x
    <2>1. Exclusive(y) /\ Held[y] # NoPage /\ \A z \in Slot : Held[z] = Held[y] => z = y
      BY <1>3 DEF OneOwner, Alone
    <2> QED
      BY <1>1, <1>3, <2>1
  <1> QED
    BY <1>2, <1>3

\* Nothing becomes exclusive but the place redirected.
LEMMA ExclusiveMoves ==
  ASSUME NEW x, NEW v, Redirects(x, v),
         \A t \in Table, va \in VA : <<t, va>> # x /\ Stores(t, va)' => Stores(t, va),
         NEW y, y # x, Exclusive(y)'
  PROVE  Exclusive(y)
  <1>1. CASE \E t \in Table, va \in VA : y = <<t, va>> /\ Stores(t, va)'
    BY <1>1 DEF Exclusive
  <1>2. CASE \E p \in Proc : Pends(p)' /\ Value(p)' # NoPage /\ Place(p)' = y
    BY <1>2 DEF Exclusive, Redirects
  <1> QED
    BY <1>1, <1>2 DEF Exclusive

\* Nothing becomes exclusive at all.
LEMMA ExclusiveStays ==
  ASSUME NEW p \in Proc, OthersStay(p), ~(Pends(p)' /\ Value(p)' # NoPage),
         \A t \in Table, va \in VA : Stores(t, va)' => Stores(t, va),
         NEW y, Exclusive(y)'
  PROVE  Exclusive(y)
  <1>1. CASE \E t \in Table, va \in VA : y = <<t, va>> /\ Stores(t, va)'
    BY <1>1 DEF Exclusive
  <1>2. CASE \E q \in Proc : Pends(q)' /\ Value(q)' # NoPage /\ Place(q)' = y
    BY <1>2 DEF Exclusive, OthersStay
  <1> QED
    BY <1>1, <1>2 DEF Exclusive

\* A step that moves no reference and changes no bit makes nobody an owner.
LEMMA QuietOwners ==
  ASSUME ShapeInv, ShapeInv', OwnerInv, UNCHANGED <<kern, perm>>, NEW p \in Proc, Quiet(p)
  PROVE  OwnerInv'
  <1>1. Held' = Held
    BY QuietStep DEF Refs!vars
  <1>2. \A t \in Table, va \in VA : Stores(t, va)' => Stores(t, va)
    BY DEF Stores, Quiet
  <1>3. \A y \in Slot : Exclusive(y)' => Exclusive(y)
    BY <1>2, ExclusiveStays DEF Quiet
  <1> QED
    BY <1>1, <1>3, OwnersStay DEF OwnerInv, NeverBoth

\* A fresh page at a place that is no entry to store through, or that waits for it.
LEMMA FreshOwners ==
  ASSUME Counted, OwnerInv, MemTypes, UNCHANGED perm, NEW x, NEW g \in free, Redirects(x, g),
         \A t \in Table, va \in VA : Stores(t, va)' => Stores(t, va)
  PROVE  OwnerInv'
  <1>1. g \in Page /\ g # NoPage /\ \A z \in Slot : Held[z] # g
    BY FreshPage, ConstantTypes DEF MemTypes
  <1>2. \A y \in Slot : Exclusive(y)' /\ y # x => Exclusive(y)
    BY ExclusiveMoves
  <1> QED
    BY <1>1, <1>2, OwnersMove DEF OwnerInv, NeverBoth

\* A reference given back makes nobody an owner.
LEMMA DropOwners ==
  ASSUME ShapeInv', OwnerInv, NeverBoth', NEW x, Redirects(x, NoPage),
         \A t \in Table, va \in VA : Stores(t, va)' => Stores(t, va) /\ <<t, va>> # x
  PROVE  OwnerInv'
  <1>1. \A y \in Slot : Exclusive(y)' /\ y # x => Exclusive(y)
    BY ExclusiveMoves
  <1>2. HeldFacts' /\ Held'[x] = NoPage
    BY HeldAfter DEF Redirects
  <1>3. \A q \in Proc : Pends(q)' /\ Place(q)' = x => Value(q)' = NoPage
    BY <1>2 DEF HeldFacts
  <1>4. ~Exclusive(x)'
    BY <1>3 DEF Exclusive
  <1> QED
    BY <1>1, <1>4, OwnersMove DEF OwnerInv

\* kalloc() hands its page to the one place that it is for.
LEMMA AllocationOwners ==
  ASSUME ShapeInv, ShapeInv', Counted, OwnerInv, NEW p \in Proc, UNCHANGED kern,
         WalkAlloc(p) \/ AllocPage(p) \/ UserInit(p) \/ Exec(p) \/ \E c \in Proc : Fork(p, c)
  PROVE  OwnerInv'
  <1>1. MemTypes /\ TableTypes /\ UNCHANGED perm
    BY PathFacts DEF WalkAlloc, AllocPage, UserInit, Exec, Fork, tables
  <1>2. \E x : \E g \in free : Redirects(x, g)
    BY WalkAllocRefs, AllocPageRefs, NewTableRefs
  <1>3. \A t \in Table, va \in VA : pa'[t][va] = pa[t][va]
    <2>1. CASE WalkAlloc(p)
      <3>1. PICK g : pa' = [pa EXCEPT ![Target(p)][Leaf] = g]
        BY <2>1 DEF WalkAlloc
      <3> QED
        BY <1>1, <3>1, ConstantTypes DEF TableTypes
    <2>2. CASE AllocPage(p)
      BY <2>2 DEF AllocPage, tables
    <2>3. CASE UserInit(p) \/ Exec(p) \/ \E c \in Proc : Fork(p, c)
      <3>1. PICK t \in Table, g \in free : pa' = [pa EXCEPT ![t][Root] = g]
        BY <2>3, NewTableRefs
      <3> QED
        BY <1>1, <3>1, ConstantTypes DEF TableTypes
    <2> QED
      BY <2>1, <2>2, <2>3
  <1>4. \A t \in Table, va \in VA : Stores(t, va)' => Stores(t, va)
    BY <1>1, <1>3 DEF Stores
  <1> QED
    BY <1>1, <1>2, <1>4, FreshOwners

\* The pages that the kernel keeps are stored to through no page table.
LEMMA KernelOwners ==
  ASSUME ShapeInv, ShapeInv', Counted, OwnerInv, KernelAlloc
  PROVE  OwnerInv'
  <1>1. UNCHANGED <<tables, procs, th>> /\ \E x : \E g \in free : Redirects(x, g)
    BY KernelAllocRefs
  <1>2. \A t \in Table, va \in VA : Stores(t, va)' => Stores(t, va)
    BY <1>1 DEF Stores, tables
  <1>3. MemTypes /\ UNCHANGED perm
    BY <1>1, PathFacts, ConstantTypes DEF tables
  <1> QED
    BY <1>1, <1>2, <1>3, FreshOwners

\* uvmalloc's permissions, and the eager uvmcopy's, never say both.
LEMMA NewPermNeverBoth ==
  ASSUME ShapeInv, NeverBoth, NEW p \in Proc, th[p].i \in VA
  PROVE  ~(NewPerm(p, th[p].i).w /\ NewPerm(p, th[p].i).cow)
  <1>1. Cur(p) \in Table
    BY PathFacts, TheTables
  <1>2. CASE th[p].k = "exec"
    BY <1>2 DEF NewPerm
  <1>3. CASE th[p].k = "fork"
    BY <1>1, <1>3 DEF NewPerm, NeverBoth
  <1>4. CASE th[p].k \notin {"exec", "fork"}
    BY <1>4 DEF NewPerm
  <1> QED
    BY <1>2, <1>3, <1>4

\* mappages(): the page waited for this entry, and is stored to through it alone.
LEMMA MapPageOwners ==
  ASSUME ShapeInv, ShapeInv', OwnerInv, NEW p \in Proc, MapPage(p), UNCHANGED kern
  PROVE  OwnerInv'
  <1> DEFINE t == Target(p)
             s == th[p].i
  <1>1. /\ th[p].at = "map" /\ Pends(p) /\ Place(p) = <<t, s>> /\ Value(p) = th[p].pg
        /\ t \in Table /\ s \in VA /\ s \in Int /\ th[p].pg # NoPage
    <2>1. th[p].at = "map" /\ Pends(p)
      BY DEF MapPage, Pends
    <2>2. th[p].pg # NoPage
      BY <2>1, PathFacts DEF LoopBounds
    <2> QED
      BY <2>1, <2>2, PlaceFacts, OwnTables, ConstantTypes DEF Place, Value
  <1>2. pa[t][s] = NoPage
    BY <1>1, PathFacts DEF Progress, Maps
  <1>3. /\ pa' = [pa EXCEPT ![t][s] = th[p].pg]
        /\ perm' = [perm EXCEPT ![t][s] = NewPerm(p, s)]
    BY <1>2 DEF MapPage
  <1>4. Held' = Held /\ ~Pends(p)' /\ OthersStay(p)
    BY MapPageRefs DEF Refs!vars
  <1>5. ~(NewPerm(p, s).w /\ NewPerm(p, s).cow)
    BY <1>1, NewPermNeverBoth DEF OwnerInv
  <1> HIDE DEF t, s
  <1>6. \A u \in Table, va \in VA : <<u, va>> # <<t, s>> => pa'[u][va] = pa[u][va] /\ perm'[u][va] = perm[u][va]
    BY <1>3, PathFacts, ConstantTypes DEF TableTypes
  <1>7. perm'[t][s] = NewPerm(p, s)
    BY <1>1, <1>3, PathFacts DEF TableTypes
  <1>8. NeverBoth'
    BY <1>5, <1>6, <1>7 DEF OwnerInv, NeverBoth
  <1>9. Exclusive(<<t, s>>)
    BY <1>1 DEF Exclusive
  <1>10. ASSUME NEW y \in Slot, Exclusive(y)' PROVE Exclusive(y)
    <2>1. CASE \E u \in Table, va \in VA : y = <<u, va>> /\ Stores(u, va)'
      BY <1>6, <1>9, <2>1 DEF Exclusive, Stores
    <2>2. CASE \E q \in Proc : Pends(q)' /\ Value(q)' # NoPage /\ Place(q)' = y
      BY <1>4, <2>2 DEF Exclusive, OthersStay
    <2> QED
      BY <1>10, <2>1, <2>2 DEF Exclusive
  <1> QED
    BY <1>4, <1>8, <1>10, OwnersStay DEF OwnerInv

\* The page that could not be mapped has no owner any more.
LEMMA MapFailsOwners ==
  ASSUME ShapeInv, ShapeInv', OwnerInv, NEW p \in Proc, MapFails(p), UNCHANGED kern
  PROVE  OwnerInv'
  <1> DEFINE t == Target(p)
             s == th[p].i
  <1>1. th[p].at = "map" /\ Pends(p) /\ UNCHANGED tables
    BY DEF MapFails, Pends
  <1>2. pa[t][s] = NoPage
    <2>1. s \in VA /\ s \in Int
      BY <1>1, PlaceFacts, ConstantTypes DEF Place
    <2> QED
      BY <1>1, <2>1, PathFacts DEF Progress, Maps
  <1>3. Redirects(<<t, s>>, NoPage)
    BY MapFailsRefs
  <1> HIDE DEF t, s
  <1>4. \A u \in Table, va \in VA : Stores(u, va)' => Stores(u, va) /\ <<u, va>> # <<t, s>>
    BY <1>1, <1>2 DEF Stores, tables
  <1>5. NeverBoth'
    BY <1>1 DEF OwnerInv, NeverBoth, tables
  <1> QED
    BY <1>3, <1>4, <1>5, DropOwners

\* The entry that uvmunmap() clears owns nothing any more.
LEMMA UnmapPageOwners ==
  ASSUME ShapeInv, ShapeInv', OwnerInv, NEW p \in Proc, UnmapPage(p), UNCHANGED kern
  PROVE  OwnerInv'
  <1> DEFINE t == Target(p)
             s == th[p].i
  <1>1. Redirects(<<t, s>>, NoPage)
    BY UnmapPageRefs
  <1>2. t \in Table /\ s \in Where /\ s \in Int /\ s \in VA /\ th[p].at = "unmap" /\ s < th[p].n /\ TableTypes
    BY OwnTables, IndexInTable, PathFacts DEF UnmapPage
  <1>3. pa[t][s] # NoPage
    <2>1. th[p].lo <= s
      BY <1>2, PathFacts DEF LoopBounds
    <2> QED
      BY <1>2, <2>1, PathFacts DEF Progress
  <1>4. pa' = [pa EXCEPT ![t][s] = NoPage] /\ perm' = [perm EXCEPT ![t][s] = NoPerm]
    BY <1>3 DEF UnmapPage
  <1> HIDE DEF t, s
  <1>5. /\ \A u \in Table, va \in VA : <<u, va>> # <<t, s>> => pa'[u][va] = pa[u][va] /\ perm'[u][va] = perm[u][va]
        /\ pa'[t][s] = NoPage /\ perm'[t][s] = NoPerm
    BY <1>2, <1>4, ConstantTypes DEF TableTypes
  <1>6. \A u \in Table, va \in VA : Stores(u, va)' => Stores(u, va) /\ <<u, va>> # <<t, s>>
    BY <1>5 DEF Stores
  <1>7. NeverBoth'
    BY <1>5 DEF OwnerInv, NeverBoth, NoPerm
  <1> QED
    BY <1>1, <1>6, <1>7, DropOwners

\* An inner page table is nothing that a process stores to.
LEMMA FreewalkPageOwners ==
  ASSUME ShapeInv, ShapeInv', OwnerInv, NEW p \in Proc, NEW s \in {Leaf, Root}, FreewalkPage(p, s), UNCHANGED kern
  PROVE  OwnerInv'
  <1>1. Redirects(<<Target(p), s>>, NoPage) /\ s \notin VA
    BY FreewalkPageRefs, ConstantTypes
  <1>2. UNCHANGED perm /\ \A u \in Table, va \in VA : pa'[u][va] = pa[u][va]
    <2>1. CASE \E va \in VA : pa[Target(p)][va] # NoPage
      BY <2>1 DEF FreewalkPage, Panic, tables
    <2>2. CASE ~ \E va \in VA : pa[Target(p)][va] # NoPage
      BY <1>1, <2>2, PathFacts, ConstantTypes DEF FreewalkPage, TableTypes
    <2> QED
      BY <2>1, <2>2
  <1>3. \A u \in Table, va \in VA : Stores(u, va)' => Stores(u, va) /\ <<u, va>> # <<Target(p), s>>
    BY <1>1, <1>2 DEF Stores
  <1>4. NeverBoth'
    BY <1>2 DEF OwnerInv, NeverBoth
  <1> QED
    BY <1>1, <1>3, <1>4, DropOwners

\* uvmcopy() takes PTE_W from the parent's entry before the child has one.
LEMMA ProtectNeither ==
  ASSUME ShapeInv, NEW p \in Proc, NEW va \in VA
  PROVE  /\ ~Protect(p, va).w /\ Protect(p, va) \in Perm
  <1>1. perm[Cur(p)][va] \in Perm
    BY TheTables, PathFacts DEF TableTypes
  <1> DEFINE e == perm[Cur(p)][va]
  <1> HIDE DEF e
  <1>2. /\ (IF e.w THEN [e EXCEPT !.w = FALSE, !.cow = TRUE] ELSE e) \in Perm
        /\ ~(IF e.w THEN [e EXCEPT !.w = FALSE, !.cow = TRUE] ELSE e).w
    BY <1>1 DEF Perm, e
  <1> QED
    BY <1>2 DEF Protect, e

\* The page that parent and child share from here on is stored to by neither.
LEMMA ForkMapOwners ==
  ASSUME ShapeInv, ShapeInv', OwnerInv, NEW p \in Proc, ForkMap(p), UNCHANGED kern
  PROVE  OwnerInv'
  <1> DEFINE t == Target(p)
             s == th[p].i
  <1>1. th[p].at = "forkmap" /\ s < sz[p] /\ s < th[p].n
    <2>1. th[p].at = "forkmap" /\ s < sz[p]
      BY DEF ForkMap
    <2>2. th[p].k = "fork" /\ th[p].n = sz[p]
      BY <2>1, PathFacts DEF ServesCall, LoopBounds
    <2> QED
      BY <2>1, <2>2
  <1>2. /\ s \in VA /\ s \in Where /\ pa[Cur(p)][s] \in Page /\ TableTypes
        /\ t \in Table /\ Cur(p) \in Table /\ t # Cur(p) /\ t = Cur(th[p].kid)
    BY <1>1, ForkMapFacts, PathFacts
  <1>3. /\ pa' = [pa EXCEPT ![t][s] = pa[Cur(p)][s]]
        /\ perm' = [perm EXCEPT ![Cur(p)][s] = Protect(p, s), ![t][s] = Protect(p, s)]
    BY <1>2, ConstantTypes DEF ForkMap
  <1>4. ~Protect(p, s).w
    BY <1>2, ProtectNeither
  <1>5. Held' = Held /\ OthersStay(p) /\ Value(p)' = NoPage
    BY ForkMapRefs DEF Refs!vars
  <1> HIDE DEF t, s
  <1>6. \A u \in Table, va \in VA :
          IF va = s /\ (u = t \/ u = Cur(p)) THEN ~perm'[u][va].w
          ELSE pa'[u][va] = pa[u][va] /\ perm'[u][va] = perm[u][va]
    <2>1. /\ perm'[t][s] = Protect(p, s) /\ perm'[Cur(p)][s] = Protect(p, s)
      BY <1>2, <1>3 DEF TableTypes
    <2>2. \A u \in Table, va \in VA : ~(va = s /\ (u = t \/ u = Cur(p))) => perm'[u][va] = perm[u][va]
      BY <1>2, <1>3 DEF TableTypes
    <2>3. \A u \in Table, va \in VA : ~(va = s /\ u = t) => pa'[u][va] = pa[u][va]
      BY <1>2, <1>3, ConstantTypes DEF TableTypes
    <2> QED
      BY <1>4, <2>1, <2>2, <2>3
  <1>7. \A u \in Table, va \in VA : Stores(u, va)' => Stores(u, va)
    BY <1>6 DEF Stores
  <1>8. NeverBoth'
    BY <1>6 DEF OwnerInv, NeverBoth
  <1>9. \A y \in Slot : Exclusive(y)' => Exclusive(y)
    BY <1>5, <1>7, ExclusiveStays
  <1> QED
    BY <1>5, <1>8, <1>9, OwnersStay DEF OwnerInv

\* uvmcopy() without memory: in the eager kernel the copy at hand is freed.
LEMMA ForkMapFailsOwners ==
  ASSUME ShapeInv, ShapeInv', OwnerInv, NEW p \in Proc, ForkMapFails(p), UNCHANGED kern
  PROVE  OwnerInv'
  <1> DEFINE s == th[p].i
  <1>1. /\ s \in VA /\ Cur(p) \in Table /\ TableTypes /\ UNCHANGED pa
        /\ perm' = [perm EXCEPT ![Cur(p)][s] = Protect(p, s)]
    <2>1. th[p].at = "forkmap" /\ s < sz[p]
      BY DEF ForkMapFails, NeedsWalk
    <2>2. th[p].k = "fork" /\ th[p].n = sz[p]
      BY <2>1, PathFacts DEF ServesCall, LoopBounds
    <2> QED
      BY <2>1, <2>2, ForkMapFacts, PathFacts DEF ForkMapFails
  <1>2. ~Protect(p, s).w
    BY <1>1, ProtectNeither
  <1>3. Quiet(p)
    BY QuietAllocation
  <1> HIDE DEF s
  <1>4. \A u \in Table, va \in VA :
          IF va = s /\ u = Cur(p) THEN ~perm'[u][va].w ELSE perm'[u][va] = perm[u][va]
    BY <1>1, <1>2 DEF TableTypes
  <1>5. \A u \in Table, va \in VA : Stores(u, va)' => Stores(u, va)
    BY <1>1, <1>4 DEF Stores
  <1>6. NeverBoth'
    BY <1>4 DEF OwnerInv, NeverBoth
  <1>7. Held' = Held
    BY <1>3, QuietStep DEF Refs!vars
  <1>8. \A y \in Slot : Exclusive(y)' => Exclusive(y)
    BY <1>3, <1>5, ExclusiveStays DEF Quiet
  <1> QED
    BY <1>6, <1>7, <1>8, OwnersStay DEF OwnerInv

\* krefpage() counts a page that the parent's entry, no longer writable, refers to.
LEMMA ForkRefOwners ==
  ASSUME ShapeInv, ShapeInv', OwnerInv, NEW p \in Proc, ForkRef(p), UNCHANGED kern
  PROVE  OwnerInv'
  <1>x. PICK x, y, g : /\ x = <<Target(p), th[p].i>> /\ y = <<Cur(p), th[p].i>>
                       /\ g = pa[Cur(p)][th[p].i]
    OBVIOUS
  <1>1. /\ Redirects(x, g) /\ ~Pends(p)' /\ g \in Page /\ Held[x] = NoPage
        /\ y \in Slot /\ Held[y] = g /\ \A q \in Proc : Pends(q) => Place(q) # y
    BY <1>x, ForkRefRefs
  <1>2. ~perm[Cur(p)][th[p].i].w
    BY PathFacts DEF ForkRef, LoopBounds
  <1>3. UNCHANGED tables
    BY DEF ForkRef
  <1>4. ~Exclusive(y)
    BY <1>x, <1>1, <1>2 DEF Exclusive, Stores
  <1>5. \A z \in Slot : Exclusive(z) => Held[z] # g
    BY <1>1, <1>4 DEF OwnerInv, OneOwner, Alone
  <1>6. \A u \in Table, va \in VA : Stores(u, va)' => Stores(u, va)
    BY <1>3 DEF Stores, tables
  <1>7. \A z \in Slot : Exclusive(z)' /\ z # x => Exclusive(z)
    BY <1>1, <1>6, ExclusiveMoves
  <1>8. ~Exclusive(x)'
    <2>1. ~Exclusive(x)
      BY <1>1 DEF OwnerInv, OneOwner, Alone, Redirects
    <2>2. OthersStay(p)
      <3>1. th \in [Proc -> Path] /\ UNCHANGED active
        BY PathFields, PathFacts DEF ForkRef, procs
      <3>2. \A q \in Proc : q # p => th'[q] = th[q]
        BY <3>1 DEF ForkRef
      <3> QED
        BY <3>1, <3>2, StayLemma
    <2> QED
      BY <1>1, <1>6, <2>1, <2>2, ExclusiveStays
  <1>9. NeverBoth'
    BY <1>3 DEF OwnerInv, NeverBoth, tables
  <1> QED
    BY <1>1, <1>5, <1>7, <1>8, <1>9, OwnersMove DEF OwnerInv

\* A shared page is copied, or taken over by the only one who has it left.
LEMMA CowCopyOwners ==
  ASSUME ShapeInv, ShapeInv', Counted, OwnerInv, NEW p \in Proc, NEW va \in VA, NEW k,
         CheckCow(p, va), CowCopy(p, va, k), th[p].at \in {"user", "copyout"}, UNCHANGED kern
  PROVE  OwnerInv'
  <1> DEFINE x == <<Cur(p), va>>
             g == pa[Cur(p)][va]
  <1>1. PICK h \in Page : /\ g \in Page /\ Held[x] = g /\ Redirects(x, h)
                          /\ ((h = g /\ SoleOwner(g)) \/ h \in free)
    BY CowCopyRefs
  <1>2. UNCHANGED tables
    BY DEF CowCopy
  <1>3. \A u \in Table, w \in VA : Stores(u, w)' => Stores(u, w)
    BY <1>2 DEF Stores, tables
  <1> HIDE DEF x, g
  <1>4. \A y \in Slot : Exclusive(y)' /\ y # x => Exclusive(y)
    BY <1>1, <1>3, ExclusiveMoves
  <1>5. NeverBoth'
    BY <1>2 DEF OwnerInv, NeverBoth, tables
  <1>6. CASE h = g /\ SoleOwner(g)
    <2>1. Alone(x)
      BY <1>1, <1>6, SoleIsAlone DEF Redirects
    <2>2. Held' = Held
      <3>1. Redirects(x, g) /\ Held[x] = g
        BY <1>1, <1>6
      <3> QED
        BY <3>1 DEF Redirects
    <2> QED
      BY <1>4, <1>5, <2>1, <2>2, OwnersStay DEF OwnerInv
  <1>7. CASE h \in free
    <2>1. h # NoPage /\ \A z \in Slot : Held[z] # h
      BY <1>7, FreshPage, ConstantTypes
    <2> QED
      BY <1>1, <1>4, <1>5, <2>1, OwnersMove DEF OwnerInv
  <1> QED
    BY <1>1, <1>6, <1>7

\* uvmcowcopy() gives PTE_W back to an entry whose page is its alone.
LEMMA RemapOwners ==
  ASSUME ShapeInv, ShapeInv', OwnerInv, NEW p \in Proc, Remap(p), UNCHANGED kern
  PROVE  OwnerInv'
  <1> DEFINE c == Cur(p)
             s == th[p].i
  <1>1. th[p].at = "remap" /\ Pends(p) /\ Place(p) = <<c, s>> /\ Value(p) # NoPage
    BY PathFacts DEF Remap, Pends, Place, Value, LoopBounds
  <1>2. c \in Table /\ s \in VA /\ s \in Where /\ TableTypes
    BY <1>1, PlaceFacts, ConstantTypes, PathFacts
  <1>3. /\ pa' = [pa EXCEPT ![c][s] = th[p].pg]
        /\ perm' = [perm EXCEPT ![c][s] = [@ EXCEPT !.w = TRUE, !.cow = FALSE]]
    BY DEF Remap
  <1>4. Held' = Held /\ ~Pends(p)' /\ OthersStay(p)
    BY RemapRefs DEF Refs!vars
  <1> HIDE DEF c, s
  <1>5. \A u \in Table, va \in VA : <<u, va>> # <<c, s>> => pa'[u][va] = pa[u][va] /\ perm'[u][va] = perm[u][va]
    BY <1>2, <1>3, ConstantTypes DEF TableTypes
  <1>6. ~perm'[c][s].cow
    <2>1. perm[c][s] \in Perm /\ perm'[c][s] = [perm[c][s] EXCEPT !.w = TRUE, !.cow = FALSE]
      BY <1>2, <1>3 DEF TableTypes
    <2> QED
      BY <2>1 DEF Perm
  <1>7. NeverBoth'
    BY <1>5, <1>6 DEF OwnerInv, NeverBoth
  <1>8. Exclusive(<<c, s>>)
    BY <1>1 DEF Exclusive
  <1>9. ASSUME NEW y \in Slot, Exclusive(y)' PROVE Exclusive(y)
    <2>1. CASE \E u \in Table, va \in VA : y = <<u, va>> /\ Stores(u, va)'
      BY <1>5, <1>8, <2>1 DEF Exclusive, Stores
    <2>2. CASE \E q \in Proc : Pends(q)' /\ Value(q)' # NoPage /\ Place(q)' = y
      BY <1>4, <2>2 DEF Exclusive, OthersStay
    <2> QED
      BY <1>9, <2>1, <2>2 DEF Exclusive
  <1> QED
    BY <1>4, <1>7, <1>9, OwnersStay DEF OwnerInv

\* At the start nothing is mapped.
LEMMA InitOwners ==
  ASSUME Init PROVE OwnerInv
  <1>1. /\ th = [p \in Proc |-> At(IF p = InitProc THEN "boot" ELSE "dead", "none")]
        /\ perm = [t \in Table |-> [va \in VA |-> NoPerm]]
    BY DEF Init
  <1>2. \A p \in Proc : ~Pends(p)
    BY <1>1 DEF Pends, At
  <1>3. \A t \in Table, va \in VA : ~perm[t][va].w
    BY <1>1 DEF NoPerm
  <1> QED
    BY <1>2, <1>3 DEF OwnerInv, OneOwner, NeverBoth, Exclusive, Stores

\* Every step keeps what may be stored to with one owner.
LEMMA StepKeepsOwners ==
  ASSUME ShapeInv, ShapeInv', Counted, OwnerInv, [Next]_vars PROVE OwnerInv'
  <1>1. ASSUME KernelAlloc PROVE OwnerInv'
    BY <1>1, KernelOwners
  <1>2. ASSUME NEW p \in Proc, UserStep(p), UNCHANGED kern PROVE OwnerInv'
    <2>1. ASSUME NEW va \in VA, NEW d \in Data, Store(p, va, d) PROVE OwnerInv'
      <3>1. Quiet(p) /\ UNCHANGED perm
        BY <2>1, QuietCalls DEF Store, tables
      <3> QED
        BY <1>2, <3>1, QuietOwners
    <2>2. ASSUME NEW va \in VA, CowFault(p, va) PROVE OwnerInv'
      BY <1>2, <2>2, CowCopyOwners DEF CowFault, InUser
    <2>3. ASSUME InUser(p), Exit(p) PROVE OwnerInv'
      <3>1. Quiet(p)
        BY <2>3, QuietExit
      <3>2. UNCHANGED perm
        BY <2>3, Zenon DEF Exit, Panic, tables
      <3> QED
        BY <1>2, <3>1, <3>2, QuietOwners
    <2>4. ASSUME \/ \E va \in VA : Read(p, va)
                 \/ \E c \in Proc : Wait(p, c)
                 \/ \E m \in 0 .. NVA : Sbrk(p, m)
          PROVE  OwnerInv'
      <3>1. Quiet(p)
        BY <2>4, QuietCalls
      <3>2. UNCHANGED perm
        BY <2>4 DEF Read, Wait, Sbrk, tables
      <3> QED
        BY <1>2, <3>1, <3>2, QuietOwners
    <2>5. ASSUME NEW c \in Proc, Fork(p, c) PROVE OwnerInv'
      BY <1>2, <2>5, AllocationOwners
    <2>6. Exec(p) => OwnerInv'
      BY <1>2, AllocationOwners
    <2>7. (Quit(p) \/ \E va \in VA : CowFaultKills(p, va)) => InUser(p) /\ Exit(p)
      BY DEF Quit, CowFaultKills
    <2> QED
      BY <1>2, <2>1, <2>2, <2>3, <2>4, <2>5, <2>6, <2>7 DEF UserStep
  <1>3. ASSUME NEW p \in Proc, KernelStep(p), UNCHANGED kern PROVE OwnerInv'
    <2>1. UserInit(p) \/ WalkAlloc(p) \/ AllocPage(p) => OwnerInv'
      BY <1>3, AllocationOwners
    <2>2. MapPage(p) \/ MapFails(p) \/ UnmapPage(p) => OwnerInv'
      BY <1>3, MapPageOwners, MapFailsOwners, UnmapPageOwners
    <2>3. \A s \in {Leaf, Root} : FreewalkPage(p, s) => OwnerInv'
      BY <1>3, FreewalkPageOwners
    <2>4. ForkMap(p) \/ ForkRef(p) \/ ForkMapFails(p) \/ Remap(p) => OwnerInv'
      BY <1>3, ForkMapOwners, ForkRefOwners, ForkMapFailsOwners, RemapOwners
    <2>5. CopyoutCow(p) => OwnerInv'
      <3>1. ASSUME CopyoutCow(p) PROVE th[p].i \in VA
        BY <3>1, PathFacts DEF CopyoutCow, LoopBounds
      <3> QED
        BY <1>3, <3>1, CowCopyOwners DEF CopyoutCow
    <2>6. ASSUME \/ AllocFails(p) \/ AllocDone(p) \/ UnmapDone(p) \/ FreewalkDone(p) \/ ForkDone(p)
                 \/ CopyoutGoesOn(p) \/ PutFails(p) \/ ExecCommit(p)
                 \/ \E d \in Data : Put(p, d)
          PROVE  OwnerInv'
      <3>1. Quiet(p)
        BY <2>6, QuietAllocation, QuietReturns, QuietForkDone, QuietCalls
      <3>2. UNCHANGED perm
        BY <2>6 DEF AllocFails, AllocDone, UnmapDone, FreewalkDone, ForkDone, CopyoutGoesOn, PutFails,
                    ExecCommit, Put, tables
      <3> QED
        BY <1>3, <3>1, <3>2, QuietOwners
    <2> QED
      BY <1>3, <2>1, <2>2, <2>3, <2>4, <2>5, <2>6 DEF KernelStep
  <1>4. CASE UNCHANGED vars
    <2>1. Held' = Held
      BY <1>4 DEF vars, Held, Fills, Target, Cur, Scratch
    <2>2. \A y \in Slot : Exclusive(y)' => Exclusive(y)
      BY <1>4 DEF vars, Exclusive, Stores, Pends, Place, Value, Target, Cur, Scratch
    <2> QED
      BY <1>4, <2>1, <2>2, OwnersStay DEF OwnerInv, NeverBoth, vars
  <1> QED
    BY <1>1, <1>2, <1>3, <1>4 DEF Next

\* Nothing that a process can store to through its page table is referred to from
\* anywhere else, by an entry of another table or of its own, or by a path that
\* has yet to map it (vm.c uvmcopy, uvmcowcopy, uvmalloc).
THEOREM ExclusiveOwners == Spec => []OwnerInv
  <1>1. Init => OwnerInv
    BY InitOwners
  <1>2. ShapeInv /\ ShapeInv' /\ Counted /\ OwnerInv /\ [Next]_vars => OwnerInv'
    BY StepKeepsOwners
  <1>3. Refs!RefInv => Counted
    BY CountedIs
  <1> QED
    BY <1>1, <1>2, <1>3, ShapeInvariance, CountsAreExact, PTL DEF Spec

\* In user space a process maps exactly the pages below p->sz, those it can store
\* to belong to it alone, and no panic of mappages, uvmunmap, uvmcopy or freewalk
\* is ever reached, for any number of processes and pages, whichever allocation
\* fails (vm.c, proc.c, exec.c, trap.c).
THEOREM PageTablesAreSound == Spec => []PageTableSound
  <1>1. ASSUME ShapeInv, OwnerInv PROVE PageTableSound
    <2>1. WritableIsExclusive
      <3> SUFFICES ASSUME NEW p \in Proc, NEW va \in VA, Writable(p, va)
                   PROVE  Refs!Holders(pa[Cur(p)][va]) = {<<Cur(p), va>>}
        BY DEF WritableIsExclusive
      <3> DEFINE y == <<Cur(p), va>>
      <3>1. /\ Stores(Cur(p), va) /\ Cur(p) \in Table /\ TypeOK /\ va \in Where /\ va \in Int
        BY <1>1, TheTables, PathFacts, ConstantTypes DEF Writable, Stores
      <3>2. y \in Slot /\ Exclusive(y)
        BY <3>1 DEF Exclusive, Slot
      <3>3. Alone(y)
        BY <1>1, <3>2 DEF OwnerInv, OneOwner
      <3>4. \A q \in Proc : Pends(q) => Place(q) # y
        <4> SUFFICES ASSUME NEW q \in Proc, Pends(q), Place(q) = y PROVE FALSE
          OBVIOUS
        <4>1. Held[y] = Value(q) /\ Held[y] # NoPage
          BY <1>1, <3>3, HeldAt DEF HeldFacts, Alone
        <4>2. CASE th[q].at = "forkref"
          BY <4>1, <4>2 DEF Value
        <4>3. CASE th[q].at = "map"
          <5>1. Target(q) = Cur(p) /\ th[q].i = va
            BY <4>3 DEF Place
          <5> QED
            BY <1>1, <3>1, <4>3, <5>1, PathFacts DEF Progress, Maps, Stores
        <4>4. CASE th[q].at = "remap"
          <5>1. Cur(q) = Cur(p) /\ th[q].i = va
            BY <4>4 DEF Place
          <5>2. perm[Cur(q)][th[q].i].cow
            BY <1>1, <4>4, PathFacts DEF LoopBounds
          <5> QED
            BY <1>1, <3>1, <5>1, <5>2 DEF OwnerInv, NeverBoth, Stores
        <4> QED
          BY <4>2, <4>3, <4>4 DEF Pends
      <3>5. Held[y] = pa[Cur(p)][va]
        BY <1>1, <3>1, <3>4, HeldAt DEF HeldFacts
      <3> QED
        BY <3>2, <3>3, <3>5 DEF Alone, Refs!Holders
    <2>2. ASSUME NEW p \in Proc, InUser(p)
          PROVE  /\ \A va \in VA : pa[Cur(p)][va] # NoPage <=> va < sz[p]
                 /\ \A s \in Where : pa[Scratch(p)][s] = NoPage
      <3>1. th[p].at = "user" /\ th[p].k = "none"
        BY <1>1, <2>2, PathFacts DEF InUser, ServesCall
      <3> QED
        BY <1>1, <3>1, PathFacts DEF Keeps, Acts, Full, Maps, Void
    <2>3. ASSUME NEW p \in Proc, th[p].at = "panic" PROVE th[p].k = "init exiting"
      BY <1>1, <2>3, PathFacts DEF ServesCall
    <2> QED
      BY <1>1, <2>1, <2>2, <2>3 DEF PageTableSound, ShapeInv
  <1> QED
    BY <1>1, ShapeInvariance, ExclusiveOwners, PTL
-----------------------------------------------------------------------------
(* What the programs see *)

\* What a place refers to holds.
Con == [x \in Slot |-> IF Held[x] = NoPage THEN NoPage ELSE data[Held[x]]]

\* The pages that a call has mapped hold what the program is to find in them:
\* zeroes (uvmalloc), ...
Zeroed(p) == LET t == th[p]  T == Target(p) IN
  t.at \in {"alloc", "map"} /\ t.k # "fork" =>
    \A va \in VA : t.lo <= va /\ va < t.i => Con[<<T, va>>] = Zero

\* ... what the parent's hold (uvmcopy), ...
Copied(p) == LET t == th[p]  T == Target(p) IN
  t.at \in {"alloc", "map", "forkmap", "forkref"} /\ t.k = "fork" =>
    \A va \in VA : va < t.i => Con[<<T, va>>] = Con[<<Cur(p), va>>]

\* ... either of them in the page that is still to be mapped, ...
Filled(p) == LET t == th[p]  T == Target(p) IN
  t.at = "map" => Con[<<T, t.i>>] = IF t.k = "fork" THEN Con[<<Cur(p), t.i>>] ELSE Zero

\* ... and zeroes below the stack and there the arguments (exec).
Loaded(p) == LET t == th[p]  T == Target(p) IN
  /\ t.at \in {"copyout", "remap", "put", "commit"} /\ t.k = "exec" =>
       \A va \in VA : va < Len(Image) - 1 => Con[<<T, va>>] = Zero
  /\ t.at \in {"copyout", "remap", "put"} /\ t.k = "exec" => t.i = Len(Image) - 1
  /\ t.at = "commit" => Con[<<T, Len(Image) - 1>>] \in Data

Built(p) == Zeroed(p) /\ Copied(p) /\ Filled(p) /\ Loaded(p)

SizeInv == \A p \in Proc : status[p] \in {"unused", "used"} => sz[p] = 0
ContentInv == SizeInv /\ \A p \in Proc : Built(p)

\* copyout() stores to pages that the program itself could store to, as it would
\* if walkaddr() asked for PTE_W and the result of uvmcowcopy() were looked at.
CopyoutAsksForWrite == \A p \in Proc, d \in Data : Put(p, d) => perm[PutTable(p)][th[p].i].w

\* The places that a program's addresses stand for.
Entry == Table \X VA
SameBut(x) == \A y \in Entry : y # x => Con'[y] = Con[y]
SameAll == \A y \in Entry : Con'[y] = Con[y]
MemStep == Private!Next \/ UNCHANGED UserMem

\* An entry is a place, and is written as its table and its page.
LEMMA EntryIs ==
  /\ Entry \subseteq Slot
  /\ \A y \in Entry : y[1] \in Table /\ y[2] \in VA /\ y = <<y[1], y[2]>>
  /\ \A t \in Table, va \in VA : <<t, va>> \in Entry
  <1>1. \A y \in Entry : y[1] \in Table /\ y[2] \in VA /\ y = <<y[1], y[2]>>
    BY DEF Entry
  <1>2. \A t \in Table, va \in VA : <<t, va>> \in Entry
    BY DEF Entry
  <1>3. \A t \in Table, va \in VA : <<t, va>> \in Slot
    BY ConstantTypes DEF Slot
  <1> QED
    BY <1>1, <1>2, <1>3

\* What a place shows, before a step and after it.
LEMMA ConIs ==
  ASSUME NEW y \in Slot
  PROVE  /\ Con[y] = IF Held[y] = NoPage THEN NoPage ELSE data[Held[y]]
         /\ Con'[y] = IF Held'[y] = NoPage THEN NoPage ELSE data'[Held'[y]]
  BY DEF Con, Slot, Table, Where

\* What a process sees.
LEMMA UserMemIs ==
  ASSUME NEW p \in Proc, NEW va \in VA
  PROVE  /\ TypeOK => UserMem[p][va] = IF va < sz[p] THEN Con[<<Cur(p), va>>] ELSE NoPage
         /\ TypeOK' => UserMem'[p][va] = IF va < sz'[p] THEN Con'[<<Cur(p)', va>>] ELSE NoPage
  <1>1. TypeOK => <<Cur(p), va>> \in Slot
    BY TheTables, EntryIs
  <1>2. TypeOK' => <<Cur(p)', va>> \in Slot
    <2>1. TypeOK' => Cur(p)' \in Table
      BY TypePartsAfter DEF ProcTypes, Cur, Table
    <2> QED
      BY <2>1, EntryIs
  <1>3. TypeOK => UserMem[p][va] = IF va < sz[p] THEN Con[<<Cur(p), va>>] ELSE NoPage
    BY <1>1, ConIs DEF UserMem
  <1>4. TypeOK' => UserMem'[p][va] = IF va < sz'[p] THEN Con'[<<Cur(p)', va>>] ELSE NoPage
    BY <1>2, ConIs DEF UserMem
  <1> QED
    BY <1>3, <1>4

\* A step that moves one reference, to page v, and changes no page that others refer to.
LEMMA ConMoves ==
  ASSUME ShapeInv, Counted, NEW x, NEW v \in Page \cup {NoPage}, Redirects(x, v),
         \A y \in Slot : y # x /\ Held[y] \in Page \ free => data'[Held[y]] = data[Held[y]]
  PROVE  /\ \A y \in Slot : y # x => Con'[y] = Con[y]
         /\ Con'[x] = IF v = NoPage THEN NoPage ELSE data'[v]
  <1>1. \A y \in Slot : Held[y] \in Page \cup {NoPage} /\ Held'[y] = IF y = x THEN v ELSE Held[y]
    BY DEF Redirects
  <1>2. \A y \in Slot : Held[y] \in free => FALSE
    BY FreshPage
  <1>3. x \in Slot
    BY DEF Redirects
  <1>4. ASSUME NEW y \in Slot, y # x PROVE Con'[y] = Con[y]
    <2>1. Held'[y] = Held[y]
      BY <1>1, <1>4
    <2>2. Held[y] # NoPage => Held[y] \in Page \ free
      BY <1>1, <1>2
    <2> QED
      BY <1>4, <2>1, <2>2, ConIs
  <1>5. Con'[x] = IF v = NoPage THEN NoPage ELSE data'[v]
    BY <1>1, <1>3, ConIs
  <1> QED
    BY <1>4, <1>5

\* kalloc() gives a place a page of its own.
LEMMA ConTakes ==
  ASSUME ShapeInv, Counted, NEW g \in free, NEW d, Kalloc(g, d), NEW x, NEW h \in free, Redirects(x, h)
  PROVE  /\ \A y \in Slot : y # x => Con'[y] = Con[y]
         /\ h = g => Con'[x] = d
  <1>1. free \subseteq Page /\ data \in [Page -> Data \cup {Junk}] /\ NoPage \notin Page
    BY PathFacts, TypeParts, ConstantTypes DEF ShapeInv, MemTypes
  <1>2. data' = [data EXCEPT ![g] = d]
    BY DEF Kalloc
  <1>3. \A y \in Slot : y # x /\ Held[y] \in Page \ free => data'[Held[y]] = data[Held[y]]
    BY <1>1, <1>2
  <1>4. /\ \A y \in Slot : y # x => Con'[y] = Con[y]
        /\ Con'[x] = IF h = NoPage THEN NoPage ELSE data'[h]
    BY <1>1, <1>3, ConMoves
  <1> QED
    BY <1>1, <1>2, <1>4

\* kfree() takes a page from a place, and from no other.
LEMMA ConDrops ==
  ASSUME ShapeInv, Counted, NEW g \in Page, Kfree(g), NEW x, Held[x] = g, Redirects(x, NoPage)
  PROVE  /\ \A y \in Slot : y # x => Con'[y] = Con[y]
         /\ Con'[x] = NoPage
  <1>1. ref \in [Page -> Int] /\ data \in [Page -> Data \cup {Junk}] /\ x \in Slot
    BY TypeParts DEF ShapeInv, MemTypes, Redirects
  <1>2. ASSUME NEW y \in Slot, y # x, Held[y] \in Page \ free PROVE data'[Held[y]] = data[Held[y]]
    <2>1. CASE Held[y] = g
      <3>1. ~SoleOwner(g)
        BY <1>1, <1>2, <2>1, SoleIsAlone DEF Alone
      <3>2. ~(ref[g] - 1 <= 0)
        BY <1>1, <3>1 DEF SoleOwner
      <3> QED
        BY <3>2 DEF Kfree
    <2>2. CASE Held[y] # g
      BY <1>1, <1>2, <2>2 DEF Kfree
    <2> QED
      BY <2>1, <2>2
  <1> QED
    BY <1>2, ConMoves

\* A copy shows what the page it is made of shows.
LEMMA ConCopies ==
  ASSUME ShapeInv, Counted, NEW g \in Page, NEW x, Held[x] = g, NEW h \in Page, Redirects(x, h),
         \/ h = g /\ UNCHANGED data
         \/ KcopyTo(g, h)
  PROVE  \A y \in Slot : Con'[y] = Con[y]
  <1>1. data \in [Page -> Data \cup {Junk}] /\ x \in Slot /\ NoPage \notin Page
    BY TypeParts, ConstantTypes DEF ShapeInv, MemTypes, Redirects
  <1>2. CASE h = g /\ UNCHANGED data
    <2>1. /\ \A y \in Slot : y # x => Con'[y] = Con[y]
          /\ Con'[x] = IF h = NoPage THEN NoPage ELSE data'[h]
      BY <1>2, ConMoves
    <2>2. Con[x] = data[g]
      BY <1>1, ConIs
    <2> QED
      BY <1>1, <1>2, <2>1, <2>2
  <1>3. CASE KcopyTo(g, h)
    <2>1. h \in free /\ data' = [data EXCEPT ![h] = data[g]]
      BY <1>3 DEF KcopyTo
    <2>2. \A y \in Slot : y # x /\ Held[y] \in Page \ free => data'[Held[y]] = data[Held[y]]
      BY <1>1, <2>1
    <2>3. /\ \A y \in Slot : y # x => Con'[y] = Con[y]
          /\ Con'[x] = IF h = NoPage THEN NoPage ELSE data'[h]
      BY <2>2, ConMoves
    <2>4. Con[x] = data[g]
      BY <1>1, ConIs
    <2> QED
      BY <1>1, <2>1, <2>3, <2>4
  <1> QED
    BY <1>2, <1>3

\* A store to a page that only one entry refers to changes what that entry shows.
LEMMA ConWrites ==
  ASSUME ShapeInv, NEW x \in Slot, Alone(x), Held[x] \in Page, NEW d,
         data' = [data EXCEPT ![Held[x]] = d], Held' = Held
  PROVE  /\ \A y \in Slot : y # x => Con'[y] = Con[y]
         /\ Con'[x] = d
  <1>1. data \in [Page -> Data \cup {Junk}] /\ NoPage \notin Page /\ Held \in [Slot -> Page \cup {NoPage}]
    BY TypeParts, ConstantTypes, HeldAt DEF ShapeInv, MemTypes, HeldFacts
  <1>2. ASSUME NEW y \in Slot, y # x PROVE Con'[y] = Con[y]
    <2>1. Held[y] # Held[x]
      BY <1>2 DEF Alone
    <2>2. Held[y] # NoPage => data'[Held[y]] = data[Held[y]]
      BY <1>1, <2>1
    <2> QED
      BY <1>2, <2>2, ConIs
  <1>3. Con'[x] = data'[Held[x]]
    BY <1>1, ConIs
  <1> QED
    BY <1>1, <1>2, <1>3

\* What a path has built stays while its own entries show the same.
LEMMA BuiltStays ==
  ASSUME ShapeInv, NEW q \in Proc, Built(q), th'[q] = th[q],
         \A r \in Reach(q) : active'[r] = active[r],
         \A y \in Entry : y[1][1] \in Reach(q) => Con'[y] = Con[y]
  PROVE  Built(q)'
  <1>1. Target(q) \in Table /\ Cur(q) \in Table /\ Target(q)[1] \in Reach(q) /\ Cur(q)[1] \in Reach(q)
    BY OwnTables, TheTables, ReachTypes DEF ShapeInv
  <1>2. Target(q)' = Target(q) /\ Cur(q)' = Cur(q)
    BY DEF Target, Cur, Scratch, Reach, HasKid
  <1>3. \A va \in VA : /\ Con'[<<Target(q), va>>] = Con[<<Target(q), va>>]
                       /\ Con'[<<Cur(q), va>>] = Con[<<Cur(q), va>>]
    <2> SUFFICES ASSUME NEW va \in VA
                 PROVE  /\ Con'[<<Target(q), va>>] = Con[<<Target(q), va>>]
                        /\ Con'[<<Cur(q), va>>] = Con[<<Cur(q), va>>]
      OBVIOUS
    <2>1. <<Target(q), va>> \in Entry /\ <<Cur(q), va>> \in Entry
      BY <1>1, EntryIs
    <2> QED
      BY <1>1, <2>1
  <1>4. th[q].at = "map" => th[q].i \in VA
    <2>1. th[q].at = "map" => th[q].i < th[q].n
      BY PathFacts DEF LoopBounds
    <2> QED
      BY <2>1, IndexInTable, PathFacts
  <1>5. th[q].at = "commit" => Len(Image) - 1 \in VA
    BY ConstantTypes
  <1>6. Zeroed(q)'
    BY <1>2, <1>3 DEF Built, Zeroed
  <1>7. Copied(q)'
    BY <1>2, <1>3 DEF Built, Copied
  <1>8. Filled(q)'
    BY <1>2, <1>3, <1>4 DEF Built, Filled
  <1>9. Loaded(q)'
    BY <1>2, <1>3, <1>5 DEF Built, Loaded
  <1> QED
    BY <1>6, <1>7, <1>8, <1>9 DEF Built

\* A step of path p leaves what the other paths have built.
LEMMA BuiltElsewhere ==
  ASSUME ShapeInv, ContentInv, NEW p \in Proc, Acts(p), NEW q \in Proc, q # p, th'[q] = th[q],
         \A r \in Proc : r \notin Reach(p) => active'[r] = active[r],
         \A y \in Entry : y[1][1] \notin Reach(p) => Con'[y] = Con[y]
  PROVE  Built(q)'
  <1>1. CASE Acts(q)
    <2>1. \A r \in Reach(q) : r \in Proc /\ r \notin Reach(p)
      BY <1>1, ReachApart, ReachTypes
    <2> QED
      BY <2>1, BuiltStays DEF ContentInv
  <1>2. CASE ~Acts(q)
    BY <1>2 DEF Acts, Built, Zeroed, Copied, Filled, Loaded
  <1> QED
    BY <1>1, <1>2

\* A process sees what it saw when its size, its page table and its entries stay.
LEMMA SeenStays ==
  ASSUME ShapeInv, ShapeInv', NEW q \in Proc, active'[q] = active[q], sz'[q] = sz[q],
         \A va \in VA : va < sz[q] => Con'[<<Cur(q), va>>] = Con[<<Cur(q), va>>]
  PROVE  UserMem'[q] = UserMem[q]
  <1>1. Cur(q)' = Cur(q)
    BY DEF Cur
  <1>2. \A va \in VA : UserMem'[q][va] = UserMem[q][va]
    BY <1>1, UserMemIs DEF ShapeInv
  <1> QED
    BY <1>2 DEF UserMem

\* A step that changes what one entry shows, at most, and nobody's size or page table.
LEMMA HiddenStep ==
  ASSUME ShapeInv, ShapeInv', UNCHANGED <<active, sz>>, NEW x, SameBut(x),
         \A q \in Proc, va \in VA : va < sz[q] => <<Cur(q), va>> # x
  PROVE  UNCHANGED UserMem
  <1>1. ASSUME NEW q \in Proc PROVE UserMem'[q] = UserMem[q]
    <2>1. \A va \in VA : <<Cur(q), va>> \in Entry
      BY TheTables, EntryIs DEF ShapeInv
    <2> QED
      BY <2>1, SeenStays DEF SameBut
  <1> QED
    BY <1>1 DEF UserMem

\* A step that changes what one page shows that a process sees, and nobody's size or page table.
LEMMA SeenStep ==
  ASSUME ShapeInv, ShapeInv', UNCHANGED <<active, sz>>, NEW c \in Proc, NEW va \in VA, va < sz[c],
         SameBut(<<Cur(c), va>>)
  PROVE  UserMem' = [UserMem EXCEPT ![c][va] = Con'[<<Cur(c), va>>]]
  <1>1. ASSUME NEW q \in Proc, q # c PROVE UserMem'[q] = UserMem[q]
    <2>1. \A b \in VA : <<Cur(q), b>> \in Entry /\ <<Cur(q), b>> # <<Cur(c), va>>
      BY <1>1, TheTables, EntryIs DEF ShapeInv, Cur
    <2> QED
      BY <2>1, SeenStays DEF SameBut
  <1>2. ASSUME NEW b \in VA, b # va PROVE UserMem'[c][b] = UserMem[c][b]
    <2>1. <<Cur(c), b>> \in Entry /\ <<Cur(c), b>> # <<Cur(c), va>> /\ Cur(c)' = Cur(c)
      BY <1>2, TheTables, EntryIs DEF ShapeInv, Cur
    <2> QED
      BY <2>1, UserMemIs DEF SameBut, ShapeInv
  <1>3. UserMem'[c][va] = Con'[<<Cur(c), va>>]
    BY UserMemIs DEF Cur, ShapeInv
  <1>4. /\ UserMem = [q \in Proc |-> UserMem[q]] /\ UserMem' = [q \in Proc |-> UserMem'[q]]
        /\ UserMem[c] = [b \in VA |-> UserMem[c][b]] /\ UserMem'[c] = [b \in VA |-> UserMem'[c][b]]
    BY DEF UserMem
  <1>5. UserMem'[c] = [UserMem[c] EXCEPT ![va] = Con'[<<Cur(c), va>>]]
    BY <1>2, <1>3, <1>4
  <1> QED
    BY <1>1, <1>4, <1>5
-----------------------------------------------------------------------------
(* Each step is one of PrivateMemory, or none *)

\* A step that changes nothing that any entry shows, and nobody's size or page table.
LEMMA PlainStep ==
  ASSUME ShapeInv, ShapeInv', ContentInv, NEW p \in Proc, UNCHANGED <<active, sz>>, SameAll,
         \A q \in Proc : q # p => th'[q] = th[q],
         \A q \in Proc : status'[q] \in {"unused", "used"} => status[q] \in {"unused", "used"},
         Built(p)'
  PROVE  MemStep /\ ContentInv'
  <1>1. ASSUME NEW q \in Proc PROVE UserMem'[q] = UserMem[q]
    <2>1. \A va \in VA : <<Cur(q), va>> \in Entry
      BY TheTables, EntryIs DEF ShapeInv
    <2> QED
      BY <2>1, SeenStays DEF SameAll
  <1>2. UNCHANGED UserMem
    BY <1>1 DEF UserMem
  <1>3. ASSUME NEW q \in Proc PROVE Built(q)'
    <2>1. CASE q = p
      BY <2>1
    <2>2. CASE q # p
      <3>1. \A r \in Reach(q) : active'[r] = active[r]
        OBVIOUS
      <3> QED
        BY <2>2, <3>1, BuiltStays DEF ContentInv, SameAll
    <2> QED
      BY <2>1, <2>2
  <1>4. SizeInv'
    BY DEF SizeInv, ContentInv
  <1> QED
    BY <1>2, <1>3, <1>4 DEF ContentInv, MemStep

\* A path that builds nothing.
LEMMA BuiltNothing ==
  ASSUME NEW p \in Proc,
         th'[p].at \notin {"alloc", "map", "commit", "forkmap", "forkref"},
         th'[p].at \in {"copyout", "remap", "put"} => th'[p].k # "exec"
  PROVE  Built(p)'
  BY DEF Built, Zeroed, Copied, Filled, Loaded

\* A path that begins to build.
LEMMA BuiltBegins ==
  ASSUME NEW p \in Proc, th'[p].at \in {"alloc", "forkmap"}, th'[p].i \in Int,
         th'[p].lo = th'[p].i, th'[p].k = "fork" => th'[p].i = 0
  PROVE  Built(p)'
  <1>1. \A va \in VA : va \in Int /\ 0 <= va
    BY ConstantTypes
  <1> QED
    BY <1>1 DEF Built, Zeroed, Copied, Filled, Loaded

\* References and pages as they were: every place shows the same.
LEMMA ConStays ==
  ASSUME UNCHANGED <<Held, data>> PROVE SameAll
  BY EntryIs, ConIs DEF SameAll

\* A step that changes no reference and no page.
LEMMA QuietShows ==
  ASSUME ShapeInv, ShapeInv', NEW p \in Proc, Quiet(p), UNCHANGED <<kern, data>>
  PROVE  SameAll
  <1>1. UNCHANGED Held
    BY QuietStep DEF Refs!vars
  <1> QED
    BY <1>1, ConStays

\* Calls that only start, or end without having changed anything.
LEMMA CallsShow ==
  ASSUME ShapeInv, ShapeInv', ContentInv, NEW p \in Proc, UNCHANGED kern,
         \/ \E va \in VA : Read(p, va)
         \/ \E c \in Proc : Wait(p, c)
         \/ \E m \in 0 .. NVA : Sbrk(p, m)
         \/ PutFails(p)
  PROVE  MemStep /\ ContentInv'
  <1>1. th \in [Proc -> Path] /\ TypeOK
    BY PathFields, PathFacts
  <1>2. UNCHANGED <<data, procs>>
    <2>1. ASSUME NEW va \in VA, Read(p, va) PROVE UNCHANGED <<data, procs>>
      BY <2>1, Zenon DEF Read, mem
    <2>2. ASSUME NEW c \in Proc, Wait(p, c) PROVE UNCHANGED <<data, procs>>
      BY <2>2, Zenon DEF Wait, mem
    <2>3. ASSUME NEW m \in 0 .. NVA, Sbrk(p, m) PROVE UNCHANGED <<data, procs>>
      BY <2>3, Zenon DEF Sbrk, mem
    <2>4. ASSUME PutFails(p) PROVE UNCHANGED <<data, procs>>
      BY <2>4, Zenon DEF PutFails, mem
    <2> QED
      BY <2>1, <2>2, <2>3, <2>4
  <1>3. SameAll
    BY <1>2, QuietCalls, QuietShows
  <1>4. (\A q \in Proc : q # p => th'[q] = th[q]) /\ Built(p)'
    <2>1. ASSUME NEW va \in VA, Read(p, va)
          PROVE (\A q \in Proc : q # p => th'[q] = th[q]) /\ Built(p)'
      BY <1>1, <2>1, BuiltNothing DEF Read, Copyout, At
    <2>2. ASSUME NEW c \in Proc, Wait(p, c)
          PROVE (\A q \in Proc : q # p => th'[q] = th[q]) /\ Built(p)'
      <3>1. CASE th' = [th EXCEPT ![p] = [At("unmap", "wait") EXCEPT !.n = sz[c], !.kid = c]]
        BY <1>1, <3>1, BuiltNothing DEF At
      <3>2. ASSUME NEW va \in VA, Copyout(p, "wait", va, c)
            PROVE (\A q \in Proc : q # p => th'[q] = th[q]) /\ Built(p)'
        BY <1>1, <3>2, BuiltNothing DEF Copyout, At
      <3> QED
        BY <2>2, <3>1, <3>2 DEF Wait
    <2>3. ASSUME NEW m \in 0 .. NVA, Sbrk(p, m)
          PROVE (\A q \in Proc : q # p => th'[q] = th[q]) /\ Built(p)'
      <3>1. /\ \A q \in Proc : q # p => th'[q] = th[q]
            /\ th'[p].k = "sbrk" /\ sz[p] \in Int
            /\ \/ th'[p].at = "unmap"
               \/ th'[p].at = "alloc" /\ th'[p].i = sz[p] /\ th'[p].lo = sz[p]
        <4>1. CASE m > sz[p]
          <5>1. th' = [th EXCEPT ![p] = [At("alloc", "sbrk") EXCEPT !.i = sz[p], !.n = m, !.lo = sz[p]]]
            BY <2>3, <4>1 DEF Sbrk
          <5> QED
            BY <1>1, <5>1, PathFields DEF At
        <4>2. CASE ~(m > sz[p])
          <5>1. th' = [th EXCEPT ![p] = [At("unmap", "sbrk") EXCEPT !.i = m, !.n = sz[p], !.lo = m]]
            BY <2>3, <4>2 DEF Sbrk
          <5> QED
            BY <1>1, <5>1, PathFields DEF At
        <4> QED
          BY <4>1, <4>2
      <3> QED
        BY <3>1, BuiltNothing, BuiltBegins
    <2>4. ASSUME PutFails(p)
          PROVE (\A q \in Proc : q # p => th'[q] = th[q]) /\ Built(p)'
      BY <1>1, <2>4, BuiltNothing DEF PutFails, Return, User, At
    <2> QED
      BY <2>1, <2>2, <2>3, <2>4
  <1> QED
    BY <1>2, <1>3, <1>4, PlainStep DEF procs

\* A loop that fails, and exit().
LEMMA EndsShow ==
  ASSUME ShapeInv, ShapeInv', ContentInv, NEW p \in Proc, UNCHANGED kern,
         AllocFails(p) \/ ForkMapFails(p) \/ (InUser(p) /\ Exit(p))
  PROVE  MemStep /\ ContentInv'
  <1>1. th \in [Proc -> Path] /\ TypeOK
    BY PathFields, PathFacts
  <1>2. /\ UNCHANGED <<data, active, sz>>
        /\ \A q \in Proc : status'[q] \in {"unused", "used"} => status[q] \in {"unused", "used"}
    <2>1. CASE AllocFails(p)
      BY <2>1 DEF AllocFails, mem, procs
    <2>2. CASE ForkMapFails(p)
      BY <2>2 DEF ForkMapFails, mem, procs
    <2>3. CASE InUser(p) /\ Exit(p)
      BY <2>3, PathFacts DEF Exit, Panic, mem, procs, ProcTypes
    <2> QED
      BY <2>1, <2>2, <2>3
  <1>3. SameAll
    BY <1>2, QuietAllocation, QuietExit, QuietShows
  <1>4. (\A q \in Proc : q # p => th'[q] = th[q]) /\ th'[p].at \in {"unmap", "dead", "panic"}
    <2>1. CASE AllocFails(p)
      BY <1>1, <2>1 DEF AllocFails, GiveBack, Path
    <2>2. CASE ForkMapFails(p)
      BY <1>1, <2>2 DEF ForkMapFails, GiveBack, Path
    <2>3. CASE InUser(p) /\ Exit(p)
      <3>1. PICK why : why = "init exiting"
        OBVIOUS
      <3>2. th' = [th EXCEPT ![p] = At("panic", why)] \/ th' = [th EXCEPT ![p] = At("dead", "none")]
        BY <2>3, <3>1 DEF Exit, Panic
      <3> QED
        BY <1>1, <3>2 DEF At
    <2> QED
      BY <2>1, <2>2, <2>3
  <1> QED
    BY <1>2, <1>3, <1>4, BuiltNothing, PlainStep

\* A page that is taken for a place which is no program's shows nowhere, ...
LEMMA TakenAside ==
  ASSUME ShapeInv, Counted, NEW g \in free, NEW d, Kalloc(g, d), NEW x, x \notin Entry,
         NEW h \in free, Redirects(x, h)
  PROVE  SameAll
  BY ConTakes, EntryIs DEF SameAll

\* ... as do inner page tables and pages of the kernel.
LEMMA NoEntry ==
  /\ \A t : <<t, Leaf>> \notin Entry /\ <<t, Root>> \notin Entry
  /\ \A g : <<<<NoProc, 0>>, g>> \notin Entry
  BY ConstantTypes DEF Entry, Table

\* walk() adds an inner page table.
LEMMA WalkAllocShows ==
  ASSUME ShapeInv, ShapeInv', Counted, ContentInv, NEW p \in Proc, WalkAlloc(p), UNCHANGED kern
  PROVE  MemStep /\ ContentInv'
  <1>1. UNCHANGED <<th, procs>> /\ \E g \in free : Kalloc(g, Junk)
    BY DEF WalkAlloc
  <1>2. SameAll
    BY <1>1, WalkAllocRefs, TakenAside, NoEntry
  <1>3. Built(p)'
    BY <1>1, <1>2, BuiltStays DEF ContentInv, SameAll, procs
  <1> QED
    BY <1>1, <1>2, <1>3, PlainStep DEF procs

\* The root of a new page table: userinit(), exec() and fork() begin.
LEMMA NewTableShows ==
  ASSUME ShapeInv, ShapeInv', Counted, ContentInv, NEW p \in Proc, UNCHANGED kern,
         UserInit(p) \/ Exec(p) \/ \E c \in Proc : Fork(p, c)
  PROVE  MemStep /\ ContentInv'
  <1>1. th \in [Proc -> Path] /\ TypeOK /\ eager \in BOOLEAN
    BY PathFields, PathFacts
  <1>2. /\ \E g \in free : Kalloc(g, Junk)
        /\ UNCHANGED <<active, sz>>
        /\ \A q \in Proc : status'[q] \in {"unused", "used"} => status[q] \in {"unused", "used"}
    <2>1. CASE UserInit(p)
      BY <2>1 DEF UserInit, procs
    <2>2. CASE Exec(p)
      BY <2>2 DEF Exec, procs
    <2>3. CASE \E c \in Proc : Fork(p, c)
      BY <1>1, <2>3, PathFacts DEF Fork, ProcTypes
    <2> QED
      BY <2>1, <2>2, <2>3
  <1>3. SameAll
    BY <1>2, NewTableRefs, TakenAside, NoEntry
  <1>4. (\A q \in Proc : q # p => th'[q] = th[q]) /\ Built(p)'
    <2>1. CASE UserInit(p)
      BY <1>1, <2>1, BuiltBegins DEF UserInit, At
    <2>2. CASE Exec(p)
      BY <1>1, <2>2, BuiltBegins DEF Exec, At
    <2>3. ASSUME NEW c \in Proc, Fork(p, c)
          PROVE (\A q \in Proc : q # p => th'[q] = th[q]) /\ Built(p)'
      <3>1. PICK a \in {"alloc", "forkmap"} : th' = [th EXCEPT ![p] = [At(a, "fork") EXCEPT !.n = sz[p], !.kid = c]]
        BY <1>1, <2>3 DEF Fork
      <3> QED
        BY <1>1, <3>1, BuiltBegins DEF At
    <2> QED
      BY <2>1, <2>2, <2>3
  <1> QED
    BY <1>2, <1>3, <1>4, PlainStep

\* At boot the kernel takes its pages.
LEMMA KernelShows ==
  ASSUME ShapeInv, ShapeInv', Counted, ContentInv, KernelAlloc
  PROVE  MemStep /\ ContentInv'
  <1>1. UNCHANGED <<th, procs>> /\ \E g \in free : Kalloc(g, Junk)
    BY DEF KernelAlloc
  <1>2. SameAll
    BY <1>1, KernelAllocRefs, TakenAside, NoEntry
  <1>3. InitProc \in Proc
    BY ConstantTypes
  <1>4. Built(InitProc)'
    BY <1>1, <1>2, <1>3, BuiltStays DEF ContentInv, SameAll, procs
  <1> QED
    BY <1>1, <1>2, <1>3, <1>4, PlainStep DEF procs

\* A page table shows what it maps, but for what its path has yet to map.
LEMMA HeldMine ==
  ASSUME ShapeInv, NEW p \in Proc, Acts(p), ~Pends(p), NEW t \in Table, t[1] \in Reach(p), NEW s \in Where
  PROVE  Held[<<t, s>>] = pa[t][s]
  <1>1. \A q \in Proc : Pends(q) => Place(q) # <<t, s>>
    BY Foreign
  <1> QED
    BY <1>1, HeldAt DEF HeldFacts

\* freewalk() frees an inner page table.
LEMMA FreewalkPageShows ==
  ASSUME ShapeInv, ShapeInv', Counted, ContentInv, NEW p \in Proc, NEW s \in {Leaf, Root}, FreewalkPage(p, s),
         UNCHANGED kern
  PROVE  MemStep /\ ContentInv'
  <1> DEFINE T == Target(p)
  <1>1. T \in Table /\ T[1] \in Reach(p) /\ s \in Where /\ Acts(p) /\ ~Pends(p)
    BY OwnTables, ConstantTypes DEF FreewalkPage, Acts, Pends
  <1>2. \A va \in VA : pa[T][va] = NoPage
    <2>1. th[p].at = "freewalk"
      BY DEF FreewalkPage
    <2> QED
      BY <2>1, PathFacts, ConstantTypes DEF Progress, Maps
  <1>3. Kfree(pa[T][s]) /\ pa[T][s] # NoPage /\ UNCHANGED <<th, procs>>
    BY <1>2 DEF FreewalkPage
  <1>4. Held[<<T, s>>] = pa[T][s] /\ pa[T][s] \in Page
    BY <1>1, <1>3, HeldMine, PathFacts DEF TableTypes
  <1>5. \A y \in Slot : y # <<T, s>> => Con'[y] = Con[y]
    BY <1>3, <1>4, FreewalkPageRefs, ConDrops
  <1>6. SameAll
    BY <1>5, NoEntry, EntryIs DEF SameAll
  <1>7. Built(p)'
    BY <1>3, <1>6, BuiltStays DEF ContentInv, SameAll, procs
  <1> QED
    BY <1>3, <1>6, <1>7, PlainStep DEF procs

\* A path that keeps its table and its call, while every place shows the same.
LEMMA BuiltGoesOn ==
  ASSUME ShapeInv, NEW p \in Proc, SameAll, UNCHANGED active, th'[p].k = th[p].k, th'[p].kid = th[p].kid
  PROVE  /\ Target(p)' = Target(p) /\ Cur(p)' = Cur(p)
         /\ \A va \in VA : /\ Con'[<<Target(p), va>>] = Con[<<Target(p), va>>]
                           /\ Con'[<<Cur(p), va>>] = Con[<<Cur(p), va>>]
  <1>1. Target(p) \in Table /\ Cur(p) \in Table
    BY OwnTables, TheTables DEF ShapeInv
  <1>2. \A va \in VA : <<Target(p), va>> \in Entry /\ <<Cur(p), va>> \in Entry
    BY <1>1, EntryIs
  <1> QED
    BY <1>2, SameTarget DEF SameAll

\* mappages(): the entry shows what the page that was held back does.
LEMMA MapPageShows ==
  ASSUME ShapeInv, ShapeInv', ContentInv, NEW p \in Proc, MapPage(p), UNCHANGED kern
  PROVE  MemStep /\ ContentInv'
  <1> DEFINE i == th[p].i
  <1>1. th \in [Proc -> Path] /\ th[p].at = "map" /\ th[p].i < th[p].n /\ i \in VA /\ Built(p)
    <2>1. th[p].at = "map" /\ th[p].i < th[p].n
      BY PathFacts DEF MapPage, LoopBounds
    <2> QED
      BY <2>1, PathFields, PathFacts, IndexInTable DEF ContentInv
  <1>2. pa[Target(p)][i] = NoPage
    <2>1. Maps(Target(p), i)
      BY <1>1, PathFacts DEF Progress
    <2> QED
      BY <1>1, <2>1, ConstantTypes DEF Maps
  <1>3. /\ th' = [th EXCEPT ![p].at = "alloc", ![p].i = i + 1, ![p].pg = NoPage]
        /\ UNCHANGED <<data, procs>>
    BY <1>2 DEF MapPage, mem
  <1>4. SameAll
    BY <1>3, MapPageRefs, ConStays DEF Refs!vars
  <1>5. /\ th'[p].at = "alloc" /\ th'[p].k = th[p].k /\ th'[p].kid = th[p].kid
        /\ th'[p].i = i + 1 /\ th'[p].lo = th[p].lo /\ \A q \in Proc : q # p => th'[q] = th[q]
    BY <1>1, <1>3 DEF Path
  <1>6. Built(p)'
    <2>1. \A va \in VA : va < i + 1 => va < i \/ va = i
      BY <1>1, ConstantTypes
    <2>2. /\ Target(p)' = Target(p) /\ Cur(p)' = Cur(p)
          /\ \A va \in VA : /\ Con'[<<Target(p), va>>] = Con[<<Target(p), va>>]
                            /\ Con'[<<Cur(p), va>>] = Con[<<Cur(p), va>>]
      BY <1>3, <1>4, <1>5, BuiltGoesOn DEF procs
    <2>3. Zeroed(p)'
      BY <1>1, <1>5, <2>1, <2>2 DEF Built, Zeroed, Filled
    <2>4. Copied(p)'
      BY <1>1, <1>5, <2>1, <2>2 DEF Built, Copied, Filled
    <2>5. Filled(p)' /\ Loaded(p)'
      BY <1>5 DEF Filled, Loaded
    <2> QED
      BY <2>3, <2>4, <2>5 DEF Built
  <1> QED
    BY <1>3, <1>4, <1>5, <1>6, PlainStep DEF procs

\* uvmcopy() maps the parent's page in the child, and has yet to count it.
LEMMA ForkMapShows ==
  ASSUME ShapeInv, ShapeInv', ContentInv, NEW p \in Proc, ForkMap(p), UNCHANGED kern
  PROVE  MemStep /\ ContentInv'
  <1> DEFINE i == th[p].i
  <1>1. th \in [Proc -> Path] /\ th[p].at = "forkmap" /\ th[p].k = "fork" /\ i < sz[p] /\ i \in VA /\ Built(p)
    <2>1. th[p].at = "forkmap" /\ i < sz[p]
      BY DEF ForkMap
    <2>2. th[p].k = "fork" /\ th[p].n = sz[p]
      BY <2>1, PathFacts DEF ServesCall, LoopBounds
    <2> QED
      BY <2>1, <2>2, PathFields, PathFacts, IndexInTable DEF ContentInv
  <1>2. pa[Cur(p)][i] # NoPage
    <2>1. Full(p)
      BY <1>1, PathFacts DEF Keeps, Acts
    <2> QED
      BY <1>1, <2>1 DEF Full, Maps
  <1>3. th' = [th EXCEPT ![p].at = "forkref"] /\ UNCHANGED <<data, procs>>
    BY <1>2 DEF ForkMap, Goto, mem
  <1>4. SameAll
    BY <1>3, ForkMapRefs, ConStays DEF Refs!vars
  <1>5. /\ th'[p].at = "forkref" /\ th'[p].k = th[p].k /\ th'[p].kid = th[p].kid
        /\ th'[p].i = i /\ \A q \in Proc : q # p => th'[q] = th[q]
    BY <1>1, <1>3 DEF Path
  <1>6. Built(p)'
    <2>1. /\ Target(p)' = Target(p) /\ Cur(p)' = Cur(p)
          /\ \A va \in VA : /\ Con'[<<Target(p), va>>] = Con[<<Target(p), va>>]
                            /\ Con'[<<Cur(p), va>>] = Con[<<Cur(p), va>>]
      BY <1>3, <1>4, <1>5, BuiltGoesOn DEF procs
    <2> QED
      BY <1>1, <1>5, <2>1 DEF Built, Zeroed, Copied, Filled, Loaded
  <1> QED
    BY <1>3, <1>4, <1>5, <1>6, PlainStep DEF procs

\* A path that broke a sharing, or had none to break, goes on.
LEMMA CopyGoesOn ==
  ASSUME ShapeInv, ContentInv, NEW p \in Proc, SameAll, UNCHANGED active,
         th'[p].at \in {"remap", "put"},
         th'[p].k = "exec" => /\ th[p].k = "exec" /\ th'[p].kid = th[p].kid /\ th'[p].i = th[p].i
                              /\ th[p].at \in {"copyout", "remap"}
  PROVE  Built(p)'
  <1>1. CASE th'[p].k = "exec"
    <2>1. /\ Target(p)' = Target(p)
          /\ \A va \in VA : Con'[<<Target(p), va>>] = Con[<<Target(p), va>>]
      BY <1>1, BuiltGoesOn
    <2>2. Built(p)
      BY DEF ContentInv
    <2> QED
      BY <1>1, <2>1, <2>2 DEF Built, Zeroed, Copied, Filled, Loaded
  <1>2. CASE th'[p].k # "exec"
    BY <1>2, BuiltNothing
  <1> QED
    BY <1>1, <1>2

\* uvmcowcopy() maps the page that kcopy_n_deref() gave it.
LEMMA RemapShows ==
  ASSUME ShapeInv, ShapeInv', ContentInv, NEW p \in Proc, Remap(p), UNCHANGED kern
  PROVE  MemStep /\ ContentInv'
  <1>1. th \in [Proc -> Path] /\ th[p].at = "remap"
    BY PathFields, PathFacts DEF Remap
  <1>2. UNCHANGED <<data, procs>>
    BY DEF Remap, mem
  <1>3. SameAll
    BY <1>2, RemapRefs, ConStays DEF Refs!vars
  <1>4. (\A q \in Proc : q # p => th'[q] = th[q]) /\ Built(p)'
    <2>1. CASE th[p].k = "fault"
      <3>1. th' = [th EXCEPT ![p] = User]
        BY <1>1, <2>1 DEF Remap
      <3> QED
        BY <1>1, <3>1, BuiltNothing DEF User, At
    <2>2. CASE th[p].k # "fault"
      <3>1. th' = [th EXCEPT ![p] = [th[p] EXCEPT !.at = "put", !.pg = NoPage]]
        BY <1>1, <2>2 DEF Remap
      <3>2. /\ th'[p].at = "put" /\ th'[p].k = th[p].k /\ th'[p].kid = th[p].kid
            /\ th'[p].i = th[p].i /\ \A q \in Proc : q # p => th'[q] = th[q]
        BY <1>1, <3>1 DEF Path
      <3> QED
        BY <1>1, <1>2, <1>3, <3>2, CopyGoesOn DEF procs
    <2> QED
      BY <2>1, <2>2
  <1> QED
    BY <1>2, <1>3, <1>4, PlainStep DEF procs

\* copyout() finds nothing to break, or no page to break it with.
LEMMA CopyoutGoesOnShows ==
  ASSUME ShapeInv, ShapeInv', ContentInv, NEW p \in Proc, CopyoutGoesOn(p), UNCHANGED kern
  PROVE  MemStep /\ ContentInv'
  <1>1. th \in [Proc -> Path] /\ th[p].at = "copyout"
    BY PathFields, PathFacts DEF CopyoutGoesOn
  <1>2. UNCHANGED <<data, procs>> /\ th' = [th EXCEPT ![p].at = "put"]
    BY DEF CopyoutGoesOn, Goto, mem
  <1>3. SameAll
    BY <1>2, QuietCalls, QuietShows
  <1>4. /\ th'[p].at = "put" /\ th'[p].k = th[p].k /\ th'[p].kid = th[p].kid
        /\ th'[p].i = th[p].i /\ \A q \in Proc : q # p => th'[q] = th[q]
    BY <1>1, <1>2 DEF Path
  <1>5. Built(p)'
    BY <1>1, <1>2, <1>3, <1>4, CopyGoesOn DEF procs
  <1> QED
    BY <1>2, <1>3, <1>4, <1>5, PlainStep DEF procs

\* kcopy_n_deref() gives a page with the same contents: sharing is broken unseen.
LEMMA CowCopyShows ==
  ASSUME ShapeInv, ShapeInv', Counted, ContentInv, NEW p \in Proc, NEW va \in VA, NEW k,
         CheckCow(p, va), CowCopy(p, va, k), th[p].at \in {"user", "copyout"},
         th[p].at = "user" => k = "fault", th[p].at = "copyout" => k = th[p].k /\ va = th[p].i,
         UNCHANGED kern
  PROVE  MemStep /\ ContentInv'
  <1> DEFINE g == pa[Cur(p)][va]  x == <<Cur(p), va>>
  <1>1. th \in [Proc -> Path] /\ UNCHANGED <<tables, procs>> /\ g \in Page /\ Held[x] = g
    <2>1. th \in [Proc -> Path]
      BY PathFields, PathFacts
    <2>2. UNCHANGED <<tables, procs>>
      BY DEF CowCopy
    <2>3. g \in Page /\ Held[x] = g
      BY CowCopyRefs
    <2> QED
      BY <2>1, <2>2, <2>3
  <1>2. PICK h \in Page : /\ th' = [th EXCEPT ![p].at = "remap", ![p].k = k, ![p].i = va, ![p].pg = h]
                          /\ (h = g /\ UNCHANGED data) \/ KcopyTo(g, h)
    BY <1>1 DEF CowCopy, mem
  <1>3. /\ th'[p].at = "remap" /\ th'[p].k = k /\ th'[p].i = va /\ th'[p].pg = h /\ th'[p].kid = th[p].kid
        /\ \A q \in Proc : q # p => th'[q] = th[q]
    BY <1>1, <1>2 DEF Path
  <1>4. Held'[x] = h
    <2>1. Pends(p)' /\ Place(p)' = x /\ Value(p)' = h
      BY <1>1, <1>3 DEF Pends, Place, Value, Cur, procs
    <2> QED
      BY <2>1, HeldAfter DEF HeldFacts
  <1>5. Redirects(x, h)
    <2>1. PICK f \in Page : Redirects(x, f)
      BY CowCopyRefs
    <2>2. Held'[x] = f
      BY <2>1 DEF Redirects
    <2> QED
      BY <1>4, <2>1, <2>2
  <1>6. SameAll
    BY <1>1, <1>2, <1>5, ConCopies, EntryIs DEF SameAll
  <1>7. Built(p)'
    <2>1. k = "exec" => th[p].at = "copyout" /\ th[p].k = "exec" /\ va = th[p].i
      OBVIOUS
    <2> QED
      BY <1>1, <1>3, <1>6, <2>1, CopyGoesOn DEF procs
  <1> QED
    BY <1>1, <1>3, <1>6, <1>7, PlainStep DEF procs
-----------------------------------------------------------------------------
(* Steps that change one entry *)

\* What the other paths have built stays, and so does the invariant.
LEMMA ContentStays ==
  ASSUME ShapeInv, ContentInv, NEW p \in Proc, Acts(p), \A q \in Proc : q # p => th'[q] = th[q],
         \A r \in Proc : r \notin Reach(p) => active'[r] = active[r],
         \A y \in Entry : y[1][1] \notin Reach(p) => Con'[y] = Con[y],
         SizeInv', Built(p)'
  PROVE  ContentInv'
  <1>1. ASSUME NEW q \in Proc PROVE Built(q)'
    <2>1. CASE q = p
      BY <2>1
    <2>2. CASE q # p
      BY <2>2, BuiltElsewhere
    <2> QED
      BY <2>1, <2>2
  <1> QED
    BY <1>1 DEF ContentInv

\* ... after a step that changes one entry of a table that path p works on.
LEMMA OneEntry ==
  ASSUME ShapeInv, ContentInv, NEW p \in Proc, Acts(p), \A q \in Proc : q # p => th'[q] = th[q],
         UNCHANGED procs, NEW t \in Table, t[1] \in Reach(p), NEW va, SameBut(<<t, va>>), Built(p)'
  PROVE  ContentInv'
  <1>1. \A y \in Entry : y[1][1] \notin Reach(p) => Con'[y] = Con[y]
    BY DEF SameBut
  <1>2. SizeInv'
    BY DEF SizeInv, ContentInv, procs
  <1> QED
    BY <1>1, <1>2, ContentStays DEF procs

\* The entries that userinit(), exec(), fork() and a growing sbrk() fill are
\* those of no program yet.
LEMMA Unseen ==
  ASSUME ShapeInv, SizeInv, NEW p \in Proc, Acts(p), th[p].k \in {"boot", "sbrk", "exec", "fork"},
         NEW va \in VA, th[p].k = "sbrk" => ~(va < sz[p])
  PROVE  \A q \in Proc, b \in VA : b < sz[q] => <<Cur(q), b>> # <<Target(p), va>>
  <1> SUFFICES ASSUME NEW q \in Proc, NEW b \in VA, b < sz[q], Cur(q) = Target(p), b = va
               PROVE  FALSE
    OBVIOUS
  <1>1. TypeOK /\ 0 <= b /\ b \in Int /\ sz[q] \in Int
    BY PathFacts, PathFields, ConstantTypes
  <1>2. CASE th[p].k = "exec"
    <2>1. Cur(q) = Scratch(p) /\ Cur(q)[1] = q /\ Scratch(p)[1] = p /\ Cur(p) # Scratch(p)
      BY <1>1, <1>2, OwnTables, TheTables
    <2> QED
      BY <2>1
  <1>3. CASE th[p].k = "fork"
    <2>1. HasKid(p) /\ th[p].kid \in Proc /\ status[th[p].kid] = "used"
      BY <1>3, PathFacts DEF HasKid, Life
    <2>2. q = th[p].kid
      BY <1>1, <2>1, OwnTables, TheTables
    <2> QED
      BY <1>1, <2>1, <2>2 DEF SizeInv
  <1>4. CASE th[p].k \in {"boot", "sbrk"}
    <2>1. Target(p) = Cur(p)
      BY <1>4, OwnTables DEF HasKid
    <2>2. q = p
      BY <1>1, <2>1, TheTables
    <2>3. th[p].k = "boot" => status[p] = "used"
      BY PathFacts DEF Life
    <2> QED
      BY <1>1, <1>4, <2>2, <2>3 DEF SizeInv
  <1> QED
    BY <1>2, <1>3, <1>4

\* A place shows something when it refers to a page.
LEMMA ConSome ==
  ASSUME ShapeInv, NEW x \in Slot, Held[x] # NoPage
  PROVE  Con[x] # NoPage /\ Con[x] = data[Held[x]]
  <1>1. data \in [Page -> Data \cup {Junk}] /\ Held \in [Slot -> Page \cup {NoPage}]
    BY TypeParts, HeldAt DEF ShapeInv, MemTypes, HeldFacts
  <1>2. data[Held[x]] # NoPage
    BY <1>1, CowAssumption
  <1> QED
    BY <1>2, ConIs

\* The eager uvmcopy() reads what the parent's page shows.
LEMMA NewDataIs ==
  ASSUME ShapeInv, NEW p \in Proc, th[p].at = "alloc", th[p].i < th[p].n
  PROVE  NewData(p) = IF th[p].k = "fork" THEN Con[<<Cur(p), th[p].i>>] ELSE Zero
  <1>1. CASE th[p].k = "fork"
    <2>1. th[p].n = sz[p] /\ Full(p) /\ Acts(p) /\ ~Pends(p) /\ th[p].i \in VA
      BY <1>1, PathFacts, IndexInTable DEF LoopBounds, Keeps, Acts, Pends
    <2>2. pa[Cur(p)][th[p].i] # NoPage
      BY <2>1 DEF Full, Maps
    <2>3. Cur(p) \in Table /\ Cur(p)[1] \in Reach(p) /\ th[p].i \in Where
      BY <2>1, PathFacts, TheTables, ReachTypes, ConstantTypes
    <2>4. Held[<<Cur(p), th[p].i>>] = pa[Cur(p)][th[p].i]
      BY <2>1, <2>3, HeldMine
    <2>5. <<Cur(p), th[p].i>> \in Slot
      BY <2>1, <2>3, EntryIs
    <2> QED
      BY <1>1, <2>2, <2>4, <2>5, ConSome DEF NewData
  <1>2. CASE th[p].k # "fork"
    BY <1>2 DEF NewData
  <1> QED
    BY <1>1, <1>2

\* uvmalloc() and the eager uvmcopy() take a page and fill it.
LEMMA AllocPageShows ==
  ASSUME ShapeInv, ShapeInv', Counted, ContentInv, NEW p \in Proc, AllocPage(p), UNCHANGED kern
  PROVE  MemStep /\ ContentInv'
  <1> DEFINE i == th[p].i  T == Target(p)  x == <<T, i>>
  <1>1. /\ th \in [Proc -> Path] /\ th[p].at = "alloc" /\ i < th[p].n /\ i \in VA
        /\ Acts(p) /\ T \in Table /\ T[1] \in Reach(p) /\ UNCHANGED <<tables, procs>>
    <2>1. th[p].at = "alloc" /\ i < th[p].n /\ UNCHANGED <<tables, procs>>
      BY DEF AllocPage
    <2> QED
      BY <2>1, PathFields, PathFacts, IndexInTable, OwnTables DEF Acts
  <1>2. PICK g \in free : Kalloc(g, NewData(p)) /\ th' = [th EXCEPT ![p].at = "map", ![p].pg = g]
    BY DEF AllocPage
  <1>3. /\ th'[p].at = "map" /\ th'[p].k = th[p].k /\ th'[p].i = i /\ th'[p].lo = th[p].lo
        /\ th'[p].pg = g /\ th'[p].kid = th[p].kid
        /\ \A q \in Proc : q # p => th'[q] = th[q]
    BY <1>1, <1>2 DEF Path
  <1>4. Target(p)' = T /\ Cur(p)' = Cur(p)
    BY <1>1, <1>3, SameTarget DEF procs
  <1>5. Held'[x] = g
    <2>1. Pends(p)' /\ Place(p)' = x /\ Value(p)' = g
      BY <1>3, <1>4 DEF Pends, Place, Value
    <2> QED
      BY <2>1, HeldAfter DEF HeldFacts
  <1>6. Redirects(x, g)
    <2>1. PICK h \in free : Redirects(x, h)
      BY AllocPageRefs
    <2>2. Held'[x] = h
      BY <2>1 DEF Redirects
    <2> QED
      BY <1>5, <2>1, <2>2
  <1>7. (\A y \in Slot : y # x => Con'[y] = Con[y]) /\ Con'[x] = NewData(p)
    BY <1>2, <1>6, ConTakes
  <1>8. SameBut(x)
    BY <1>7, EntryIs DEF SameBut
  <1>9. NewData(p) = IF th[p].k = "fork" THEN Con[<<Cur(p), i>>] ELSE Zero
    BY <1>1, NewDataIs
  <1>10. \A b \in VA : b < i => Con'[<<T, b>>] = Con[<<T, b>>]
    <2> SUFFICES ASSUME NEW b \in VA, b < i PROVE Con'[<<T, b>>] = Con[<<T, b>>]
      OBVIOUS
    <2>1. b # i
      BY <1>1, ConstantTypes
    <2>2. <<T, b>> \in Entry /\ <<T, b>> # x
      BY <1>1, <2>1, EntryIs
    <2> QED
      BY <1>8, <2>2 DEF SameBut
  <1>11. th[p].k = "fork" => \A b \in VA : Con'[<<Cur(p), b>>] = Con[<<Cur(p), b>>]
    <2>1. th[p].k = "fork" => T # Cur(p) /\ Cur(p) \in Table
      BY PathFacts, OwnTables, KidIsDead, TheTables DEF HasKid
    <2> QED
      BY <2>1, <1>8, EntryIs DEF SameBut
  <1>12. Built(p)'
    <2>1. Built(p)
      BY DEF ContentInv
    <2>2. Zeroed(p)'
      BY <1>1, <1>3, <1>4, <1>10, <2>1 DEF Built, Zeroed
    <2>3. Copied(p)'
      BY <1>1, <1>3, <1>4, <1>10, <1>11, <2>1 DEF Built, Copied
    <2>4. Filled(p)'
      BY <1>1, <1>3, <1>4, <1>7, <1>9, <1>11 DEF Filled
    <2>5. Loaded(p)'
      BY <1>3 DEF Loaded
    <2> QED
      BY <2>2, <2>3, <2>4, <2>5 DEF Built
  <1>13. UNCHANGED UserMem
    <2>1. /\ th[p].k \in {"boot", "sbrk", "exec", "fork"}
          /\ th[p].k = "sbrk" => th[p].lo = sz[p] /\ th[p].lo <= i
      BY <1>1, PathFacts DEF ServesCall, LoopBounds
    <2>2. th[p].k = "sbrk" => ~(i < sz[p])
      BY <2>1, PathFacts, PathFields
    <2>3. \A q \in Proc, b \in VA : b < sz[q] => <<Cur(q), b>> # x
      BY <1>1, <2>1, <2>2, Unseen DEF ContentInv
    <2> QED
      BY <1>1, <1>8, <2>3, HiddenStep DEF procs
  <1> QED
    BY <1>1, <1>3, <1>8, <1>12, <1>13, OneEntry DEF MemStep

\* mappages() fails: the page for the entry goes back.
LEMMA MapFailsShows ==
  ASSUME ShapeInv, ShapeInv', Counted, ContentInv, NEW p \in Proc, MapFails(p), UNCHANGED kern
  PROVE  MemStep /\ ContentInv'
  <1> DEFINE i == th[p].i  T == Target(p)  x == <<T, i>>
  <1>1. /\ th \in [Proc -> Path] /\ th[p].at = "map" /\ i < th[p].n /\ i \in VA
        /\ Acts(p) /\ T \in Table /\ T[1] \in Reach(p) /\ UNCHANGED <<tables, procs>>
    <2>1. th[p].at = "map" /\ UNCHANGED <<tables, procs>>
      BY DEF MapFails
    <2>2. i < th[p].n
      BY <2>1, PathFacts DEF LoopBounds
    <2> QED
      BY <2>1, <2>2, PathFields, PathFacts, IndexInTable, OwnTables DEF Acts
  <1>2. Kfree(th[p].pg) /\ th[p].pg \in Page
    <2>1. th[p].pg # NoPage
      BY <1>1, PathFacts DEF LoopBounds
    <2> QED
      BY <2>1, PathFields, PathFacts DEF MapFails
  <1>3. Held[x] = th[p].pg
    <2>1. Pends(p) /\ Place(p) = x /\ Value(p) = th[p].pg
      BY <1>1 DEF Pends, Place, Value
    <2> QED
      BY <2>1, HeldAt DEF HeldFacts
  <1>4. \A y \in Slot : y # x => Con'[y] = Con[y]
    BY <1>2, <1>3, MapFailsRefs, ConDrops
  <1>5. SameBut(x)
    BY <1>4, EntryIs DEF SameBut
  <1>6. th'[p].at = "unmap" /\ \A q \in Proc : q # p => th'[q] = th[q]
    BY <1>1 DEF MapFails, GiveBack, Path
  <1>7. Built(p)'
    BY <1>6, BuiltNothing
  <1>8. UNCHANGED UserMem
    <2>1. /\ th[p].k \in {"boot", "sbrk", "exec", "fork"}
          /\ th[p].k = "sbrk" => th[p].lo = sz[p] /\ th[p].lo <= i
      BY <1>1, PathFacts DEF ServesCall, LoopBounds
    <2>2. th[p].k = "sbrk" => ~(i < sz[p])
      BY <2>1, PathFacts, PathFields
    <2>3. \A q \in Proc, b \in VA : b < sz[q] => <<Cur(q), b>> # x
      BY <1>1, <2>1, <2>2, Unseen DEF ContentInv
    <2> QED
      BY <1>1, <1>5, <2>3, HiddenStep DEF procs
  <1> QED
    BY <1>1, <1>5, <1>6, <1>7, <1>8, OneEntry DEF MemStep

\* uvmcopy() counts the page it has mapped in the child.
LEMMA ForkRefShows ==
  ASSUME ShapeInv, ShapeInv', Counted, ContentInv, NEW p \in Proc, ForkRef(p), UNCHANGED kern
  PROVE  MemStep /\ ContentInv'
  <1> DEFINE i == th[p].i  T == Target(p)  x == <<T, i>>  y == <<Cur(p), i>>  g == pa[Cur(p)][i]
  <1>1. /\ th \in [Proc -> Path] /\ th[p].at = "forkref" /\ th[p].k = "fork" /\ i < th[p].n /\ i \in VA
        /\ Acts(p) /\ T \in Table /\ T[1] \in Reach(p) /\ UNCHANGED <<tables, procs>>
    <2>1. th[p].at = "forkref" /\ UNCHANGED <<tables, procs>>
      BY DEF ForkRef
    <2>2. i < th[p].n /\ th[p].k = "fork"
      BY <2>1, PathFacts DEF LoopBounds, ServesCall
    <2> QED
      BY <2>1, <2>2, PathFields, PathFacts, IndexInTable, OwnTables DEF Acts
  <1>2. Redirects(x, g) /\ g \in Page /\ y \in Slot /\ Held[y] = g
    BY ForkRefRefs
  <1>3. UNCHANGED data /\ th' = [th EXCEPT ![p].at = "forkmap", ![p].i = @ + 1]
    BY DEF ForkRef, Krefpage
  <1>4. (\A z \in Slot : z # x => Con'[z] = Con[z]) /\ Con'[x] = Con[y]
    <2>1. /\ \A z \in Slot : z # x => Con'[z] = Con[z]
          /\ Con'[x] = IF g = NoPage THEN NoPage ELSE data'[g]
      BY <1>2, <1>3, ConMoves
    <2>2. g # NoPage
      BY <1>2, ConstantTypes
    <2>3. Con[y] = data[g]
      BY <1>2, <2>2, ConIs
    <2> QED
      BY <1>3, <2>1, <2>2, <2>3
  <1>5. SameBut(x)
    BY <1>4, EntryIs DEF SameBut
  <1>6. /\ th'[p].at = "forkmap" /\ th'[p].k = "fork" /\ th'[p].i = i + 1 /\ th'[p].kid = th[p].kid
        /\ \A q \in Proc : q # p => th'[q] = th[q]
    BY <1>1, <1>3 DEF Path
  <1>7. Target(p)' = T /\ Cur(p)' = Cur(p)
    BY <1>1, <1>6, SameTarget DEF procs
  <1>8. T # Cur(p) /\ Cur(p) \in Table
    BY <1>1, PathFacts, OwnTables, KidIsDead, TheTables DEF HasKid
  <1>9. \A b \in VA : b < i + 1 => Con'[<<T, b>>] = Con'[<<Cur(p), b>>]
    <2> SUFFICES ASSUME NEW b \in VA, b < i + 1 PROVE Con'[<<T, b>>] = Con'[<<Cur(p), b>>]
      OBVIOUS
    <2>1. Con'[<<Cur(p), b>>] = Con[<<Cur(p), b>>]
      BY <1>5, <1>8, EntryIs DEF SameBut
    <2>2. CASE b = i
      BY <1>4, <2>1, <2>2
    <2>3. CASE b # i
      <3>1. b < i
        BY <1>1, <2>3, ConstantTypes
      <3>2. Con'[<<T, b>>] = Con[<<T, b>>]
        BY <1>1, <1>5, <2>3, EntryIs DEF SameBut
      <3>3. Con[<<T, b>>] = Con[<<Cur(p), b>>]
        BY <1>1, <3>1 DEF ContentInv, Built, Copied
      <3> QED
        BY <2>1, <3>2, <3>3
    <2> QED
      BY <2>2, <2>3
  <1>10. Built(p)'
    BY <1>6, <1>7, <1>9 DEF Built, Zeroed, Copied, Filled, Loaded
  <1>11. UNCHANGED UserMem
    <2>1. \A q \in Proc, b \in VA : b < sz[q] => <<Cur(q), b>> # x
      BY <1>1, Unseen DEF ContentInv
    <2> QED
      BY <1>1, <1>5, <2>1, HiddenStep DEF procs
  <1> QED
    BY <1>1, <1>5, <1>6, <1>10, <1>11, OneEntry DEF MemStep

\* uvmunmap() takes a page away: sbrk() from the program, wait() from the child,
\* fork() and exec() from a table that nobody sees.
LEMMA UnmapPageShows ==
  ASSUME ShapeInv, ShapeInv', Counted, ContentInv, NEW p \in Proc, UnmapPage(p), UNCHANGED kern
  PROVE  MemStep /\ ContentInv'
  <1> DEFINE i == th[p].i  T == Target(p)  x == <<T, i>>  g == pa[T][i]
  <1>1. /\ th \in [Proc -> Path] /\ th[p].at = "unmap" /\ i < th[p].n /\ i \in VA
        /\ Acts(p) /\ ~Pends(p) /\ T \in Table /\ T[1] \in Reach(p) /\ i \in Where
    <2>1. th[p].at = "unmap" /\ i < th[p].n
      BY DEF UnmapPage
    <2> QED
      BY <2>1, PathFields, PathFacts, IndexInTable, OwnTables DEF Acts, Pends
  <1>2. g # NoPage
    <2>1. th[p].lo <= i
      BY <1>1, PathFacts DEF LoopBounds
    <2>2. i <= i
      BY <1>1, ConstantTypes
    <2> QED
      BY <1>1, <2>2, PathFacts DEF Progress
  <1>3. Kfree(g) /\ th' = [th EXCEPT ![p].i = i + 1] /\ UNCHANGED procs
    BY <1>2 DEF UnmapPage
  <1>4. Held[x] = g /\ g \in Page
    BY <1>1, <1>2, HeldMine, PathFacts DEF TableTypes
  <1>5. (\A y \in Slot : y # x => Con'[y] = Con[y]) /\ Con'[x] = NoPage
    BY <1>3, <1>4, UnmapPageRefs, ConDrops
  <1>6. SameBut(x)
    BY <1>5, EntryIs DEF SameBut
  <1>7. th'[p].at = "unmap" /\ \A q \in Proc : q # p => th'[q] = th[q]
    BY <1>1, <1>3 DEF Path
  <1>8. Built(p)'
    BY <1>7, BuiltNothing
  <1>9. MemStep
    <2>1. CASE \E q \in Proc, b \in VA : b < sz[q] /\ <<Cur(q), b>> = x
      <3>1. PICK q \in Proc, b \in VA : b < sz[q] /\ <<Cur(q), b>> = x
        BY <2>1
      <3>2. UserMem' = [UserMem EXCEPT ![q][b] = NoPage]
        BY <1>3, <1>5, <1>6, <3>1, SeenStep DEF procs
      <3>3. UserMem[q][b] # NoPage
        <4>1. Con[x] # NoPage
          BY <1>1, <1>2, <1>4, EntryIs, ConSome
        <4> QED
          BY <3>1, <4>1, UserMemIs DEF ShapeInv
      <3> QED
        BY <3>2, <3>3 DEF MemStep, Private!Next, Private!Unmap
    <2>2. CASE ~\E q \in Proc, b \in VA : b < sz[q] /\ <<Cur(q), b>> = x
      BY <1>3, <1>6, <2>2, HiddenStep DEF MemStep, procs
    <2> QED
      BY <2>1, <2>2
  <1> QED
    BY <1>1, <1>3, <1>6, <1>7, <1>8, <1>9, OneEntry
-----------------------------------------------------------------------------
(* Stores *)

\* A store changes the one place that refers to its page.
LEMMA StoreShows ==
  ASSUME ShapeInv, ShapeInv', OwnerInv, NEW p \in Proc, Acts(p), ~Pends(p), Quiet(p), UNCHANGED kern,
         NEW t \in Table, t[1] \in Reach(p), NEW va \in VA, pa[t][va] # NoPage, perm[t][va].w,
         NEW d, data' = [data EXCEPT ![pa[t][va]] = d]
  PROVE  SameBut(<<t, va>>) /\ Con'[<<t, va>>] = d /\ Con[<<t, va>>] # NoPage
  <1> DEFINE x == <<t, va>>
  <1>1. x \in Slot /\ va \in Where
    BY EntryIs, ConstantTypes
  <1>2. Held[x] = pa[t][va] /\ pa[t][va] \in Page
    BY <1>1, HeldMine, PathFacts DEF TableTypes
  <1>3. Alone(x)
    BY <1>1 DEF OwnerInv, OneOwner, Exclusive, Stores
  <1>4. Held' = Held
    BY QuietStep DEF Refs!vars
  <1>5. (\A y \in Slot : y # x => Con'[y] = Con[y]) /\ Con'[x] = d
    BY <1>1, <1>2, <1>3, <1>4, ConWrites
  <1>6. Con[x] # NoPage
    BY <1>1, <1>2, ConSome
  <1> QED
    BY <1>5, <1>6, EntryIs DEF SameBut

\* The program stores to a page that is its own.
LEMMA UserStoreShows ==
  ASSUME ShapeInv, ShapeInv', OwnerInv, ContentInv, NEW p \in Proc, NEW va \in VA, NEW d \in Data,
         Store(p, va, d), UNCHANGED kern
  PROVE  MemStep /\ ContentInv'
  <1> DEFINE t == Cur(p)  x == <<t, va>>
  <1>1. /\ InUser(p) /\ pa[t][va] # NoPage /\ perm[t][va].w
        /\ data' = [data EXCEPT ![pa[t][va]] = d] /\ UNCHANGED <<procs, th>>
    BY DEF Store, Writable
  <1>2. Acts(p) /\ ~Pends(p) /\ t \in Table /\ t[1] \in Reach(p) /\ th[p].k = "none"
    BY <1>1, PathFacts, TheTables, ReachTypes DEF InUser, Acts, Pends, ServesCall
  <1>3. SameBut(x) /\ Con'[x] = d /\ Con[x] # NoPage
    BY <1>1, <1>2, QuietCalls, StoreShows
  <1>4. va < sz[p]
    <2>1. Full(p)
      BY <1>2, PathFacts DEF Keeps
    <2> QED
      BY <1>1, <2>1 DEF Full, Maps
  <1>5. Built(p)'
    BY <1>1, BuiltNothing DEF InUser
  <1>6. MemStep
    <2>1. UserMem' = [UserMem EXCEPT ![p][va] = d]
      BY <1>1, <1>3, <1>4, SeenStep DEF procs
    <2>2. UserMem[p][va] # NoPage
      BY <1>3, <1>4, UserMemIs DEF ShapeInv
    <2> QED
      BY <2>1, <2>2 DEF MemStep, Private!Next, Private!Write
  <1> QED
    BY <1>1, <1>2, <1>3, <1>5, <1>6, OneEntry

\* copyout() stores to a page of the program, or of the image exec() builds.
LEMMA PutShows ==
  ASSUME ShapeInv, ShapeInv', OwnerInv, ContentInv, CopyoutAsksForWrite, NEW p \in Proc, NEW d \in Data,
         Put(p, d), UNCHANGED kern
  PROVE  MemStep /\ ContentInv'
  <1> DEFINE t == PutTable(p)  va == th[p].i  x == <<t, va>>
  <1>1. /\ th[p].at = "put" /\ pa[t][va] # NoPage /\ perm[t][va].w
        /\ data' = [data EXCEPT ![pa[t][va]] = d] /\ UNCHANGED procs
    BY DEF Put, CopyoutAsksForWrite
  <1>2. /\ th \in [Proc -> Path] /\ Acts(p) /\ ~Pends(p) /\ va \in VA /\ th[p].k \in {"read", "exec", "wait"}
        /\ TypeOK /\ p \in Reach(p)
    BY <1>1, PathFields, PathFacts, ReachTypes DEF Acts, Pends, ServesCall, LoopBounds
  <1>3. t \in Table /\ t[1] \in Reach(p)
    BY <1>2, TheTables DEF PutTable
  <1>4. SameBut(x) /\ Con'[x] = d /\ Con[x] # NoPage
    BY <1>1, <1>2, <1>3, QuietCalls, StoreShows
  <1>5. /\ \A q \in Proc : q # p => th'[q] = th[q]
        /\ th[p].k # "exec" => th'[p].at \in {"user", "unmap"}
        /\ th[p].k = "exec" => th'[p].at = "commit" /\ th'[p].k = "exec" /\ th'[p].kid = th[p].kid
    <2>1. CASE th[p].k = "read"
      <3>1. th' = [th EXCEPT ![p] = User]
        BY <2>1 DEF Put
      <3> QED
        BY <1>2, <2>1, <3>1 DEF User, At
    <2>2. CASE th[p].k = "wait"
      <3>1. th' = [th EXCEPT ![p] = [th[p] EXCEPT !.at = "unmap", !.i = 0, !.n = sz[th[p].kid]]]
        BY <2>2 DEF Put
      <3> QED
        BY <1>2, <2>2, <3>1 DEF Path
    <2>3. CASE th[p].k = "exec"
      <3>1. th' = [th EXCEPT ![p] = [th[p] EXCEPT !.at = "commit"]]
        BY <2>3 DEF Put
      <3> QED
        BY <1>2, <2>3, <3>1 DEF Path
    <2> QED
      BY <1>2, <2>1, <2>2, <2>3
  <1>6. CASE th[p].k = "exec"
    <2>1. t = Scratch(p) /\ t = Target(p)
      BY <1>6 DEF PutTable, Target
    <2>2. Target(p)' = t
      BY <1>1, <1>5, <1>6, <2>1, SameTarget DEF procs
    <2>3. /\ va = Len(Image) - 1
          /\ \A b \in VA : b < Len(Image) - 1 => Con[<<t, b>>] = Zero
      BY <1>1, <1>6, <2>1 DEF ContentInv, Built, Loaded
    <2>4. \A b \in VA : b < Len(Image) - 1 => Con'[<<t, b>>] = Zero
      <3> SUFFICES ASSUME NEW b \in VA, b < Len(Image) - 1 PROVE Con'[<<t, b>>] = Zero
        OBVIOUS
      <3>1. b # va
        BY <2>3, ConstantTypes
      <3>2. <<t, b>> \in Entry /\ <<t, b>> # x
        BY <1>2, <1>3, <3>1, EntryIs
      <3> QED
        BY <1>4, <2>3, <3>2 DEF SameBut
    <2>5. Built(p)'
      BY <1>4, <1>5, <1>6, <2>2, <2>3, <2>4 DEF Built, Zeroed, Copied, Filled, Loaded
    <2>6. \A q \in Proc, b \in VA : b < sz[q] => <<Cur(q), b>> # x
      BY <1>2, <1>6, <2>1, Unseen DEF ContentInv
    <2>7. UNCHANGED UserMem
      BY <1>1, <1>4, <2>6, HiddenStep DEF procs
    <2> QED
      BY <1>1, <1>2, <1>3, <1>4, <1>5, <2>5, <2>7, OneEntry DEF MemStep
  <1>7. CASE th[p].k # "exec"
    <2>1. t = Cur(p)
      BY <1>7 DEF PutTable
    <2>2. va < sz[p]
      <3>1. Full(p)
        BY <1>2, PathFacts DEF Keeps
      <3> QED
        BY <1>1, <1>2, <2>1, <3>1 DEF Full, Maps
    <2>3. Built(p)'
      BY <1>5, <1>7, BuiltNothing
    <2>4. UserMem' = [UserMem EXCEPT ![p][va] = d]
      BY <1>1, <1>2, <1>4, <2>1, <2>2, SeenStep DEF procs
    <2>5. UserMem[p][va] # NoPage
      BY <1>2, <1>4, <2>1, <2>2, UserMemIs
    <2>6. MemStep
      BY <1>2, <2>4, <2>5 DEF MemStep, Private!Next, Private!Write
    <2> QED
      BY <1>1, <1>2, <1>3, <1>4, <1>5, <2>3, <2>6, OneEntry
  <1> QED
    BY <1>6, <1>7
-----------------------------------------------------------------------------
(* Calls that change a size or a table *)

\* A step that changes the size or the table of one process, and no entry.
LEMMA OneMemory ==
  ASSUME ShapeInv, ShapeInv', SameAll, NEW c \in Proc,
         \A q \in Proc : q # c => active'[q] = active[q] /\ sz'[q] = sz[q]
  PROVE  /\ \A q \in Proc : q # c => UserMem'[q] = UserMem[q]
         /\ UserMem' = [UserMem EXCEPT ![c] = UserMem'[c]]
         /\ \A va \in VA : Con'[<<Cur(c), va>>] = Con[<<Cur(c), va>>]
  <1>1. ASSUME NEW q \in Proc, q # c PROVE UserMem'[q] = UserMem[q]
    <2>1. \A va \in VA : <<Cur(q), va>> \in Entry
      BY TheTables, EntryIs DEF ShapeInv
    <2> QED
      BY <1>1, <2>1, SeenStays DEF SameAll
  <1>2. UserMem = [q \in Proc |-> UserMem[q]] /\ UserMem' = [q \in Proc |-> UserMem'[q]]
    BY DEF UserMem
  <1>3. UserMem' = [UserMem EXCEPT ![c] = UserMem'[c]]
    BY <1>1, <1>2
  <1>4. \A va \in VA : <<Cur(c), va>> \in Entry
    BY TheTables, EntryIs DEF ShapeInv
  <1> QED
    BY <1>1, <1>3, <1>4 DEF SameAll

\* A memory in which every page is as before is the memory before.
LEMMA SamePages ==
  ASSUME NEW c \in Proc, \A va \in VA : UserMem'[c][va] = UserMem[c][va]
  PROVE  UserMem'[c] = UserMem[c]
  BY DEF UserMem

\* uvmunmap() is through: sbrk() sets the size to what is left.
LEMMA UnmapDoneShows ==
  ASSUME ShapeInv, ShapeInv', ContentInv, NEW p \in Proc, UnmapDone(p), UNCHANGED kern
  PROVE  MemStep /\ ContentInv'
  <1>1. /\ th \in [Proc -> Path] /\ th[p].at = "unmap" /\ th[p].i = th[p].n /\ Acts(p) /\ ~Pends(p)
        /\ UNCHANGED <<data, active, status>> /\ TypeOK
    BY PathFields, PathFacts DEF UnmapDone, Acts, Pends, mem
  <1>2. SameAll
    BY <1>1, QuietAllocation, QuietShows
  <1>3. CASE th[p].k = "sbrk"
    <2>1. sz' = [sz EXCEPT ![p] = th[p].lo] /\ th' = [th EXCEPT ![p] = User]
      BY <1>3 DEF UnmapDone, Return
    <2>2. (\A q \in Proc : q # p => th'[q] = th[q]) /\ th'[p].at = "user"
      BY <1>1, <2>1 DEF User, At
    <2>3. sz \in [Proc -> 0 .. NVA] /\ sz'[p] = th[p].lo /\ \A q \in Proc : q # p => sz'[q] = sz[q]
      BY <2>1, PathFacts DEF ProcTypes
    <2>4. th[p].lo <= sz[p] /\ th[p].lo \in Int /\ sz[p] \in Int
      BY <1>1, <1>3, PathFacts, PathFields DEF LoopBounds
    <2>5. \A va \in VA : ~(va < th[p].lo) => Con[<<Cur(p), va>>] = NoPage
      <3> SUFFICES ASSUME NEW va \in VA, ~(va < th[p].lo) PROVE Con[<<Cur(p), va>>] = NoPage
        OBVIOUS
      <3>1. Target(p) = Cur(p) /\ Cur(p) \in Table /\ Cur(p)[1] \in Reach(p)
        BY <1>1, <1>3, OwnTables, TheTables, ReachTypes DEF HasKid
      <3>2. pa[Cur(p)][va] = NoPage
        <4>1. ~(th[p].i <= va /\ va < th[p].n)
          BY <1>1, PathFields, ConstantTypes
        <4> QED
          BY <1>1, <3>1, <4>1, PathFacts DEF Progress
      <3>3. Held[<<Cur(p), va>>] = NoPage
        BY <1>1, <3>1, <3>2, HeldMine, ConstantTypes
      <3> QED
        BY <3>1, <3>3, EntryIs, ConIs
    <2>6. /\ UserMem' = [UserMem EXCEPT ![p] = UserMem'[p]]
          /\ \A va \in VA : Con'[<<Cur(p), va>>] = Con[<<Cur(p), va>>]
      BY <1>1, <1>2, <2>3, OneMemory
    <2>7. ASSUME NEW va \in VA PROVE UserMem'[p][va] = UserMem[p][va]
      <3>1. Cur(p)' = Cur(p)
        BY <1>1 DEF Cur
      <3>2. va < th[p].lo => va < sz[p]
        BY <2>4, ConstantTypes
      <3>3. UserMem[p][va] = IF va < sz[p] THEN Con[<<Cur(p), va>>] ELSE NoPage
        BY <1>1, UserMemIs
      <3>4. UserMem'[p][va] = IF va < th[p].lo THEN Con[<<Cur(p), va>>] ELSE NoPage
        BY <2>3, <2>6, <3>1, UserMemIs DEF ShapeInv
      <3> QED
        BY <2>5, <3>2, <3>3, <3>4
    <2>8. UNCHANGED UserMem
      <3>1. UserMem'[p] = UserMem[p]
        BY <2>7, SamePages
      <3> QED
        BY <2>6, <3>1 DEF UserMem
    <2>9. SizeInv'
      <3>1. status[p] = "live"
        BY <1>1, <1>3, PathFacts DEF Life
      <3> QED
        BY <1>1, <2>3, <3>1 DEF SizeInv, ContentInv
    <2> QED
      BY <1>1, <1>2, <2>2, <2>8, <2>9, BuiltNothing, ContentStays DEF SameAll, MemStep
  <1>4. CASE th[p].k # "sbrk"
    <2>1. th' = [th EXCEPT ![p].at = "freewalk"] /\ UNCHANGED sz
      BY <1>4 DEF UnmapDone, Goto
    <2>2. (\A q \in Proc : q # p => th'[q] = th[q]) /\ th'[p].at = "freewalk"
      BY <1>1, <2>1 DEF Path
    <2> QED
      BY <1>1, <1>2, <2>1, <2>2, BuiltNothing, PlainStep
  <1> QED
    BY <1>3, <1>4

\* uvmalloc() is through: sbrk() shows all the new pages at once, zeroed.
LEMMA AllocDoneShows ==
  ASSUME ShapeInv, ShapeInv', ContentInv, NEW p \in Proc, AllocDone(p), UNCHANGED kern
  PROVE  MemStep /\ ContentInv'
  <1> DEFINE n == th[p].n  lo == th[p].lo
  <1>1. /\ th \in [Proc -> Path] /\ th[p].at = "alloc" /\ th[p].i = n /\ Acts(p) /\ th[p].k # "fork"
        /\ UNCHANGED <<data, active>> /\ TypeOK /\ Built(p)
    BY PathFields, PathFacts DEF AllocDone, Acts, mem, procs, ContentInv
  <1>2. SameAll
    BY <1>1, QuietAllocation, QuietShows
  <1>3. CASE th[p].k = "exec"
    <2>1. th' = [th EXCEPT ![p] = [At("copyout", "exec") EXCEPT !.i = Len(Image) - 1, !.kid = NoProc]]
          /\ UNCHANGED procs
      BY <1>3 DEF AllocDone, Copyout
    <2>2. /\ th'[p].at = "copyout" /\ th'[p].k = "exec" /\ th'[p].i = Len(Image) - 1
          /\ \A q \in Proc : q # p => th'[q] = th[q]
      BY <1>1, <2>1 DEF At
    <2>3. Target(p) = Scratch(p) /\ Target(p)' = Target(p) /\ Target(p) \in Table
      BY <1>1, <1>3, <2>2, OwnTables DEF Target, Scratch
    <2>4. \A va \in VA : va < Len(Image) - 1 => Con[<<Target(p), va>>] = Zero
      <3>1. lo = 0 /\ n = Len(Image)
        BY <1>1, <1>3, PathFacts DEF LoopBounds
      <3>2. \A va \in VA : va < Len(Image) - 1 => lo <= va /\ va < n
        BY <3>1, ConstantTypes
      <3> QED
        BY <1>1, <3>2 DEF Built, Zeroed
    <2>5. \A va \in VA : Con'[<<Target(p), va>>] = Con[<<Target(p), va>>]
      BY <1>2, <2>3, EntryIs DEF SameAll
    <2>6. Built(p)'
      BY <2>2, <2>3, <2>4, <2>5 DEF Built, Zeroed, Copied, Filled, Loaded
    <2> QED
      BY <1>1, <1>2, <2>1, <2>2, <2>6, PlainStep DEF procs
  <1>4. CASE th[p].k # "exec"
    <2>1. /\ sz' = [sz EXCEPT ![p] = n] /\ status' = [status EXCEPT ![p] = "live"]
          /\ th' = [th EXCEPT ![p] = User]
      BY <1>4 DEF AllocDone, Return
    <2>2. (\A q \in Proc : q # p => th'[q] = th[q]) /\ th'[p].at = "user"
      BY <1>1, <2>1 DEF User, At
    <2>3. /\ sz \in [Proc -> 0 .. NVA] /\ sz'[p] = n /\ \A q \in Proc : q # p => sz'[q] = sz[q]
          /\ status'[p] = "live" /\ \A q \in Proc : q # p => status'[q] = status[q]
      BY <2>1, PathFacts DEF ProcTypes
    <2>4. /\ lo = sz[p] /\ lo <= n /\ lo \in 0 .. NVA /\ n \in 0 .. NVA
          /\ Target(p) = Cur(p) /\ Cur(p)' = Cur(p)
      <3>1. th[p].k \in {"boot", "sbrk"} /\ lo <= n
        BY <1>1, <1>4, PathFacts DEF ServesCall, LoopBounds
      <3>2. th[p].k = "boot" => lo = 0 /\ status[p] = "used"
        BY <1>1, PathFacts DEF LoopBounds, Life
      <3>3. th[p].k = "boot" => sz[p] = 0
        BY <3>2 DEF ContentInv, SizeInv
      <3>4. th[p].k = "sbrk" => lo = sz[p]
        BY <1>1, PathFacts DEF LoopBounds
      <3>5. Target(p) = Cur(p)
        BY <3>1, OwnTables DEF HasKid
      <3> QED
        BY <1>1, <3>1, <3>2, <3>3, <3>4, <3>5, PathFields DEF Cur
    <2>5. /\ UserMem' = [UserMem EXCEPT ![p] = UserMem'[p]]
          /\ \A va \in VA : Con'[<<Cur(p), va>>] = Con[<<Cur(p), va>>]
      BY <1>1, <1>2, <2>3, OneMemory
    <2>6. ASSUME NEW va \in VA
          PROVE  /\ UserMem'[p][va] = IF va \in lo .. n - 1 THEN Zero ELSE UserMem[p][va]
                 /\ va >= lo => UserMem[p][va] = NoPage
      <3>1. UserMem[p][va] = IF va < lo THEN Con[<<Cur(p), va>>] ELSE NoPage
        BY <1>1, <2>4, UserMemIs
      <3>2. UserMem'[p][va] = IF va < n THEN Con[<<Cur(p), va>>] ELSE NoPage
        BY <2>3, <2>4, <2>5, UserMemIs DEF ShapeInv
      <3>3. lo <= va /\ va < n => Con[<<Cur(p), va>>] = Zero
        BY <1>1, <2>4 DEF Built, Zeroed
      <3>4. va \in Int
        BY ConstantTypes
      <3> QED
        BY <2>4, <3>1, <3>2, <3>3, <3>4
    <2>7. MemStep
      <3>1. CASE lo = n
        <4>1. \A va \in VA : UserMem'[p][va] = UserMem[p][va]
          BY <2>4, <2>6, <3>1
        <4>2. UserMem'[p] = UserMem[p]
          BY <4>1, SamePages
        <4> QED
          BY <2>5, <4>2 DEF MemStep, UserMem
      <3>2. CASE lo # n
        <4>1. lo \in VA /\ n - 1 \in VA /\ n = (n - 1) + 1
          BY <2>4, <3>2, ConstantTypes DEF VA
        <4>2. UserMem'[p] = [va \in VA |-> IF va \in lo .. n - 1 THEN Zero ELSE UserMem[p][va]]
          BY <2>6 DEF UserMem
        <4>3. UserMem' = [UserMem EXCEPT ![p] =
                            [va \in VA |-> IF va \in lo .. n - 1 THEN Zero ELSE UserMem[p][va]]]
          BY <2>5, <4>2
        <4>4. Private!Grow(p, lo, n)
          BY <2>6, <4>3 DEF Private!Grow
        <4> QED
          BY <4>1, <4>4 DEF MemStep, Private!Next
      <3> QED
        BY <3>1, <3>2
    <2>8. SizeInv'
      BY <2>3 DEF SizeInv, ContentInv
    <2> QED
      BY <1>1, <1>2, <2>2, <2>7, <2>8, BuiltNothing, ContentStays DEF SameAll
  <1> QED
    BY <1>3, <1>4

\* fork() returns: the child sees what its parent sees, all of it at once.
LEMMA ForkDoneShows ==
  ASSUME ShapeInv, ShapeInv', ContentInv, NEW p \in Proc, ForkDone(p), UNCHANGED kern
  PROVE  MemStep /\ ContentInv'
  <1> DEFINE c == th[p].kid
  <1>1. /\ th \in [Proc -> Path] /\ th[p].at \in {"forkmap", "alloc"} /\ th[p].k = "fork" /\ th[p].i = sz[p]
        /\ UNCHANGED <<data, active>> /\ TypeOK /\ Built(p) /\ Acts(p) /\ HasKid(p)
        /\ sz' = [sz EXCEPT ![c] = sz[p]] /\ status' = [status EXCEPT ![c] = "live"]
        /\ th' = [th EXCEPT ![p] = User, ![c] = User]
    BY PathFields, PathFacts DEF ForkDone, Acts, HasKid, mem, tables, ContentInv
  <1>2. SameAll
    BY <1>1, QuietForkDone, QuietShows
  <1>3. c \in Proc /\ c # p /\ status[c] = "used" /\ sz[c] = 0 /\ Target(p) = Cur(c)
    BY <1>1, KidIsDead, PathFacts, OwnTables DEF Life, ContentInv, SizeInv
  <1>4. th'[p].at = "user" /\ th'[c].at = "user" /\ \A q \in Proc : q # p /\ q # c => th'[q] = th[q]
    BY <1>1, <1>3 DEF User, At
  <1>5. /\ sz'[c] = sz[p] /\ \A q \in Proc : q # c => sz'[q] = sz[q]
        /\ status'[c] = "live" /\ \A q \in Proc : q # c => status'[q] = status[q]
    BY <1>1, <1>3, PathFacts DEF ProcTypes
  <1>6. /\ UserMem' = [UserMem EXCEPT ![c] = UserMem'[c]]
        /\ \A va \in VA : Con'[<<Cur(c), va>>] = Con[<<Cur(c), va>>]
    BY <1>1, <1>2, <1>3, <1>5, OneMemory
  <1>7. ASSUME NEW va \in VA PROVE UserMem'[c][va] = UserMem[p][va] /\ UserMem[c][va] = NoPage
    <2>1. UserMem[p][va] = IF va < sz[p] THEN Con[<<Cur(p), va>>] ELSE NoPage
      BY <1>1, UserMemIs
    <2>2. UserMem[c][va] = NoPage
      <3>1. ~(va < sz[c])
        BY <1>3, ConstantTypes
      <3> QED
        BY <1>1, <1>3, <3>1, UserMemIs
    <2>3. UserMem'[c][va] = IF va < sz[p] THEN Con[<<Cur(c), va>>] ELSE NoPage
      <3>1. PICK e \in Proc : e = c
        BY <1>3
      <3>2. Cur(e)' = Cur(e)
        BY <1>1 DEF Cur
      <3>3. UserMem'[e][va] = IF va < sz'[e] THEN Con'[<<Cur(e), va>>] ELSE NoPage
        BY <3>2, UserMemIs DEF ShapeInv
      <3> QED
        BY <1>5, <1>6, <3>1, <3>3
    <2>4. va < sz[p] => Con[<<Cur(c), va>>] = Con[<<Cur(p), va>>]
      BY <1>1, <1>3 DEF Built, Copied
    <2> QED
      BY <2>1, <2>2, <2>3, <2>4
  <1>8. MemStep
    <2>1. UserMem'[c] = UserMem[p] /\ UserMem[c] = [va \in VA |-> NoPage]
      BY <1>3, <1>7 DEF UserMem
    <2>2. Private!Fork(p, c)
      BY <1>6, <2>1 DEF Private!Fork, Private!Unmapped
    <2> QED
      BY <1>3, <2>2 DEF MemStep, Private!Next
  <1>9. SizeInv'
    BY <1>5 DEF SizeInv, ContentInv
  <1>10. ASSUME NEW q \in Proc PROVE Built(q)'
    <2>1. CASE q = p \/ q = c
      BY <1>4, <2>1, BuiltNothing
    <2>2. CASE ~(q = p \/ q = c)
      BY <1>1, <1>2, <1>4, <2>2, BuiltElsewhere DEF SameAll
    <2> QED
      BY <2>1, <2>2
  <1> QED
    BY <1>8, <1>9, <1>10 DEF ContentInv

\* A page table is gone: of exec()'s nobody saw a page, nor of a child's by now.
LEMMA FreewalkDoneShows ==
  ASSUME ShapeInv, ShapeInv', ContentInv, NEW p \in Proc, FreewalkDone(p), UNCHANGED kern
  PROVE  MemStep /\ ContentInv'
  <1>1. /\ th \in [Proc -> Path] /\ th[p].at = "freewalk" /\ Acts(p) /\ ~Pends(p)
        /\ UNCHANGED data /\ TypeOK /\ th' = [th EXCEPT ![p] = User]
    BY PathFields, PathFacts DEF FreewalkDone, Return, Acts, Pends, mem
  <1>2. SameAll
    BY <1>1, QuietReturns, QuietShows
  <1>3. (\A q \in Proc : q # p => th'[q] = th[q]) /\ th'[p].at = "user"
    BY <1>1 DEF User, At
  <1>4. CASE th[p].k = "exec"
    <2>1. UNCHANGED procs
      BY <1>4 DEF FreewalkDone
    <2> QED
      BY <1>2, <1>3, <2>1, BuiltNothing, PlainStep DEF procs
  <1>5. CASE th[p].k # "exec"
    <2> DEFINE c == th[p].kid
    <2>1. /\ status' = [status EXCEPT ![c] = "unused"] /\ sz' = [sz EXCEPT ![c] = 0]
          /\ active' = [active EXCEPT ![c] = 0]
      BY <1>5 DEF FreewalkDone
    <2>2. HasKid(p) /\ c \in Proc /\ c \in Reach(p)
      BY <1>1, <1>5, PathFacts DEF ServesCall, HasKid, Life, Reach
    <2>3. /\ sz'[c] = 0 /\ \A q \in Proc : q # c => sz'[q] = sz[q] /\ active'[q] = active[q]
          /\ status'[c] = "unused" /\ \A q \in Proc : q # c => status'[q] = status[q]
      BY <2>1, <2>2, PathFacts DEF ProcTypes
    <2>4. ASSUME NEW va \in VA PROVE UserMem'[c][va] = UserMem[c][va]
      <3>1. Target(p) = Cur(c) /\ Cur(c) \in Table /\ Cur(c)[1] \in Reach(p)
        BY <1>1, <2>2, OwnTables, TheTables
      <3>2. pa[Cur(c)][va] = NoPage
        BY <1>1, <3>1, PathFacts, ConstantTypes DEF Progress, Maps
      <3>3. Held[<<Cur(c), va>>] = NoPage
        BY <1>1, <3>1, <3>2, HeldMine, ConstantTypes
      <3>4. Con[<<Cur(c), va>>] = NoPage
        BY <3>1, <3>3, EntryIs, ConIs
      <3>5. ~(va < sz'[c])
        BY <2>3, ConstantTypes
      <3>6. UserMem[c][va] = NoPage
        BY <1>1, <2>2, <3>4, UserMemIs
      <3>7. UserMem'[c][va] = NoPage
        BY <2>2, <3>5, UserMemIs DEF ShapeInv
      <3> QED
        BY <3>6, <3>7
    <2>5. UNCHANGED UserMem
      <3>1. UserMem'[c] = UserMem[c]
        BY <2>2, <2>4, SamePages
      <3>2. UserMem' = [UserMem EXCEPT ![c] = UserMem'[c]]
        BY <1>2, <2>2, <2>3, OneMemory
      <3> QED
        BY <3>1, <3>2 DEF UserMem
    <2>6. SizeInv'
      BY <2>3 DEF SizeInv, ContentInv
    <2>7. \A r \in Proc : r \notin Reach(p) => active'[r] = active[r]
      BY <2>2, <2>3
    <2> QED
      BY <1>1, <1>2, <1>3, <2>5, <2>6, <2>7, BuiltNothing, ContentStays DEF SameAll, MemStep
  <1> QED
    BY <1>4, <1>5

\* exec() commits: the program sees the new image, all of it at once.
LEMMA ExecCommitShows ==
  ASSUME ShapeInv, ShapeInv', ContentInv, NEW p \in Proc, ExecCommit(p), UNCHANGED kern
  PROVE  MemStep /\ ContentInv'
  <1> DEFINE top == Len(Image) - 1
  <1>1. /\ th \in [Proc -> Path] /\ th[p].at = "commit" /\ th[p].k = "exec" /\ Acts(p)
        /\ UNCHANGED <<data, status>> /\ TypeOK /\ Built(p) /\ p \in Reach(p)
    BY PathFields, PathFacts, ReachTypes DEF ExecCommit, Acts, mem, ContentInv, ServesCall
  <1>2. SameAll
    BY <1>1, QuietReturns, QuietShows
  <1>3. (\A q \in Proc : q # p => th'[q] = th[q]) /\ th'[p].at = "unmap"
    <2>1. PICK m : th' = [th EXCEPT ![p] = [At("unmap", "exec") EXCEPT !.n = m]]
      BY DEF ExecCommit
    <2> QED
      BY <1>1, <2>1 DEF At
  <1>4. Built(p)'
    BY <1>3, BuiltNothing
  <1>5. CASE UNCHANGED <<active, sz>>
    BY <1>1, <1>2, <1>3, <1>4, <1>5, PlainStep
  <1>6. CASE active' = [active EXCEPT ![p] = 1 - @] /\ sz' = [sz EXCEPT ![p] = Len(Image)]
    <2>1. /\ sz'[p] = Len(Image) /\ active'[p] = 1 - active[p]
          /\ \A q \in Proc : q # p => sz'[q] = sz[q] /\ active'[q] = active[q]
      BY <1>6, PathFacts DEF ProcTypes
    <2>2. Target(p) = Scratch(p) /\ Cur(p)' = Scratch(p) /\ Scratch(p) \in Table
      BY <1>1, <2>1, TheTables DEF Target, Cur, Scratch
    <2>3. /\ \A va \in VA : va < top => Con[<<Scratch(p), va>>] = Zero
          /\ Con[<<Scratch(p), top>>] \in Data
      BY <1>1, <2>2 DEF Built, Loaded
    <2>4. \A va \in VA : Con'[<<Scratch(p), va>>] = Con[<<Scratch(p), va>>]
      BY <1>2, <2>2, EntryIs DEF SameAll
    <2>5. ASSUME NEW va \in VA
          PROVE  UserMem'[p][va] = IF va < top THEN Zero
                                   ELSE IF va = top THEN Con[<<Scratch(p), top>>] ELSE NoPage
      <3>1. UserMem'[p][va] = IF va < Len(Image) THEN Con[<<Scratch(p), va>>] ELSE NoPage
        BY <2>1, <2>2, <2>4, UserMemIs DEF ShapeInv
      <3>2. va < Len(Image) <=> va < top \/ va = top
        BY ConstantTypes
      <3> QED
        BY <2>3, <3>1, <3>2
    <2>6. UserMem' = [UserMem EXCEPT ![p] = UserMem'[p]]
      BY <1>2, <2>1, OneMemory
    <2>7. Private!Exec(p, top, Con[<<Scratch(p), top>>])
      <3>1. UserMem'[p] = [va \in VA |-> IF va < top THEN Zero
                                         ELSE IF va = top THEN Con[<<Scratch(p), top>>] ELSE NoPage]
        BY <2>5 DEF UserMem
      <3> QED
        BY <2>6, <3>1 DEF Private!Exec
    <2>8. MemStep
      <3>1. top \in VA
        BY ConstantTypes
      <3> QED
        BY <2>3, <2>7, <3>1 DEF MemStep, Private!Next
    <2>9. SizeInv'
      <3>1. status[p] = "live"
        BY <1>1, PathFacts DEF Life
      <3> QED
        BY <1>1, <2>1, <3>1 DEF SizeInv, ContentInv
    <2>10. \A r \in Proc : r \notin Reach(p) => active'[r] = active[r]
      BY <1>1, <2>1
    <2> QED
      BY <1>1, <1>2, <1>3, <1>4, <2>8, <2>9, <2>10, ContentStays DEF SameAll
  <1> QED
    BY <1>5, <1>6 DEF ExecCommit
-----------------------------------------------------------------------------
(* The theorem *)

\* At first nobody sees anything.
LEMMA InitContent ==
  ASSUME Init PROVE ContentInv /\ Private!Init
  <1>1. SizeInv
    BY DEF Init, SizeInv
  <1>2. ASSUME NEW p \in Proc PROVE Built(p)
    <2>1. th[p].at \in {"boot", "dead"}
      BY DEF Init, At
    <2> QED
      BY <2>1 DEF Built, Zeroed, Copied, Filled, Loaded
  <1>3. Private!Init
    <2>1. \A p \in Proc, va \in VA : ~(va < sz[p])
      BY ConstantTypes DEF Init
    <2> QED
      BY <2>1 DEF Private!Init, Private!Unmapped, UserMem
  <1> QED
    BY <1>1, <1>2, <1>3 DEF ContentInv

\* A step of user space.
LEMMA UserStepShows ==
  ASSUME ShapeInv, ShapeInv', Counted, OwnerInv, ContentInv, NEW p \in Proc, UserStep(p), UNCHANGED kern
  PROVE  MemStep /\ ContentInv'
  <1>1. ASSUME NEW va \in VA, NEW d \in Data, Store(p, va, d) PROVE MemStep /\ ContentInv'
    BY <1>1, UserStoreShows
  <1>2. ASSUME NEW va \in VA, CowFault(p, va) PROVE MemStep /\ ContentInv'
    <2>1. CheckCow(p, va) /\ CowCopy(p, va, "fault") /\ th[p].at = "user"
      BY <1>2 DEF CowFault, InUser
    <2> QED
      BY <2>1, CowCopyShows
  <1>3. ASSUME NEW va \in VA, CowFaultKills(p, va) PROVE MemStep /\ ContentInv'
    BY <1>3, EndsShow DEF CowFaultKills
  <1>4. ASSUME Quit(p) PROVE MemStep /\ ContentInv'
    BY <1>4, EndsShow DEF Quit
  <1>5. ASSUME \/ \E va \in VA : Read(p, va)
               \/ \E c \in Proc : Wait(p, c)
               \/ \E m \in 0 .. NVA : Sbrk(p, m)
        PROVE MemStep /\ ContentInv'
    BY <1>5, CallsShow
  <1>6. ASSUME Exec(p) \/ \E c \in Proc : Fork(p, c) PROVE MemStep /\ ContentInv'
    BY <1>6, NewTableShows
  <1> QED
    BY <1>1, <1>2, <1>3, <1>4, <1>5, <1>6 DEF UserStep

\* A step of a kernel path.
LEMMA KernelStepShows ==
  ASSUME ShapeInv, ShapeInv', Counted, OwnerInv, ContentInv, CopyoutAsksForWrite,
         NEW p \in Proc, KernelStep(p), UNCHANGED kern
  PROVE  MemStep /\ ContentInv'
  <1>1. ASSUME UserInit(p) PROVE MemStep /\ ContentInv'
    BY <1>1, NewTableShows
  <1>2. ASSUME WalkAlloc(p) PROVE MemStep /\ ContentInv'
    BY <1>2, WalkAllocShows
  <1>3. ASSUME AllocPage(p) PROVE MemStep /\ ContentInv'
    BY <1>3, AllocPageShows
  <1>4. ASSUME AllocFails(p) \/ ForkMapFails(p) PROVE MemStep /\ ContentInv'
    BY <1>4, EndsShow
  <1>5. ASSUME MapPage(p) PROVE MemStep /\ ContentInv'
    BY <1>5, MapPageShows
  <1>6. ASSUME MapFails(p) PROVE MemStep /\ ContentInv'
    BY <1>6, MapFailsShows
  <1>7. ASSUME AllocDone(p) PROVE MemStep /\ ContentInv'
    BY <1>7, AllocDoneShows
  <1>8. ASSUME UnmapPage(p) PROVE MemStep /\ ContentInv'
    BY <1>8, UnmapPageShows
  <1>9. ASSUME UnmapDone(p) PROVE MemStep /\ ContentInv'
    BY <1>9, UnmapDoneShows
  <1>10. ASSUME NEW s \in {Leaf, Root}, FreewalkPage(p, s) PROVE MemStep /\ ContentInv'
    BY <1>10, FreewalkPageShows
  <1>11. ASSUME FreewalkDone(p) PROVE MemStep /\ ContentInv'
    BY <1>11, FreewalkDoneShows
  <1>12. ASSUME ForkMap(p) PROVE MemStep /\ ContentInv'
    BY <1>12, ForkMapShows
  <1>13. ASSUME ForkRef(p) PROVE MemStep /\ ContentInv'
    BY <1>13, ForkRefShows
  <1>14. ASSUME ForkDone(p) PROVE MemStep /\ ContentInv'
    BY <1>14, ForkDoneShows
  <1>15. ASSUME CopyoutCow(p) PROVE MemStep /\ ContentInv'
    <2>1. th[p].at = "copyout" /\ CheckCow(p, th[p].i) /\ CowCopy(p, th[p].i, th[p].k)
      BY <1>15 DEF CopyoutCow
    <2>2. th[p].i \in VA
      BY <2>1, PathFacts DEF LoopBounds
    <2> QED
      BY <2>1, <2>2, CowCopyShows
  <1>16. ASSUME CopyoutGoesOn(p) PROVE MemStep /\ ContentInv'
    BY <1>16, CopyoutGoesOnShows
  <1>17. ASSUME Remap(p) PROVE MemStep /\ ContentInv'
    BY <1>17, RemapShows
  <1>18. ASSUME NEW d \in Data, Put(p, d) PROVE MemStep /\ ContentInv'
    BY <1>18, PutShows
  <1>19. ASSUME PutFails(p) PROVE MemStep /\ ContentInv'
    BY <1>19, CallsShow
  <1>20. ASSUME ExecCommit(p) PROVE MemStep /\ ContentInv'
    BY <1>20, ExecCommitShows
  <1> QED
    BY <1>1, <1>2, <1>3, <1>4, <1>5, <1>6, <1>7, <1>8, <1>9, <1>10, <1>11, <1>12, <1>13, <1>14,
       <1>15, <1>16, <1>17, <1>18, <1>19, <1>20 DEF KernelStep

\* Every step is one of PrivateMemory for the process it is a step of, or none.
LEMMA StepShows ==
  ASSUME ShapeInv, ShapeInv', Counted, OwnerInv, ContentInv, [Next /\ CopyoutAsksForWrite]_vars
  PROVE  MemStep /\ ContentInv'
  <1>1. CASE UNCHANGED vars
    <2>1. UNCHANGED UserMem
      BY <1>1 DEF vars, UserMem, Held, Fills, Target, Cur, Scratch
    <2>2. UNCHANGED <<Held, data, th, active, sz, status>>
      BY <1>1 DEF vars, Held, Fills, Target, Cur, Scratch
    <2>3. ASSUME NEW q \in Proc PROVE Built(q)'
      BY <2>2, ConStays, BuiltStays DEF ContentInv, SameAll
    <2>4. SizeInv'
      BY <2>2 DEF ContentInv, SizeInv
    <2> QED
      BY <2>1, <2>3, <2>4 DEF MemStep, ContentInv
  <1>2. CASE Next /\ CopyoutAsksForWrite
    <2>1. ASSUME KernelAlloc PROVE MemStep /\ ContentInv'
      BY <2>1, KernelShows
    <2>2. ASSUME NEW p \in Proc, UserStep(p), UNCHANGED kern PROVE MemStep /\ ContentInv'
      BY <2>2, UserStepShows
    <2>3. ASSUME NEW p \in Proc, KernelStep(p), UNCHANGED kern PROVE MemStep /\ ContentInv'
      BY <1>2, <2>3, KernelStepShows
    <2> QED
      BY <1>2, <2>1, <2>2, <2>3 DEF Next
  <1> QED
    BY <1>1, <1>2

\* Copy-on-write is invisible (vm.c uvmcopy, uvmcowcopy): whichever paths are under
\* way, each process has the memory that fork(), exec(), sbrk() and its own stores
\* give it, as long as copyout() stores to pages that the program could store to.
THEOREM CopyOnWriteIsInvisible == Spec /\ [][CopyoutAsksForWrite]_vars => Isolation
  <1>1. Init => ContentInv /\ Private!Init
    BY InitContent
  <1>2. ShapeInv /\ ShapeInv' /\ Counted /\ OwnerInv /\ ContentInv /\ [Next /\ CopyoutAsksForWrite]_vars
          => ContentInv' /\ [Private!Next]_UserMem
    BY StepShows DEF MemStep
  <1>3. Spec => []ShapeInv
    BY ShapeInvariance
  <1>4. Spec => []Counted
    <2>1. Refs!RefInv <=> Counted
      BY CountedIs
    <2> QED
      BY <2>1, CountsAreExact, PTL
  <1>5. Spec => []OwnerInv
    BY ExclusiveOwners
  <1>6. [Next]_vars /\ [CopyoutAsksForWrite]_vars => [Next /\ CopyoutAsksForWrite]_vars
    OBVIOUS
  <1> QED
    BY <1>1, <1>2, <1>3, <1>4, <1>5, <1>6, PTL DEF Spec, Isolation, Private!Spec
====
