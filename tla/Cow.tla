--------------------------------- MODULE Cow --------------------------------
(***************************************************************************)
(* Copy-on-write address spaces: the page tables of COW-PROJECT/kernel/vm.c *)
(* over the allocator of kalloc.c, and the paths of proc.c, exec.c and     *)
(* trap.c that build, share, break and tear down user memory.              *)
(*                                                                         *)
(* Every kernel path runs in the context of one process, one step per call *)
(* of kalloc, kfree, krefpage or kcopy_n_deref; the paths of different     *)
(* processes interleave between those steps.  The other kernel's fork, which *)
(* copies every page at once, is the case eager.                            *)
(***************************************************************************)
EXTENDS Integers, FiniteSets, Sequences

CONSTANTS Proc, InitProc, NoProc,
          NVA,       \* virtual pages below the largest p->sz
          Page, NoPage,
          Data, Zero, Junk,
          Kernels,     \* the kernels: TRUE is ROUND ROBIN-PROJECT's, with its eager fork
          KernelPages, \* how many pages the kernel may take for itself at boot
          Image,     \* permissions of the pages exec() loads, guard and stack last
          Calls      \* the system calls the user programs make

ASSUME CowAssumption ==
  /\ InitProc \in Proc /\ NoProc \notin Proc /\ IsFiniteSet(Proc)
  /\ NVA \in Nat \ {0}
  /\ NoPage \notin Page /\ IsFiniteSet(Page)
  /\ KernelPages \subseteq Nat /\ Kernels \subseteq BOOLEAN
  /\ \A n \in KernelPages : n + 3 <= Cardinality(Page)   \* enough to boot
  /\ Zero \in Data /\ Junk \notin Data /\ NoPage \notin Data \cup {Junk}
  /\ Image \in Seq([w : BOOLEAN, u : BOOLEAN]) /\ Len(Image) \in 1 .. NVA
  /\ Calls \subseteq {"fork", "sbrk", "exec", "read", "exit"}

VA    == 0 .. NVA - 1
Leaf  == NVA           \* the page-table pages walk() adds for user addresses
Root  == NVA + 1       \* the page table's other pages, and in fork the trapframe
Where == 0 .. NVA + 1
Table == Proc \X {0, 1}
Perm  == [w : BOOLEAN, cow : BOOLEAN, u : BOOLEAN]
NoPerm == [w |-> FALSE, cow |-> FALSE, u |-> FALSE]

VARIABLES
  free, ref, data,   \* kmem.freelist, pageref[], contents of physical pages
  eager,             \* whether this is the kernel that copies at once
  kern,              \* pages of the kernel: its page table and stacks, the disk's rings
  pa, perm,          \* page tables: page and PTE_W, PTE_COW, PTE_U of an entry
  active,            \* which of its two tables p->pagetable is
  sz, status, parent,
  th                 \* where p's kernel path stands, and its local variables

mem    == <<free, ref, data>>
tables == <<pa, perm>>
procs  == <<active, sz, status, parent>>
vars   == <<free, ref, data, eager, kern, pa, perm, active, sz, status, parent, th>>

\* at: what the path does next; k: the call it serves; i, n: loop index and
\* bound; lo: the size uvmdealloc shrinks to; pg: a page held in a variable.
At(at, k) == [at |-> at, k |-> k, i |-> 0, n |-> 0, lo |-> 0,
              pg |-> NoPage, kid |-> NoProc]
User == At("user", "none")

Cur(p)     == <<p, active[p]>>         \* p->pagetable
Scratch(p) == <<p, 1 - active[p]>>     \* the table exec() builds or discards

\* The page table a path works on: exec's new one, the child's, or its own.
Target(p) == IF th[p].k = "exec" THEN Scratch(p)
             ELSE IF th[p].k \in {"fork", "wait"} THEN Cur(th[p].kid)
             ELSE Cur(p)

InUser(p) == status[p] = "live" /\ th[p].at = "user"
Goto(p, at) == th' = [th EXCEPT ![p].at = at]
Return(p) == th' = [th EXCEPT ![p] = User]
Panic(p, why) ==
  th' = [th EXCEPT ![p] = At("panic", why)] /\ UNCHANGED <<mem, tables, procs>>
-----------------------------------------------------------------------------
(* kalloc.c *)

\* kalloc() and the caller's initialisation of the page with contents d.
Kalloc(g, d) ==
  /\ g \in free
  /\ free' = free \ {g}
  /\ ref' = [ref EXCEPT ![g] = 1]
  /\ data' = [data EXCEPT ![g] = d]

Kfree(g) ==
  LET last == ref[g] - 1 <= 0 IN
    /\ ref' = [ref EXCEPT ![g] = @ - 1]
    /\ free' = IF last THEN free \cup {g} ELSE free
    /\ data' = IF last THEN [data EXCEPT ![g] = Junk] ELSE data

\* Mutant of Krefpage: uvmcopy() forgets to count the child's mapping.
KrefpageForgotten(g) == UNCHANGED mem

Krefpage(g) == ref' = [ref EXCEPT ![g] = @ + 1] /\ UNCHANGED <<free, data>>

\* kcopy_n_deref() returning page h: g itself when this is the only
\* reference, else a copy of g.
SoleOwner(g) == ref[g] <= 1

\* Mutant of KcopyTo: the memmove() is missing.
KcopyToBlank(g, h) ==
  /\ ~SoleOwner(g)
  /\ h \in free
  /\ free' = free \ {h}
  /\ data' = [data EXCEPT ![h] = Junk]
  /\ ref' = [ref EXCEPT ![h] = 1, ![g] = @ - 1]

KcopyTo(g, h) ==
  /\ ~SoleOwner(g)
  /\ h \in free
  /\ free' = free \ {h}
  /\ data' = [data EXCEPT ![h] = data[g]]
  /\ ref' = [ref EXCEPT ![h] = 1, ![g] = @ - 1]
KcopyFails(g) == ~SoleOwner(g) /\ free = {}
-----------------------------------------------------------------------------
(* vm.c: growing a page table, and taking it down *)

\* walk(pagetable, va, 1) adds the missing page-table pages.
NeedsWalk(p) == /\ \/ th[p].at = "map"
                   \/ th[p].at = "forkmap" /\ th[p].i < sz[p]
                /\ pa[Target(p)][Leaf] = NoPage
WalkAlloc(p) ==
  /\ NeedsWalk(p)
  /\ \E g \in free : /\ Kalloc(g, Junk)
                     /\ pa' = [pa EXCEPT ![Target(p)][Leaf] = g]
  /\ UNCHANGED <<perm, procs, th>>

\* The permissions uvmalloc is given for page va of the image under way.
NewPerm(p, va) ==
  IF th[p].k = "exec"
  THEN [w |-> Image[va + 1].w, cow |-> FALSE, u |-> Image[va + 1].u]
  ELSE IF th[p].k = "fork" THEN perm[Cur(p)][va]
  ELSE [w |-> TRUE, cow |-> FALSE, u |-> TRUE]

\* Mutant of GiveBack: the page that could not be mapped is unmapped too.
GiveBackOne(p) == th' = [th EXCEPT ![p].at = "unmap", ![p].n = th[p].i + 1,
                                   ![p].i = th[p].lo, ![p].pg = NoPage]

\* uvmdealloc(pagetable, a, oldsz), and for exec the bad: label behind it.
GiveBack(p) == th' = [th EXCEPT ![p].at = "unmap", ![p].n = th[p].i,
                                ![p].i = th[p].lo, ![p].pg = NoPage]

\* What the page gets: the eager uvmcopy() copies the parent's page into it.
NewData(p) == IF th[p].k = "fork" THEN data[pa[Cur(p)][th[p].i]] ELSE Zero

\* uvmalloc() and the eager uvmcopy(): one page allocated, filled, then mapped,
\* per iteration.
AllocPage(p) ==
  /\ th[p].at = "alloc" /\ th[p].i < th[p].n
  /\ \E g \in free : /\ Kalloc(g, NewData(p))
                     /\ th' = [th EXCEPT ![p].at = "map", ![p].pg = g]
  /\ UNCHANGED <<tables, procs>>

AllocFails(p) ==
  /\ th[p].at = "alloc" /\ th[p].i < th[p].n
  /\ free = {}
  /\ GiveBack(p)
  /\ UNCHANGED <<mem, tables, procs>>

MapPage(p) ==
  LET t == Target(p)  va == th[p].i IN
    /\ th[p].at = "map" /\ ~NeedsWalk(p)
    /\ IF pa[t][va] # NoPage THEN Panic(p, "mappages: remap")
       ELSE /\ pa' = [pa EXCEPT ![t][va] = th[p].pg]
            /\ perm' = [perm EXCEPT ![t][va] = NewPerm(p, va)]
            /\ th' = [th EXCEPT ![p].at = "alloc", ![p].i = va + 1, ![p].pg = NoPage]
            /\ UNCHANGED <<mem, procs>>

\* mappages() could not extend the table: kfree(mem), then give the rest back.
MapFails(p) ==
  /\ th[p].at = "map" /\ NeedsWalk(p) /\ free = {}
  /\ Kfree(th[p].pg)
  /\ GiveBack(p)
  /\ UNCHANGED <<tables, procs>>

\* uvmunmap(pagetable, lo, npages, 1): one kfree and one cleared entry a step.
UnmapPage(p) ==
  LET t == Target(p)  va == th[p].i IN
    /\ th[p].at = "unmap" /\ va < th[p].n
    /\ IF pa[t][va] = NoPage THEN Panic(p, "uvmunmap: not mapped")
       ELSE /\ Kfree(pa[t][va])
            /\ pa' = [pa EXCEPT ![t][va] = NoPage]
            /\ perm' = [perm EXCEPT ![t][va] = NoPerm]
            /\ th' = [th EXCEPT ![p].i = va + 1]
            /\ UNCHANGED procs

\* sbrk only sets p->sz; every other path goes on to free the page table.
UnmapDone(p) ==
  /\ th[p].at = "unmap" /\ th[p].i = th[p].n
  /\ IF th[p].k = "sbrk"
     THEN sz' = [sz EXCEPT ![p] = th[p].lo] /\ Return(p)
     ELSE Goto(p, "freewalk") /\ UNCHANGED sz
  /\ UNCHANGED <<mem, tables, active, status, parent>>

\* freewalk(): free the table's own pages; a surviving leaf is a panic.
FreewalkPage(p, s) ==
  LET t == Target(p) IN
    /\ th[p].at = "freewalk" /\ pa[t][s] # NoPage
    /\ s = Root => pa[t][Leaf] = NoPage
    /\ IF \E va \in VA : pa[t][va] # NoPage THEN Panic(p, "freewalk: leaf")
       ELSE /\ Kfree(pa[t][s])
            /\ pa' = [pa EXCEPT ![t][s] = NoPage]
            /\ UNCHANGED <<perm, procs, th>>

\* The table is gone: fork and exec return, freeproc() clears the child's slot.
FreewalkDone(p) ==
  /\ th[p].at = "freewalk" /\ pa[Target(p)][Root] = NoPage
  /\ IF th[p].k = "exec" THEN UNCHANGED procs
     ELSE /\ status' = [status EXCEPT ![th[p].kid] = "unused"]
          /\ sz' = [sz EXCEPT ![th[p].kid] = 0]
          /\ parent' = [parent EXCEPT ![th[p].kid] = NoProc]
          /\ active' = [active EXCEPT ![th[p].kid] = 0]
  /\ Return(p)
  /\ UNCHANGED <<mem, tables>>
-----------------------------------------------------------------------------
(* vm.c and trap.c: breaking a copy-on-write mapping *)

\* uvmcheckcowpage(): always asks the process's own page table and size.
CheckCow(p, va) == /\ va < sz[p]
                   /\ pa[Cur(p)][va] # NoPage
                   /\ perm[Cur(p)][va].cow

\* The first half of uvmcowcopy(): kcopy_n_deref() yields the page to map.
CowCopy(p, va, k) ==
  LET g == pa[Cur(p)][va] IN
    /\ \/ /\ SoleOwner(g)
          /\ th' = [th EXCEPT ![p].at = "remap", ![p].k = k, ![p].i = va, ![p].pg = g]
          /\ UNCHANGED mem
       \/ \E h \in Page :
            /\ KcopyTo(g, h)
            /\ th' = [th EXCEPT ![p].at = "remap", ![p].k = k, ![p].i = va, ![p].pg = h]
    /\ UNCHANGED <<tables, procs>>

\* The second half: map the page writable and no longer copy-on-write.
Remap(p) ==
  LET va == th[p].i IN
    /\ th[p].at = "remap"
    /\ pa' = [pa EXCEPT ![Cur(p)][va] = th[p].pg]
    /\ perm' = [perm EXCEPT ![Cur(p)][va] = [@ EXCEPT !.w = TRUE, !.cow = FALSE]]
    /\ th' = [th EXCEPT ![p] = IF @.k = "fault" THEN User
                               ELSE [@ EXCEPT !.at = "put", !.pg = NoPage]]
    /\ UNCHANGED <<mem, procs>>

\* exit(): init may not; children go to init; memory stays until wait().
Exit(p) ==
  IF p = InitProc THEN Panic(p, "init exiting")
  ELSE /\ status' = [status EXCEPT ![p] = "zombie"]
       /\ parent' = [c \in Proc |-> IF parent[c] = p THEN InitProc ELSE parent[c]]
       /\ th' = [th EXCEPT ![p] = At("dead", "none")]
       /\ UNCHANGED <<mem, tables, active, sz>>

Writable(p, va) == LET t == Cur(p) IN
  pa[t][va] # NoPage /\ perm[t][va].u /\ perm[t][va].w

\* A store instruction the hardware allows.
Store(p, va, d) ==
  /\ InUser(p) /\ Writable(p, va)
  /\ data' = [data EXCEPT ![pa[Cur(p)][va]] = d]
  /\ UNCHANGED <<free, ref, tables, procs, th>>

\* A store that faults: usertrap() breaks the sharing, or kills the process.
CowFault(p, va) ==
  InUser(p) /\ ~Writable(p, va) /\ CheckCow(p, va) /\ CowCopy(p, va, "fault")
CowFaultKills(p, va) ==
  /\ InUser(p) /\ ~Writable(p, va) /\ CheckCow(p, va)
  /\ KcopyFails(pa[Cur(p)][va])
  /\ Exit(p)

\* exit(), or any access usertrap() does not understand.  Init does neither.
Quit(p) == "exit" \in Calls /\ InUser(p) /\ p # InitProc /\ Exit(p)
-----------------------------------------------------------------------------
(* System calls that write user memory through copyout() *)

Copyout(p, k, va, kid) ==
  th' = [th EXCEPT ![p] = [At("copyout", k) EXCEPT !.i = va, !.kid = kid]]

\* read(), fstat(), pipe()...: the kernel stores at an address of p's choice.
Read(p, va) ==
  /\ "read" \in Calls /\ InUser(p)
  /\ Copyout(p, "read", va, NoProc)
  /\ UNCHANGED <<mem, tables, procs>>

\* copyout() asks for a copy-on-write page of the process, whatever the
\* table it writes to, and goes on when the copy could not be made.
CopyoutCow(p) ==
  /\ th[p].at = "copyout" /\ CheckCow(p, th[p].i)
  /\ CowCopy(p, th[p].i, th[p].k)
CopyoutGoesOn(p) ==
  /\ th[p].at = "copyout"
  /\ CheckCow(p, th[p].i) => KcopyFails(pa[Cur(p)][th[p].i])
  /\ Goto(p, "put")
  /\ UNCHANGED <<mem, tables, procs>>

PutTable(p) == IF th[p].k = "exec" THEN Scratch(p) ELSE Cur(p)

\* walkaddr() and memmove(): PTE_V and PTE_U are asked for, PTE_W is not.
Put(p, d) ==
  LET t == PutTable(p)  va == th[p].i IN
    /\ th[p].at = "put"
    /\ pa[t][va] # NoPage /\ perm[t][va].u
    /\ data' = [data EXCEPT ![pa[t][va]] = d]
    /\ th' = [th EXCEPT ![p] =
                IF @.k = "read" THEN User
                ELSE IF @.k = "wait"
                     THEN [@ EXCEPT !.at = "unmap", !.i = 0, !.n = sz[th[p].kid]]
                     ELSE [@ EXCEPT !.at = "commit"]]
    /\ UNCHANGED <<free, ref, tables, procs>>
PutFails(p) ==
  LET t == PutTable(p)  va == th[p].i IN
    /\ th[p].at = "put" /\ th[p].k # "exec"
    /\ pa[t][va] = NoPage \/ ~perm[t][va].u
    /\ Return(p)
    /\ UNCHANGED <<mem, tables, procs>>

\* wait(0) frees the zombie child at once; wait(va) stores its status first.
Wait(p, c) ==
  /\ InUser(p) /\ parent[c] = p /\ status[c] = "zombie"
  /\ \/ th' = [th EXCEPT ![p] = [At("unmap", "wait") EXCEPT !.n = sz[c], !.kid = c]]
     \/ "read" \in Calls /\ \E va \in VA : Copyout(p, "wait", va, c)
  /\ UNCHANGED <<mem, tables, procs>>
-----------------------------------------------------------------------------
(* fork(), sbrk(), exec() and the first process *)

\* allocproc(): the child's table pages, or -1 with nothing changed.
Fork(p, c) ==
  /\ "fork" \in Calls /\ InUser(p) /\ status[c] = "unused"
  /\ \E g \in free : /\ Kalloc(g, Junk)
                     /\ pa' = [pa EXCEPT ![Cur(c)][Root] = g]
  /\ status' = [status EXCEPT ![c] = "used"]
  /\ th' = [th EXCEPT ![p] = [At(IF eager THEN "alloc" ELSE "forkmap", "fork") EXCEPT !.n = sz[p], !.kid = c]]
  /\ UNCHANGED <<perm, active, sz, parent>>

\* uvmcopy() takes PTE_W from the parent's entry and marks it PTE_COW.
Protect(p, va) ==
  LET e == perm[Cur(p)][va] IN IF e.w THEN [e EXCEPT !.w = FALSE, !.cow = TRUE] ELSE e

\* ... and maps the parent's page in the child with the same permissions ...
ForkMap(p) ==
  LET va == th[p].i  c == Cur(th[p].kid) IN
    /\ th[p].at = "forkmap" /\ va < sz[p] /\ ~NeedsWalk(p)
    /\ IF pa[Cur(p)][va] = NoPage THEN Panic(p, "uvmcopy: page not present")
       ELSE /\ pa' = [pa EXCEPT ![c][va] = pa[Cur(p)][va]]
            /\ perm' = [perm EXCEPT ![Cur(p)][va] = Protect(p, va), ![c][va] = Protect(p, va)]
            /\ Goto(p, "forkref")
            /\ UNCHANGED <<mem, procs>>

\* ... and only then counts the child's reference.
ForkRef(p) ==
  /\ th[p].at = "forkref"
  /\ Krefpage(pa[Cur(p)][th[p].i])
  /\ th' = [th EXCEPT ![p].at = "forkmap", ![p].i = @ + 1]
  /\ UNCHANGED <<tables, procs>>

\* mappages() could not extend the child's table: uvmunmap(new, 0, i, 1).
\* The parent's entry stays copy-on-write.
ForkMapFails(p) ==
  /\ th[p].at = "forkmap" /\ NeedsWalk(p) /\ free = {}
  /\ perm' = [perm EXCEPT ![Cur(p)][th[p].i] = Protect(p, th[p].i)]
  /\ GiveBack(p)
  /\ UNCHANGED <<mem, pa, procs>>

ForkDone(p) ==
  LET c == th[p].kid IN
    /\ th[p].k = "fork" /\ th[p].at \in {"forkmap", "alloc"} /\ th[p].i = sz[p]
    /\ sz' = [sz EXCEPT ![c] = sz[p]]
    /\ status' = [status EXCEPT ![c] = "live"]
    /\ parent' = [parent EXCEPT ![c] = p]
    /\ th' = [th EXCEPT ![p] = User, ![c] = User]
    /\ UNCHANGED <<mem, tables, active>>

\* sbrk(n): growproc() grows to m pages, or shrinks to m pages.
Sbrk(p, m) ==
  /\ "sbrk" \in Calls /\ InUser(p) /\ m # sz[p]
  /\ th' = [th EXCEPT ![p] =
              IF m > sz[p]
              THEN [At("alloc", "sbrk") EXCEPT !.i = sz[p], !.n = m, !.lo = sz[p]]
              ELSE [At("unmap", "sbrk") EXCEPT !.i = m, !.n = sz[p], !.lo = m]]
  /\ UNCHANGED <<mem, tables, procs>>

\* exec(): proc_pagetable() for the new image, then uvmalloc per segment.
Exec(p) ==
  /\ "exec" \in Calls /\ InUser(p)
  /\ \E g \in free : /\ Kalloc(g, Junk)
                     /\ pa' = [pa EXCEPT ![Scratch(p)][Root] = g]
  /\ th' = [th EXCEPT ![p] = [At("alloc", "exec") EXCEPT !.n = Len(Image)]]
  /\ UNCHANGED <<perm, procs>>

\* uvmalloc() is through: sbrk sets p->sz, exec goes on to the arguments.
AllocDone(p) ==
  /\ th[p].at = "alloc" /\ th[p].i = th[p].n /\ th[p].k # "fork"
  /\ IF th[p].k = "exec"
     THEN /\ Copyout(p, "exec", Len(Image) - 1, NoProc)
          /\ UNCHANGED procs
     ELSE /\ sz' = [sz EXCEPT ![p] = th[p].n]
          /\ status' = [status EXCEPT ![p] = "live"]
          /\ Return(p)
          /\ UNCHANGED <<active, parent>>
  /\ UNCHANGED <<mem, tables>>

\* Commit to the new image and free the old one, or (too many arguments)
\* free the new one.
ExecCommit(p) ==
  /\ th[p].at = "commit"
  /\ \/ /\ active' = [active EXCEPT ![p] = 1 - @]
        /\ sz' = [sz EXCEPT ![p] = Len(Image)]
        /\ th' = [th EXCEPT ![p] = [At("unmap", "exec") EXCEPT !.n = sz[p]]]
     \/ /\ th' = [th EXCEPT ![p] = [At("unmap", "exec") EXCEPT !.n = Len(Image)]]
        /\ UNCHANGED <<active, sz>>
  /\ UNCHANGED <<mem, tables, status, parent>>

\* main() before the first process: kvminit(), proc_mapstacks() and
\* virtio_disk_init() allocate pages that are never given back.
KernelAlloc ==
  /\ th[InitProc].at = "boot"
  /\ \E n \in KernelPages : Cardinality(kern) < n
  /\ \E g \in free : Kalloc(g, Junk) /\ kern' = kern \cup {g}
  /\ UNCHANGED <<tables, procs, th>>

\* userinit(): allocproc(), then uvmfirst() maps one page for initcode.
UserInit(p) ==
  /\ th[p].at = "boot" /\ Cardinality(kern) \in KernelPages
  /\ \E g \in free : /\ Kalloc(g, Junk)
                     /\ pa' = [pa EXCEPT ![Cur(p)][Root] = g]
  /\ th' = [th EXCEPT ![p] = [At("alloc", "boot") EXCEPT !.n = 1]]
  /\ UNCHANGED <<perm, procs>>
-----------------------------------------------------------------------------
Init ==
  /\ eager \in Kernels /\ kern = {}
  /\ free = Page /\ ref = [g \in Page |-> -1] /\ data = [g \in Page |-> Junk]
  /\ pa = [t \in Table |-> [s \in Where |-> NoPage]]
  /\ perm = [t \in Table |-> [va \in VA |-> NoPerm]]
  /\ active = [p \in Proc |-> 0] /\ sz = [p \in Proc |-> 0]
  /\ status = [p \in Proc |-> IF p = InitProc THEN "used" ELSE "unused"]
  /\ parent = [p \in Proc |-> NoProc]
  /\ th = [p \in Proc |-> At(IF p = InitProc THEN "boot" ELSE "dead", "none")]

UserStep(p) ==
  \/ \E va \in VA : \/ \E d \in Data : Store(p, va, d)
                    \/ CowFault(p, va) \/ CowFaultKills(p, va) \/ Read(p, va)
  \/ \E c \in Proc : Fork(p, c) \/ Wait(p, c)
  \/ \E m \in 0 .. NVA : Sbrk(p, m)
  \/ Exec(p) \/ Quit(p)

KernelStep(p) ==
  \/ UserInit(p) \/ WalkAlloc(p)
  \/ AllocPage(p) \/ AllocFails(p) \/ MapPage(p) \/ MapFails(p) \/ AllocDone(p)
  \/ UnmapPage(p) \/ UnmapDone(p)
  \/ \E s \in {Leaf, Root} : FreewalkPage(p, s)
  \/ FreewalkDone(p)
  \/ ForkMap(p) \/ ForkRef(p) \/ ForkMapFails(p) \/ ForkDone(p)
  \/ CopyoutCow(p) \/ CopyoutGoesOn(p) \/ Remap(p)
  \/ \E d \in Data : Put(p, d)
  \/ PutFails(p) \/ ExecCommit(p)

Next == /\ UNCHANGED eager
        /\ \/ KernelAlloc
           \/ \E p \in Proc : (UserStep(p) \/ KernelStep(p)) /\ UNCHANGED kern

Spec == Init /\ [][Next]_vars
-----------------------------------------------------------------------------
\* The panics of page tables (vm.c), and of exit() in the first process.
Panics == {"mappages: remap", "uvmunmap: not mapped", "freewalk: leaf",
           "uvmcopy: page not present", "init exiting"}

TypeOK ==
  /\ free \in SUBSET Page /\ eager \in BOOLEAN
  /\ ref \in [Page -> Int]
  /\ data \in [Page -> Data \cup {Junk}]
  /\ kern \in SUBSET Page
  /\ pa \in [Table -> [Where -> Page \cup {NoPage}]]
  /\ perm \in [Table -> [VA -> Perm]]
  /\ active \in [Proc -> {0, 1}]
  /\ sz \in [Proc -> 0 .. NVA]
  /\ status \in [Proc -> {"unused", "used", "live", "zombie"}]
  /\ parent \in [Proc -> Proc \cup {NoProc}]
  /\ th \in [Proc -> [at : {"boot", "dead", "user", "alloc", "map", "unmap",
                            "freewalk", "forkmap", "forkref", "copyout", "remap",
                            "put", "commit", "panic"},
                      k : {"none", "boot", "fork", "exec", "sbrk", "wait", "read", "fault"} \cup Panics,
                      i : 0 .. NVA, n : 0 .. NVA, lo : 0 .. NVA,
                      pg : Page \cup {NoPage}, kid : Proc \cup {NoProc}]]

\* The page entry s of table t counts for in pageref[]; a page of the kernel
\* counts for itself.  It is not what the entry says in two places: a path may
\* hold the page it is about to map, and uvmcopy() has mapped a page of the
\* child that it has yet to count.
Slot == (Table \X Where) \cup {<<<<NoProc, 0>>, g>> : g \in Page}
Fills(p, t, s) == /\ s = th[p].i
                  /\ \/ th[p].at = "map" /\ t = Target(p)
                     \/ th[p].at = "remap" /\ t = Cur(p)
Held == [x \in Slot |->
  LET t == x[1]  s == x[2] IN
  IF t[1] = NoProc THEN IF s \in kern THEN s ELSE NoPage
  ELSE IF \E p \in Proc : (th[p].at = "forkref") /\ t = Target(p) /\ s = th[p].i THEN NoPage
  ELSE IF \E p \in Proc : Fills(p, t, s) THEN th[CHOOSE p \in Proc : Fills(p, t, s)].pg
  ELSE pa[t][s]]

Refs == INSTANCE PageRefs WITH hold <- Held

\* Every step of every path is a step of the allocator's contract: slots are
\* taken, shared, moved to a copy and dropped one at a time (kalloc.c:33-38).
\* Then (PageRefs.RefInv) pageref[] counts the references to a page exactly
\* whatever paths are under way, and a page is free when nothing refers to it.
ImplementsPageRefs == Refs!Spec

\* A page some process can store to without a fault is referred to by that one
\* entry: fork never leaves a writable page shared, nor does a fault restore
\* PTE_W to one (vm.c uvmcopy, uvmcowcopy).
WritableIsExclusive ==
  \A p \in Proc, va \in VA :
    Writable(p, va) /\ th[p].at = "user" => Refs!Holders(pa[Cur(p)][va]) = {<<Cur(p), va>>}

\* A page table maps exactly the pages below p->sz when its process is in user
\* space, a page that can be stored to is mapped once, and none of the panics of
\* mappages, uvmunmap, uvmcopy and freewalk is reached, whichever allocation fails
\* on the way; fields keep their ranges (TypeOK).
PageTableSound ==
  /\ TypeOK /\ WritableIsExclusive
  /\ \A p \in Proc : InUser(p) =>
        /\ \A va \in VA : pa[Cur(p)][va] # NoPage <=> va < sz[p]
        /\ \A s \in Where : pa[Scratch(p)][s] = NoPage
  /\ \A p \in Proc : th[p].at = "panic" => th[p].k = "init exiting"

\* The memory a process sees: what its entries map below p->sz.
UserMem == [p \in Proc |-> [va \in VA |->
  LET g == Held[<<Cur(p), va>>] IN
    IF va < sz[p] /\ g # NoPage THEN data[g] ELSE NoPage]]

Private == INSTANCE PrivateMemory WITH mem <- UserMem, NoData <- NoPage

\* Copy-on-write is invisible: each process has the memory fork, exec, sbrk and
\* its own stores give it, as if fork had copied it (README.md "copy-on-write").
Isolation == Private!Spec

=============================================================================
