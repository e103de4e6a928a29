------------------------------ MODULE PageRefs ------------------------------
(***************************************************************************)
(* What the reference-counted page allocator of COW-PROJECT/kernel/kalloc.c *)
(* promises its callers, each operation taken as one step.                 *)
(*                                                                         *)
(* A Slot is a place from which a page can be reached: a leaf or inner     *)
(* entry of a page table, a trapframe pointer, a local variable of a       *)
(* kernel path.  hold[s] is the page slot s refers to.  pageref[] counts   *)
(* slots, and a page is on the freelist exactly when no slot refers to it. *)
(***************************************************************************)
EXTENDS Integers, FiniteSets

CONSTANTS Page,     \* the physical pages between end and PHYSTOP
          Slot,     \* the places that may refer to a page
          NoPage    \* a slot that refers to no page

\* What the theorems assume of the constants.
PageRefsAssumption == IsFiniteSet(Slot) /\ NoPage \notin Page

VARIABLES free,     \* kmem.freelist, as a set
          ref,      \* pageref[]
          hold      \* the page each slot refers to

vars == <<free, ref, hold>>

Holders(g) == {s \in Slot : hold[s] = g}

\* After kinit: kfree has lowered every zero-initialised count to -1.
Init ==
  /\ free = Page
  /\ ref = [g \in Page |-> -1]
  /\ hold = [s \in Slot |-> NoPage]

\* A slot that refers to nothing comes to refer to page g.
Refer(s, g) == hold[s] = NoPage /\ hold' = [hold EXCEPT ![s] = g]

\* kalloc(): take a page off the freelist and count its first reference.
Alloc(g) ==
  /\ g \in free
  /\ free' = free \ {g}
  /\ ref' = [ref EXCEPT ![g] = 1]
  /\ \E s \in Slot : Refer(s, g)

\* kfree(): drop one reference, and the page with the last of them.
Drop(g) ==
  /\ ref' = [ref EXCEPT ![g] = @ - 1]
  /\ free' = IF ref[g] - 1 <= 0 THEN free \cup {g} ELSE free
  /\ \E s \in Holders(g) : hold' = [hold EXCEPT ![s] = NoPage]

\* krefpage(): count one more reference to a page that has one.
Share(g) ==
  /\ ref' = [ref EXCEPT ![g] = @ + 1]
  /\ UNCHANGED free
  /\ Holders(g) # {}
  /\ \E s \in Slot : Refer(s, g)

\* kcopy_n_deref() on the shared page old: one slot moves to a fresh copy.
Copy(old, g) ==
  /\ g \in free
  /\ free' = free \ {g}
  /\ ref[old] > 1
  /\ ref' = [ref EXCEPT ![g] = 1, ![old] = @ - 1]
  /\ \E s \in Holders(old) : hold' = [hold EXCEPT ![s] = g]

Next ==
  \E g \in Page :
    \/ Alloc(g) \/ Drop(g) \/ Share(g)
    \/ \E old \in Page : Copy(old, g)

Spec == Init /\ [][Next]_vars
-----------------------------------------------------------------------------
TypeOK ==
  /\ free \in SUBSET Page
  /\ ref \in [Page -> Int]
  /\ hold \in [Slot -> Page \cup {NoPage}]

\* A free page is referred to by nothing, and its count cannot keep it alive.
FreeIsUnreferenced ==
  \A g \in free : Holders(g) = {} /\ ref[g] <= 0

\* An allocated page is referred to by something, and its count is exactly
\* the number of references: it is freed with the last one and not before.
CountIsReferences ==
  \A g \in Page \ free : Holders(g) # {} /\ ref[g] = Cardinality(Holders(g))

\* The contract of kalloc.c: no dangling reference, no leak, exact counts.
RefInv == FreeIsUnreferenced /\ CountIsReferences
=============================================================================
