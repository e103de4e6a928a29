------------------------------- MODULE Umalloc ------------------------------
(***************************************************************************)
(* user/umalloc.c, the allocator of the user library: a ring of free       *)
(* blocks in the order of their addresses, and first fit from where the    *)
(* last search stopped.  Addresses and sizes count headers (16 bytes); a   *)
(* block starts with its header.  The program frees what malloc() gave it, *)
(* once, and may call sbrk() itself.                                       *)
(***************************************************************************)
EXTENDS Integers, FiniteSets

CONSTANTS Least,     \* morecore() asks for no less: 4096 in the code
          Heap, Limit, \* bounds: where the heap starts, and where memory ends
          Request,   \* bound: the sizes asked for, with the header
          MaxGaps    \* bound: calls of sbrk() by the program

base == 0            \* the static header; Heap > 1, so that nothing touches it

VARIABLES
  ptr,      \* the successor of each header in the ring
  size,     \* the size of each block, free or not
  freep,    \* where the search starts; -1 before the first call
  brk,      \* the end of the heap
  got,      \* the addresses morecore() has had from sbrk()
  gaps      \* how often the program has called sbrk()

vars == <<ptr, size, freep, brk, got, gaps>>

Free == DOMAIN ptr
Used == DOMAIN size \ Free
Without(f, S) == [a \in DOMAIN f \ S |-> f[a]]
With(f, a, x) == [b \in DOMAIN f \cup {a} |-> IF b = a THEN x ELSE f[b]]
-----------------------------------------------------------------------------
\* free(): where a block goes into ring r is the header before it, or the last
\* one where the ring wraps.  The loop starts at freep, but finds the same.
Place(r, b) ==
  CHOOSE p \in DOMAIN r : (b > p /\ b < r[p]) \/ (p >= r[p] /\ (b > p \/ b < r[p]))

\* Mutant of JoinNext: the block at the end of another is left apart.
JoinNextNot(h, b, p) ==
  [h EXCEPT !.ptr = With(@, b, h.ptr[p])]

\* The freed block b and what follows header p become one where they touch, ...
JoinNext(h, b, p) ==
  LET n == h.ptr[p] IN
    IF b + h.size[b] = n
    THEN [h EXCEPT !.ptr = With(Without(@, {n}), b, @[n]),
                   !.size = With(Without(@, {n}), b, h.size[b] + h.size[n])]
    ELSE [h EXCEPT !.ptr = With(@, b, n)]

\* ... and then p and the block.
JoinLast(h, b, p) ==
  IF p + h.size[p] = b
  THEN [h EXCEPT !.ptr = With(Without(@, {b}), p, h.ptr[b]),
                 !.size = With(Without(@, {b}), p, h.size[p] + h.size[b])]
  ELSE [h EXCEPT !.ptr = With(@, p, b)]

\* h is [ptr, size, freep].
Freed(h, b) == LET p == Place(h.ptr, b) IN [JoinLast(JoinNext(h, b, p), b, p) EXCEPT !.freep = p]

\* The first header after freep, around the ring to freep itself, that is large
\* enough.
Fits(h, n) == {a \in DOMAIN h.ptr : h.size[a] >= n}
Way(h, a)  == IF a > h.freep THEN a - h.freep ELSE a - h.freep + Limit + 1
First(h, n) == CHOOSE a \in Fits(h, n) : \A b \in Fits(h, n) : Way(h, a) <= Way(h, b)
Prev(h, a) == CHOOSE p \in DOMAIN h.ptr : h.ptr[p] = a

\* A block of n headers: a whole one, or the tail of a larger one.
Carve(h, n) ==
  LET p == First(h, n)  tail == p + h.size[p] - n IN
    IF h.size[p] = n
    THEN [h EXCEPT !.ptr = Without([@ EXCEPT ![Prev(h, p)] = h.ptr[p]], {p}), !.freep = Prev(h, p)]
    ELSE [h EXCEPT !.size = With([@ EXCEPT ![p] = @ - n], tail, n), !.freep = Prev(h, p)]

Now == [ptr |-> ptr, size |-> size, freep |-> freep]
\* The first call makes a ring of base.
Begun == IF freep = -1 THEN [ptr |-> [a \in {base} |-> base], size |-> [a \in {base} |-> 0], freep |-> base] ELSE Now

Becomes(h) == ptr' = h.ptr /\ size' = h.size /\ freep' = h.freep

Malloc(n) ==
  IF Fits(Begun, n) # {} THEN Becomes(Carve(Begun, n)) /\ UNCHANGED <<brk, got, gaps>>
  ELSE LET nu == IF n < Least THEN Least ELSE n IN       \* morecore(); sbrk() may fail
         IF brk + nu > Limit THEN Becomes(Begun) /\ UNCHANGED <<brk, got, gaps>>
         ELSE /\ Becomes(Carve(Freed([Begun EXCEPT !.size = With(@, brk, nu)], brk), n))
              /\ brk' = brk + nu
              /\ got' = got \cup brk .. brk + nu - 1
              /\ UNCHANGED gaps

Release(b) ==
  /\ b \in Used
  /\ Becomes(Freed(Now, b)) /\ UNCHANGED <<brk, got, gaps>>

\* The program takes memory for itself.
Sbrk ==
  /\ gaps < MaxGaps /\ brk < Limit
  /\ brk' = brk + 1 /\ gaps' = gaps + 1
  /\ UNCHANGED <<ptr, size, freep, got>>

Init ==
  /\ ptr = [a \in {} |-> 0] /\ size = [a \in {} |-> 0] /\ freep = -1
  /\ brk = Heap /\ got = {} /\ gaps = 0

Next == (\E n \in Request : Malloc(n)) \/ (\E b \in Used : Release(b)) \/ Sbrk
Spec == Init /\ [][Next]_vars
-----------------------------------------------------------------------------
Extent(a) == a .. a + size[a] - 1

\* What morecore() got lies in blocks, free or in use, that do not overlap; the
\* ring goes through all the free ones in the order of their addresses and back;
\* and no two free ones touch, so that what has been freed can be had again in
\* one piece.
HeapIsTiled ==
  /\ got = UNION {Extent(a) : a \in DOMAIN size}
  /\ \A a, b \in DOMAIN size : a # b => Extent(a) \cap Extent(b) = {}
  /\ \A a \in Free : ptr[a] \in Free /\ \A b \in Free : ~(a < b /\ b < ptr[a]) /\ (ptr[a] <= a => b <= a /\ ptr[a] <= b)
  /\ \A a \in Free \ {base} : a + size[a] \notin Free
  /\ freep # -1 => base \in Free /\ freep \in Free
=============================================================================
