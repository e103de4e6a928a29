---------------------------- MODULE PrivateMemory ---------------------------
(***************************************************************************)
(* What fork(), exec(), sbrk() and memory accesses promise a user program: *)
(* every process has a memory of its own, fork copies it, and nothing but  *)
(* the process's own stores and system calls changes it.  Copy-on-write    *)
(* must be invisible at this level.                                        *)
(***************************************************************************)
EXTENDS Integers

CONSTANTS Proc, VA, Data,
          Zero,     \* the contents of a page the kernel has just set up
          NoData    \* the contents of an address that is not mapped

VARIABLE mem      \* mem[p][va]: the contents of process p's page va

Unmapped == [va \in VA |-> NoData]

Init == mem = [p \in Proc |-> Unmapped]

\* A store by the program, or by copyout() on its behalf.
Write(p, va, d) ==
  /\ mem[p][va] # NoData
  /\ mem' = [mem EXCEPT ![p][va] = d]

\* growproc() adds zeroed pages lo..hi-1 at once and removes pages one by one.
Grow(p, lo, hi) ==
  /\ \A va \in VA : va >= lo => mem[p][va] = NoData
  /\ mem' = [mem EXCEPT ![p] =
               [va \in VA |-> IF va \in lo .. hi - 1 THEN Zero ELSE @[va]]]

Unmap(p, va) ==
  /\ mem[p][va] # NoData
  /\ mem' = [mem EXCEPT ![p][va] = NoData]

\* fork(): the child starts with the parent's memory, all of it at once.
Fork(p, c) ==
  /\ mem[c] = Unmapped
  /\ mem' = [mem EXCEPT ![c] = mem[p]]

\* exec(): a new image in one step, freshly loaded but for the stack page
\* at the top that holds the arguments, and the old image gone.
Exec(p, top, d) ==
  mem' = [mem EXCEPT ![p] = [va \in VA |-> IF va < top THEN Zero
                                           ELSE IF va = top THEN d ELSE NoData]]

Next ==
  \E p \in Proc :
    \/ \E va \in VA : \/ \E d \in Data : Write(p, va, d) \/ Exec(p, va, d)
                      \/ \E lo \in VA : Grow(p, lo, va + 1)
                      \/ Unmap(p, va)
    \/ \E c \in Proc : Fork(p, c)

Spec == Init /\ [][Next]_mem
=============================================================================
