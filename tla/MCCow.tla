-------------------------------- MODULE MCCow -------------------------------
(* Small instances of Cow for TLC.                                         *)
EXTENDS Cow

CONSTANTS init, a, b, One

DataPage == [w |-> TRUE,  u |-> TRUE]
Guard    == [w |-> TRUE,  u |-> FALSE]

OnePage   == <<DataPage>>
GuardData == <<Guard, DataPage>>

\* Pages differ only in what refers to them and what they hold, so a state is
\* known by that: allocated pages are named by the places that refer to them,
\* free ones are only counted, and of the pages kalloc may return it is enough
\* to follow the lowest.
Places(g) == {x \in Table \X Where : pa[x[1]][x[2]] = g} \cup {p \in Proc : th[p].pg = g}
             \cup {NoProc : k \in kern \cap {g}}
Shape == <<{<<Places(g), ref[g], data[g]>> : g \in Page \ free},
           Cardinality(free), \E g \in free : ref[g] > 0 \/ Places(g) # {},
           [p \in Proc |-> [th[p] EXCEPT !.pg = NoPage]],
           eager, perm, active, sz, status, parent,
           vars = vars>>   \* has TLC evaluate the functions of a state before it queues it
LowestFree == \A g \in free \ free' : \A h \in free : g <= h

\* With a third of the pages in the kernel two processes make every call, and run
\* out of memory everywhere; with none of them there, a third shares a page with
\* them and stores what tells the copies apart, and memory never runs out.  The
\* kernel that copies at once needs two processes only.
OneScene ==
  /\ LowestFree
  /\ eager => status'[b] = "unused"
  /\ IF kern' # {}
     THEN status'[b] = "unused" /\ \A g \in Page : data'[g] # One
     ELSE \A p \in Proc : /\ th'[p].k \notin {"sbrk", "exec"}
                          /\ th'[p].at = "copyout" => th'[p].i = 0
SceneSpec == Init /\ [][Next /\ OneScene]_vars
=============================================================================
