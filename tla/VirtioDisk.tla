------------------------------ MODULE VirtioDisk ----------------------------
(***************************************************************************)
(* The disk driver of kernel/virtio_disk.c, the device it shares its       *)
(* descriptor table and rings with, and the completion interrupt.          *)
(*                                                                         *)
(* vdisk_lock is held across steps where the device can see what happens   *)
(* in between; a section that the device cannot observe is one step.  A    *)
(* request moves one block; a block's contents are the number of the       *)
(* request that last wrote it, and 0 when it is new.                       *)
(***************************************************************************)
EXTENDS BlockUsers, Integers, FiniteSets, FiniteSetsExt

CONSTANTS NUM,         \* descriptors, and entries in each ring
          IdxMod,      \* the indices count modulo this: 2^16 in the code
          StartIdx,    \* where they stand: requests answered before
          MaxRequests  \* bound: requests in a behaviour

ASSUME VirtioAssumption ==
  /\ NUM \in Nat /\ NUM >= 3 /\ IdxMod \in Nat /\ MaxRequests \in Nat
  /\ IdxMod > NUM /\ IdxMod % NUM = 0 /\ StartIdx \in 0 .. IdxMod - 1
  /\ None \notin Proc \cup Block /\ "intr" \notin Proc

Index == 0 .. NUM - 1

VARIABLES
  desc,       \* the descriptor table: what each descriptor points to, and next
  free,       \* disk.free[], as a set
  avail, availIdx,           \* the ring of the driver
  used, deviceIdx, usedIdx,  \* the ring of the device; disk.used->idx, disk.used_idx
  info,       \* disk.info[]: the buffer and the status of each chain
  busy,       \* the buffers with b->disk = 1; a buffer is named by its block
  seen, work, isr,           \* the device: entries taken, chains in hand, interrupt
  platter, bdata,             \* contents of the blocks and of their buffers
  stage, req,    \* where each caller of virtio_disk_rw() is, and its request
  lock,       \* the holder of vdisk_lock
  nreq

driver == <<desc, free, avail, availIdx, info>>
device == <<used, deviceIdx, seen, work, isr, platter>>
vars   == <<driver, device, usedIdx, busy, bdata, stage, req, lock, nreq>>

Succ(idx) == (idx + 1) % IdxMod

NoReq == [b |-> None, write |-> FALSE, head |-> 0]
Unused == [to |-> "none", next |-> 0, chained |-> FALSE]

\* The descriptors reached from head i, as free_chain() and the device walk them.
\* No chain is longer than three.
Linked(C) == C \cup {desc[i].next : i \in {k \in C : desc[k].chained}}
Chain(i) == Linked(Linked({i}))

Awake(W) == [q \in Proc |-> IF stage[q] \in DOMAIN W THEN W[stage[q]] ELSE stage[q]]
-----------------------------------------------------------------------------
(* virtio_disk_rw() *)

\* bread() or bwrite() calls with a buffer whose sleep lock it holds.
Call(p) ==
  /\ stage[p] = "idle" /\ nreq < MaxRequests
  /\ \E b \in Block \ {req[q].b : q \in Proc}, w \in BOOLEAN :
       /\ req' = [req EXCEPT ![p] = [b |-> b, write |-> w, head |-> 0]]
       /\ bdata' = [bdata EXCEPT ![b] = IF w THEN nreq + 1 ELSE 0]
  /\ nreq' = nreq + 1
  /\ stage' = [stage EXCEPT ![p] = "alloc"]
  /\ UNCHANGED <<driver, device, usedIdx, busy, lock>>

\* alloc3_desc(): the three lowest free descriptors.
Lowest(S) == Min(S)

\* Mutant of Alloc3: the last descriptor stays free.
Alloc3Two(p) ==
  LET i == Lowest(free)
      j == Lowest(free \ {i})
      k == Lowest(free \ {i, j}) IN
    /\ free' = free \ {i, j}
    /\ desc' = [desc EXCEPT
         ![i] = [to |-> "header", next |-> j, chained |-> TRUE],
         ![j] = [to |-> req[p].b, next |-> k, chained |-> TRUE],
         ![k] = [to |-> "status", next |-> 0, chained |-> FALSE]]
    /\ info' = [info EXCEPT ![i] = [b |-> req[p].b, status |-> 255, write |-> req[p].write]]
    /\ req' = [req EXCEPT ![p].head = i]

Alloc3(p) ==
  LET i == Lowest(free)
      j == Lowest(free \ {i})
      k == Lowest(free \ {i, j}) IN
    /\ free' = free \ {i, j, k}
    /\ desc' = [desc EXCEPT
         ![i] = [to |-> "header", next |-> j, chained |-> TRUE],
         ![j] = [to |-> req[p].b, next |-> k, chained |-> TRUE],
         ![k] = [to |-> "status", next |-> 0, chained |-> FALSE]]
    /\ info' = [info EXCEPT ![i] = [b |-> req[p].b, status |-> 255, write |-> req[p].write]]
    /\ req' = [req EXCEPT ![p].head = i]

Alloc(p) ==
  /\ stage[p] = "alloc" /\ lock = None
  /\ Cardinality(free) >= 3
  /\ Alloc3(p)
  /\ busy' = busy \cup {req[p].b}
  /\ lock' = p
  /\ stage' = [stage EXCEPT ![p] = "ring"]
  /\ UNCHANGED <<avail, availIdx, device, usedIdx, bdata, nreq>>

\* Not enough: what was taken is given back, and free_desc() wakes the others.
AllocFails(p) ==
  /\ stage[p] = "alloc" /\ lock = None
  /\ Cardinality(free) < 3
  /\ stage' = [(IF free = {} THEN stage ELSE Awake([nodesc |-> "alloc"])) EXCEPT ![p] = "nodesc"]
  /\ UNCHANGED <<driver, device, usedIdx, busy, bdata, req, lock, nreq>>

Ring(p) ==
  /\ stage[p] = "ring"
  /\ avail' = [avail EXCEPT ![availIdx % NUM] = req[p].head]
  /\ stage' = [stage EXCEPT ![p] = "publish"]
  /\ UNCHANGED <<desc, free, availIdx, info, device, usedIdx, busy, bdata, req, lock, nreq>>

Publish(p) ==
  /\ stage[p] = "publish"
  /\ availIdx' = Succ(availIdx)
  /\ stage' = [stage EXCEPT ![p] = "wait"]
  /\ UNCHANGED <<desc, free, avail, info, device, usedIdx, busy, bdata, req, lock, nreq>>

\* while(b->disk == 1) sleep(b, &disk.vdisk_lock)
Sleep(p) ==
  /\ stage[p] = "wait" /\ lock \in {None, p} /\ req[p].b \in busy
  /\ stage' = [stage EXCEPT ![p] = "asleep"]
  /\ lock' = None
  /\ UNCHANGED <<driver, device, usedIdx, busy, bdata, req, nreq>>

\* Mutant of Answered: "if" for "while": any wakeup is taken for the answer.
AnsweredOnWake(p) == lock = None \/ req[p].b \notin busy

Answered(p) == req[p].b \notin busy

\* free_chain(), and back to the caller.
Finish(p) ==
  /\ stage[p] = "wait" /\ lock \in {None, p} /\ Answered(p)
  /\ LET i == req[p].head
         C == Chain(i) IN
       /\ info' = [info EXCEPT ![i].b = None]
       /\ desc' = [d \in Index |-> IF d \in C THEN Unused ELSE desc[d]]
       /\ free' = free \cup C
  /\ stage' = [Awake([nodesc |-> "alloc"]) EXCEPT ![p] = "done"]
  /\ lock' = None
  /\ UNCHANGED <<avail, availIdx, device, usedIdx, busy, bdata, req, nreq>>

Return(p) ==
  /\ stage[p] = "done"
  /\ stage' = [stage EXCEPT ![p] = "idle"]
  /\ req' = [req EXCEPT ![p] = NoReq]
  /\ UNCHANGED <<driver, device, usedIdx, busy, bdata, lock, nreq>>

\* kill() makes a sleeper run; virtio_disk_rw() does not look at killed.
Kill(p) ==
  /\ stage[p] \in {"nodesc", "asleep"}
  /\ stage' = [stage EXCEPT ![p] = IF @ = "nodesc" THEN "alloc" ELSE "wait"]
  /\ UNCHANGED <<driver, device, usedIdx, busy, bdata, req, lock, nreq>>
-----------------------------------------------------------------------------
(* The device *)

DeviceTakes ==
  /\ seen # availIdx
  /\ work' = work \cup {avail[seen % NUM]}
  /\ seen' = Succ(seen)
  /\ UNCHANGED <<driver, used, deviceIdx, isr, platter, usedIdx, busy, bdata, stage, req, lock, nreq>>

\* In any order: move the block, store the status, use the ring, interrupt.
DeviceAnswers(h) ==
  /\ h \in work
  /\ LET b == desc[desc[h].next].to IN
       /\ b \in Block
       /\ IF info[h].write THEN platter' = [platter EXCEPT ![b] = bdata[b]] /\ UNCHANGED bdata
                           ELSE bdata' = [bdata EXCEPT ![b] = platter[b]] /\ UNCHANGED platter
  /\ info' = [info EXCEPT ![h].status = 0]
  /\ used' = [used EXCEPT ![deviceIdx % NUM] = h]
  /\ deviceIdx' = Succ(deviceIdx)
  /\ work' = work \ {h}
  /\ isr' = TRUE
  /\ UNCHANGED <<desc, free, avail, availIdx, seen, usedIdx, busy, stage, req, lock, nreq>>
-----------------------------------------------------------------------------
(* virtio_disk_intr() *)

IntrAck ==
  /\ isr /\ lock = None
  /\ lock' = "intr"
  /\ isr' = FALSE
  /\ UNCHANGED <<driver, used, deviceIdx, seen, work, platter, usedIdx, busy, bdata, stage, req, nreq>>

\* Mutant of IntrTake: one completion per interrupt.
IntrTakeOne ==
  /\ lock = "intr" /\ usedIdx # deviceIdx
  /\ LET b == info[used[usedIdx % NUM]].b IN
       /\ busy' = busy \ {b}
       /\ stage' = [q \in Proc |-> IF stage[q] = "asleep" /\ req[q].b = b THEN "wait" ELSE stage[q]]
  /\ usedIdx' = Succ(usedIdx)
  /\ lock' = None
  /\ UNCHANGED <<driver, device, bdata, req, nreq>>

IntrTake ==
  /\ lock = "intr" /\ usedIdx # deviceIdx
  /\ LET b == info[used[usedIdx % NUM]].b IN
       /\ busy' = busy \ {b}
       /\ stage' = [q \in Proc |-> IF stage[q] = "asleep" /\ req[q].b = b THEN "wait" ELSE stage[q]]
  /\ usedIdx' = Succ(usedIdx)
  /\ UNCHANGED <<driver, device, bdata, req, lock, nreq>>

IntrEnd ==
  /\ lock = "intr" /\ usedIdx = deviceIdx
  /\ lock' = None
  /\ UNCHANGED <<driver, device, usedIdx, busy, bdata, stage, req, nreq>>
-----------------------------------------------------------------------------
Init ==
  /\ desc = [i \in Index |-> Unused] /\ free = Index
  /\ avail = [i \in Index |-> 0] /\ availIdx = StartIdx
  /\ used = [i \in Index |-> 0] /\ deviceIdx = StartIdx /\ usedIdx = StartIdx
  /\ info = [i \in Index |-> [b |-> None, status |-> 0, write |-> FALSE]]
  /\ busy = {} /\ seen = StartIdx /\ work = {} /\ isr = FALSE
  /\ platter = [b \in Block |-> 0] /\ bdata = platter
  /\ stage = [p \in Proc |-> "idle"] /\ req = [p \in Proc |-> NoReq]
  /\ lock = None /\ nreq = 0

Rw(p) == \/ Alloc(p) \/ AllocFails(p) \/ Ring(p) \/ Publish(p)
         \/ Sleep(p) \/ Finish(p) \/ Return(p)

Device == DeviceTakes \/ \E h \in Index : DeviceAnswers(h)
Intr   == IntrAck \/ IntrTake \/ IntrEnd

Next == Device \/ Intr \/ \E p \in Proc : Call(p) \/ Rw(p) \/ Kill(p)

Spec == Init /\ [][Next]_vars

\* The scheduler runs who is runnable, the device works, interrupts are on.
Fairness == WF_vars(Device) /\ WF_vars(Intr) /\ \A p \in Proc : WF_vars(Rw(p))

FairSpec == Spec /\ Fairness
-----------------------------------------------------------------------------
Waiting == {p \in Proc : stage[p] \in {"ring", "publish", "wait", "asleep"}}

\* The ring entries between two indices, oldest first, that are not consumed.
Between(ring, from, to) == {ring[(from + n) % NUM] : n \in 0 .. ((to - from) % IdxMod) - 1}

TypeOK ==
  /\ free \in SUBSET Index /\ work \in SUBSET Index /\ busy \in SUBSET Block
  /\ avail \in [Index -> Index] /\ used \in [Index -> Index]
  /\ {availIdx, deviceIdx, usedIdx, seen} \subseteq 0 .. IdxMod - 1
  /\ info \in [Index -> [b : Block \cup {None}, status : {0, 255}, write : BOOLEAN]]
  /\ \A i \in Index : desc[i].to \in Block \cup {"none", "header", "status"} /\ desc[i].next \in Index
  /\ bdata \in [Block -> 0 .. MaxRequests] /\ platter \in [Block -> 0 .. MaxRequests]
  /\ isr \in BOOLEAN /\ lock \in Proc \cup {None, "intr"}
  /\ stage \in [Proc -> {"idle", "alloc", "nodesc", "ring", "publish", "wait", "asleep", "done"}]

\* The chains of the requests under way share no descriptor, and the rest are
\* free: free_desc() never panics and none leaks; the ring indices stay in range (TypeOK).
ChainsArePrivate ==
  /\ TypeOK
  /\ \A p, q \in Waiting : p # q => Chain(req[p].head) \cap Chain(req[q].head) = {}
  /\ free = Index \ UNION {Chain(req[p].head) : p \in Waiting}

\* What the interrupt handler will take from the used ring is a request that is
\* waiting, with its buffer and a good status: no panic, no null buffer.
CompletionsAreOurs ==
  \A h \in Between(used, usedIdx, deviceIdx) :
    /\ info[h].status = 0
    /\ \E p \in Waiting : req[p].head = h /\ info[h].b = req[p].b /\ req[p].b \in busy

\* When virtio_disk_rw() returns, the buffer and the disk agree on the block; and on
\* the way completions are matched with requests.
ReturnsTheBlock ==
  /\ CompletionsAreOurs
  /\ \A p \in Proc : stage[p] = "done" => bdata[req[p].b] = platter[req[p].b]

\* A caller of virtio_disk_rw() comes back, whatever completes in which order
\* and however completions share interrupts.
EveryCallReturns == \A p \in Proc : stage[p] # "idle" ~> stage[p] = "idle"
=============================================================================
