-------------------------------- MODULE Sched -------------------------------
(***************************************************************************)
(* Processes and the fixed-priority scheduler of                           *)
(* ROUND ROBIN-PROJECT/kernel/proc.c, at the grain of its spin locks.      *)
(*                                                                         *)
(* Each CPU executes either its scheduler() loop or the kernel path of the *)
(* process it switched to.  A step is one critical section: acquiring a    *)
(* lock that is kept, or a section that takes and releases a lock with     *)
(* nothing blocking inside.  A lock belongs to a CPU, so that swtch() can  *)
(* hand p->lock from a process to the scheduler and back.                  *)
(***************************************************************************)
EXTENDS Integers, FiniteSets

CONSTANTS NPROC, NCPU,
          RoundRobin,   \* which scheduler(): the round-robin loop, or by priority
          Priorities,   \* the levels setpriority() is asked for
          Calls         \* the system calls the user programs make

ASSUME SchedAssumption ==
  /\ NPROC \in Nat \ {0} /\ NCPU \in Nat \ {0}
  /\ RoundRobin \in BOOLEAN
  /\ Priorities \subseteq Int
  /\ Calls \subseteq {"fork", "wait", "exit", "kill", "setpriority"}

Proc == 1 .. NPROC
Cpu  == 1 .. NCPU
None == 0             \* no process, no CPU
initproc == 1

VARIABLES
  state, chan, killed, parent, priority,   \* the fields of struct proc
  pc, ret,              \* where p's kernel path stands; swtch() just resumed it
  i, tgt, kids,         \* its local variables: pp or p of a loop, np, havekids
  on,                   \* c->proc
  spc, scan, best,      \* where scheduler() stands, and its variables q and p
  late,                 \* history: who became runnable since the scan began
  plock, wait_lock, proc_lock   \* the CPU that holds the lock

fields == <<state, chan, killed, parent, priority>>
paths  == <<pc, ret, i, tgt, kids>>
loops  == <<on, spc, scan, best, late>>
locks  == <<plock, wait_lock, proc_lock>>
vars   == <<fields, paths, loops, locks>>

\* CPU c executes process p, past the release that follows swtch().
Runs(c, p) == on[c] = p /\ spc[c] = "away" /\ ~ret[p]
At(c, p, where) == Runs(c, p) /\ pc[p] = where
Goto(p, where) == pc' = [pc EXCEPT ![p] = where]

\* q becomes runnable, perhaps behind the back of a scan.
Rises(q) == late' = [c \in Cpu |-> IF spc[c] = "scan" THEN late[c] \cup {q} ELSE late[c]]
-----------------------------------------------------------------------------
(* scheduler() *)

\* Mutant of SchedLock: the scan is not serialised by proc_lock.
SchedNoLock(c) ==
  /\ spc[c] = "idle"
  /\ spc' = [spc EXCEPT ![c] = "scan"]
  /\ scan' = [scan EXCEPT ![c] = 1]
  /\ best' = [best EXCEPT ![c] = None]
  /\ UNCHANGED <<fields, paths, on, late, locks>>

SchedLock(c) ==
  /\ ~RoundRobin /\ spc[c] = "idle" /\ proc_lock = None
  /\ proc_lock' = c
  /\ spc' = [spc EXCEPT ![c] = "scan"]
  /\ scan' = [scan EXCEPT ![c] = 1]
  /\ best' = [best EXCEPT ![c] = None]
  /\ UNCHANGED <<fields, paths, on, late, plock, wait_lock>>

\* Mutant of Better: the comparison is the wrong way round.
BetterNot(q, p) == p = None \/ priority[q] > priority[p]

\* A runnable q replaces the candidate p.
Better(q, p) == p = None \/ priority[q] < priority[p]

SchedScan(c) ==
  LET q == scan[c] IN
    /\ ~RoundRobin /\ spc[c] = "scan" /\ q <= NPROC /\ plock[q] = None
    /\ best' = [best EXCEPT ![c] =
                  IF state[q] = "runnable" /\ Better(q, @) THEN q ELSE @]
    /\ scan' = [scan EXCEPT ![c] = @ + 1]
    /\ UNCHANGED <<fields, paths, on, spc, late, locks>>

\* Whatever best's state is by now, it runs; its lock is released by it.
SchedPick(c) ==
  LET p == best[c] IN
    /\ spc[c] = "scan" /\ scan[c] > NPROC /\ p # None /\ plock[p] = None
    /\ plock' = [plock EXCEPT ![p] = c]
    /\ state' = [state EXCEPT ![p] = "running"]
    /\ proc_lock' = None
    /\ on' = [on EXCEPT ![c] = p]
    /\ spc' = [spc EXCEPT ![c] = "away"]
    /\ late' = [late EXCEPT ![c] = {}]
    /\ UNCHANGED <<chan, killed, parent, priority, paths, scan, best, wait_lock>>

SchedNone(c) ==
  /\ spc[c] = "scan" /\ scan[c] > NPROC /\ best[c] = None
  /\ proc_lock' = None
  /\ spc' = [spc EXCEPT ![c] = "idle"]
  /\ late' = [late EXCEPT ![c] = {}]
  /\ UNCHANGED <<fields, paths, on, scan, best, plock, wait_lock>>

\* Mutant of NextInTable: the loop starts over after each process it ran.
NextInTableFirst(q) == 1

\* The round-robin loop, COW-PROJECT's and the disabled branch of this one:
\* scan[c] goes round the table and runs what it finds runnable.
NextInTable(q) == IF q = NPROC THEN 1 ELSE q + 1

RoundSkip(c) ==
  LET p == scan[c] IN
    /\ RoundRobin /\ spc[c] = "idle" /\ plock[p] = None /\ state[p] # "runnable"
    /\ scan' = [scan EXCEPT ![c] = NextInTable(@)]
    /\ UNCHANGED <<fields, paths, on, spc, best, late, locks>>

RoundRun(c) ==
  LET p == scan[c] IN
    /\ RoundRobin /\ spc[c] = "idle" /\ plock[p] = None /\ state[p] = "runnable"
    /\ plock' = [plock EXCEPT ![p] = c]
    /\ state' = [state EXCEPT ![p] = "running"]
    /\ on' = [on EXCEPT ![c] = p]
    /\ spc' = [spc EXCEPT ![c] = "away"]
    /\ scan' = [scan EXCEPT ![c] = NextInTable(@)]
    /\ UNCHANGED <<chan, killed, parent, priority, paths, best, late, wait_lock, proc_lock>>

\* swtch() came back: the scheduler releases the lock the process took.
SchedBack(c) ==
  /\ spc[c] = "back"
  /\ plock' = [plock EXCEPT ![on[c]] = None]
  /\ on' = [on EXCEPT ![c] = None]
  /\ spc' = [spc EXCEPT ![c] = "idle"]
  /\ UNCHANGED <<fields, paths, scan, best, late, wait_lock, proc_lock>>

\* sched(): p, whose lock its CPU holds, hands it to the scheduler.
ToScheduler(c) == spc' = [spc EXCEPT ![c] = "back"] /\ UNCHANGED <<on, scan, best>>
-----------------------------------------------------------------------------
(* yield(), forkret() and the end of sleep() *)

\* What follows swtch(): chan is cleared and p->lock, taken by the scheduler
\* (for a new process, too), is released.
Resume(c, p) ==
  /\ on[c] = p /\ spc[c] = "away" /\ ret[p]
  /\ plock' = [plock EXCEPT ![p] = None]
  /\ chan' = [chan EXCEPT ![p] = None]
  /\ ret' = [ret EXCEPT ![p] = FALSE]
  /\ UNCHANGED <<state, killed, parent, priority, pc, i, tgt, kids, loops,
                 wait_lock, proc_lock>>

\* A timer interrupt where interrupts are on: in user space, unless usertrap()
\* finds p killed, and in the kernel wherever it holds no lock.
Yield(c, p) ==
  /\ \/ At(c, p, "user") /\ ~killed[p]
     \/ \E where \in {"forkparent", "forkrun", "wait", "exit"} : At(c, p, where)
  /\ plock[p] = None
  /\ plock' = [plock EXCEPT ![p] = c]
  /\ state' = [state EXCEPT ![p] = "runnable"]
  /\ ret' = [ret EXCEPT ![p] = TRUE]
  /\ ToScheduler(c) /\ Rises(p)
  /\ UNCHANGED <<chan, killed, parent, priority, pc, i, tgt, kids, wait_lock, proc_lock>>

\* A system call starts only if usertrap() does not find p killed.
Enters(c, p, call) == call \in Calls /\ At(c, p, "user") /\ ~killed[p]
-----------------------------------------------------------------------------
(* fork() and freeproc() *)

\* allocproc(): an unused slot, returned with its lock held.  init.c forks its
\* shell only when it is left without children.
ForkAlloc(c, p, np) ==
  /\ Enters(c, p, "fork")
  /\ p = initproc => \A q \in Proc : parent[q] # p
  /\ state[np] = "unused" /\ plock[np] = None
  /\ plock' = [plock EXCEPT ![np] = c]
  /\ state' = [state EXCEPT ![np] = "used"]
  /\ priority' = [priority EXCEPT ![np] = 5]
  /\ pc' = [pc EXCEPT ![p] = "forkcopy", ![np] = "user"]
  /\ ret' = [ret EXCEPT ![np] = TRUE]
  /\ tgt' = [tgt EXCEPT ![p] = np]
  /\ UNCHANGED <<chan, killed, parent, i, kids, loops, wait_lock, proc_lock>>

Freeproc(np) ==
  /\ state' = [state EXCEPT ![np] = "unused"]
  /\ parent' = [parent EXCEPT ![np] = None]
  /\ chan' = [chan EXCEPT ![np] = None]
  /\ killed' = [killed EXCEPT ![np] = FALSE]
  /\ UNCHANGED priority

\* No memory for the trapframe, the page table or the copy.
ForkFails(c, p) ==
  LET np == tgt[p] IN
    /\ At(c, p, "forkcopy")
    /\ Freeproc(np)
    /\ plock' = [plock EXCEPT ![np] = None]
    /\ Goto(p, "user")
    /\ UNCHANGED <<ret, i, tgt, kids, loops, wait_lock, proc_lock>>

ForkCopy(c, p) ==
  LET np == tgt[p] IN
    /\ At(c, p, "forkcopy")
    /\ priority' = [priority EXCEPT ![np] = priority[p]]
    /\ plock' = [plock EXCEPT ![np] = None]
    /\ Goto(p, "forkparent")
    /\ UNCHANGED <<state, chan, killed, parent, ret, i, tgt, kids, loops,
                   wait_lock, proc_lock>>

ForkParent(c, p) ==
  /\ At(c, p, "forkparent") /\ wait_lock = None
  /\ parent' = [parent EXCEPT ![tgt[p]] = p]
  /\ Goto(p, "forkrun")
  /\ UNCHANGED <<state, chan, killed, priority, ret, i, tgt, kids, loops, locks>>

ForkRun(c, p) ==
  LET np == tgt[p] IN
    /\ At(c, p, "forkrun") /\ plock[np] = None
    /\ state' = [state EXCEPT ![np] = "runnable"]
    /\ Goto(p, "user")
    /\ Rises(np)
    /\ UNCHANGED <<chan, killed, parent, priority, ret, i, tgt, kids, on, spc, scan, best, locks>>
-----------------------------------------------------------------------------
(* wait() *)

WaitLock(c, p) ==
  /\ Enters(c, p, "wait") \/ At(c, p, "wait")
  /\ wait_lock = None
  /\ wait_lock' = c
  /\ i' = [i EXCEPT ![p] = 1]
  /\ kids' = [kids EXCEPT ![p] = FALSE]
  /\ Goto(p, "waitscan")
  /\ UNCHANGED <<fields, ret, tgt, loops, plock, proc_lock>>

\* Not a child, or a child that has not exited.
WaitNext(c, p) ==
  LET pp == i[p] IN
    /\ At(c, p, "waitscan") /\ pp <= NPROC
    /\ parent[pp] = p => plock[pp] = None /\ state[pp] # "zombie"
    /\ kids' = [kids EXCEPT ![p] = @ \/ parent[pp] = p]
    /\ i' = [i EXCEPT ![p] = @ + 1]
    /\ UNCHANGED <<fields, pc, ret, tgt, loops, locks>>

\* Mutant of FoundZombie: the child's lock is not acquired.
FoundZombieEarly(p, pp) == parent[pp] = p /\ state[pp] = "zombie"

FoundZombie(p, pp) == parent[pp] = p /\ plock[pp] = None /\ state[pp] = "zombie"

WaitReap(c, p) ==
  /\ At(c, p, "waitscan") /\ i[p] <= NPROC /\ FoundZombie(p, i[p])
  /\ Freeproc(i[p])
  /\ wait_lock' = None
  /\ Goto(p, "user")
  /\ UNCHANGED <<ret, i, tgt, kids, loops, plock, proc_lock>>

\* copyout() of the status failed: the child stays a zombie.  init asks for none.
WaitCopyFails(c, p) ==
  /\ p # initproc
  /\ At(c, p, "waitscan") /\ i[p] <= NPROC /\ FoundZombie(p, i[p])
  /\ wait_lock' = None
  /\ Goto(p, "user")
  /\ UNCHANGED <<fields, ret, i, tgt, kids, loops, plock, proc_lock>>

WaitReturns(c, p) ==
  /\ At(c, p, "waitscan") /\ i[p] > NPROC
  /\ kids[p] => plock[p] = None /\ killed[p]
  /\ wait_lock' = None
  /\ Goto(p, "user")
  /\ UNCHANGED <<fields, ret, i, tgt, kids, loops, plock, proc_lock>>

\* Mutant of WaitStays: wait_lock is released before sleep() takes p->lock.
WaitStaysUnlocked(c, p) ==
  /\ At(c, p, "waitscan") /\ i[p] > NPROC
  /\ kids[p] /\ plock[p] = None /\ ~killed[p]
  /\ wait_lock' = None
  /\ Goto(p, "waitsleep")
  /\ UNCHANGED <<fields, ret, i, tgt, kids, loops, plock, proc_lock>>

\* killed() is false; sleep() is still to take p->lock.
WaitStays(c, p) ==
  /\ At(c, p, "waitscan") /\ i[p] > NPROC
  /\ kids[p] /\ plock[p] = None /\ ~killed[p]
  /\ Goto(p, "waitsleep")
  /\ UNCHANGED <<fields, ret, i, tgt, kids, loops, locks>>

\* Mutant of WaitSleep: sleep() forgets to release wait_lock.
WaitSleepHolding(c, p) ==
  /\ At(c, p, "waitsleep") /\ plock[p] = None
  /\ plock' = [plock EXCEPT ![p] = c]
  /\ chan' = [chan EXCEPT ![p] = p]
  /\ state' = [state EXCEPT ![p] = "sleeping"]
  /\ ret' = [ret EXCEPT ![p] = TRUE]
  /\ Goto(p, "wait")
  /\ ToScheduler(c)
  /\ UNCHANGED <<killed, parent, priority, i, tgt, kids, late, wait_lock, proc_lock>>

\* sleep(p, &wait_lock): p->lock taken, wait_lock released, sched().
WaitSleep(c, p) ==
  /\ At(c, p, "waitsleep") /\ plock[p] = None
  /\ plock' = [plock EXCEPT ![p] = c]
  /\ wait_lock' = None
  /\ chan' = [chan EXCEPT ![p] = p]
  /\ state' = [state EXCEPT ![p] = "sleeping"]
  /\ ret' = [ret EXCEPT ![p] = TRUE]
  /\ Goto(p, "wait")
  /\ ToScheduler(c)
  /\ UNCHANGED <<killed, parent, priority, i, tgt, kids, late, proc_lock>>
-----------------------------------------------------------------------------
(* exit(), kill() and setpriority() *)

\* Mutant of Exit: p->lock is taken first, against the lock order.
ExitLocked(c, p) ==
  /\ p # initproc /\ plock[p] = None
  /\ Enters(c, p, "exit") \/ (At(c, p, "user") /\ killed[p])
  /\ plock' = [plock EXCEPT ![p] = c]
  /\ Goto(p, "exit")
  /\ UNCHANGED <<fields, ret, i, tgt, kids, loops, wait_lock, proc_lock>>

\* exit() by the program, or by usertrap() for a killed process.
Exit(c, p) ==
  /\ p # initproc
  /\ Enters(c, p, "exit") \/ (At(c, p, "user") /\ killed[p])
  /\ Goto(p, "exit")
  /\ UNCHANGED <<fields, ret, i, tgt, kids, loops, locks>>

\* Mutant of ExitLock: wakeup() passes over the first slot of the table.
ExitLockSkip(c, p) ==
  LET orphans == {pp \in Proc : parent[pp] = p} IN
    /\ At(c, p, "exit") /\ wait_lock = None
    /\ wait_lock' = c
    /\ parent' = [pp \in Proc |-> IF pp \in orphans THEN initproc ELSE parent[pp]]
    /\ i' = [i EXCEPT ![p] = 2]
    /\ Goto(p, IF orphans # {} THEN "wakeinit" ELSE "wakeparent")
    /\ UNCHANGED <<state, chan, killed, priority, ret, tgt, kids, loops, plock, proc_lock>>

\* wait_lock taken; reparent() gives the children to init.
ExitLock(c, p) ==
  LET orphans == {pp \in Proc : parent[pp] = p} IN
    /\ At(c, p, "exit") /\ wait_lock = None
    /\ wait_lock' = c
    /\ parent' = [pp \in Proc |-> IF pp \in orphans THEN initproc ELSE parent[pp]]
    /\ i' = [i EXCEPT ![p] = 1]
    /\ Goto(p, IF orphans # {} THEN "wakeinit" ELSE "wakeparent")
    /\ UNCHANGED <<state, chan, killed, priority, ret, tgt, kids, loops, plock, proc_lock>>

\* wakeup(initproc) and wakeup(p->parent), one process of the table per step.
Wakeup(c, p, where, target) ==
  LET q == i[p] IN
    /\ At(c, p, where) /\ q <= NPROC
    /\ q # p => plock[q] = None
    /\ IF q # p /\ state[q] = "sleeping" /\ chan[q] = target
       THEN state' = [state EXCEPT ![q] = "runnable"] /\ Rises(q)
       ELSE UNCHANGED <<state, late>>
    /\ i' = [i EXCEPT ![p] = @ + 1]
    /\ UNCHANGED <<chan, killed, parent, priority, pc, ret, tgt, kids, on, spc, scan, best, locks>>

WakeupDone(c, p) ==
  /\ i[p] > NPROC
  /\ \/ At(c, p, "wakeinit") /\ Goto(p, "wakeparent") /\ i' = [i EXCEPT ![p] = 1]
     \/ At(c, p, "wakeparent") /\ Goto(p, "zombie") /\ UNCHANGED i
  /\ UNCHANGED <<fields, ret, tgt, kids, loops, locks>>

\* p->lock taken, state set, wait_lock released, sched() for the last time.
ExitZombie(c, p) ==
  /\ At(c, p, "zombie") /\ plock[p] = None
  /\ plock' = [plock EXCEPT ![p] = c]
  /\ state' = [state EXCEPT ![p] = "zombie"]
  /\ wait_lock' = None
  /\ ToScheduler(c)
  /\ UNCHANGED <<chan, killed, parent, priority, paths, late, proc_lock>>

\* kill(): the process with that pid, if it has a slot; programs spare init.
Kill(c, p, q) ==
  /\ Enters(c, p, "kill") /\ q # initproc
  /\ state[q] # "unused" /\ plock[q] = None
  /\ killed' = [killed EXCEPT ![q] = TRUE]
  /\ IF state[q] = "sleeping"
     THEN state' = [state EXCEPT ![q] = "runnable"] /\ Rises(q)
     ELSE UNCHANGED <<state, late>>
  /\ UNCHANGED <<chan, parent, priority, paths, on, spc, scan, best, locks>>

SetPriority(c, p, n) ==
  /\ Enters(c, p, "setpriority") /\ plock[p] = None
  /\ n \in 1 .. 10
  /\ priority' = [priority EXCEPT ![p] = n]
  /\ UNCHANGED <<state, chan, killed, parent, paths, loops, locks>>
-----------------------------------------------------------------------------
\* After userinit(): init alone, about to run forkret().
Init ==
  /\ state = [p \in Proc |-> IF p = initproc THEN "runnable" ELSE "unused"]
  /\ chan = [p \in Proc |-> None] /\ killed = [p \in Proc |-> FALSE]
  /\ parent = [p \in Proc |-> None] /\ priority = [p \in Proc |-> 5]
  /\ pc = [p \in Proc |-> "user"] /\ ret = [p \in Proc |-> TRUE]
  /\ i = [p \in Proc |-> 1] /\ tgt = [p \in Proc |-> None]
  /\ kids = [p \in Proc |-> FALSE]
  /\ on = [c \in Cpu |-> None] /\ spc = [c \in Cpu |-> "idle"]
  /\ scan = [c \in Cpu |-> 1] /\ best = [c \in Cpu |-> None]
  /\ late = [c \in Cpu |-> {}]
  /\ plock = [p \in Proc |-> None] /\ wait_lock = None /\ proc_lock = None

Scheduler(c) ==
  \/ SchedLock(c) \/ SchedScan(c) \/ SchedPick(c) \/ SchedNone(c)
  \/ RoundSkip(c) \/ RoundRun(c)
  \/ SchedBack(c)

\* What the kernel does for p without the program's choice.
Kernel(c, p) ==
  \/ ForkFails(c, p) \/ ForkCopy(c, p) \/ ForkParent(c, p) \/ ForkRun(c, p)
  \/ WaitNext(c, p) \/ WaitReap(c, p) \/ WaitCopyFails(c, p)
  \/ WaitReturns(c, p) \/ WaitStays(c, p) \/ WaitSleep(c, p)
  \/ ExitLock(c, p) \/ WakeupDone(c, p) \/ ExitZombie(c, p)
  \/ Wakeup(c, p, "wakeinit", initproc) \/ Wakeup(c, p, "wakeparent", parent[p])

Process(c, p) ==
  \/ Resume(c, p) \/ Kernel(c, p) \/ Yield(c, p) \/ WaitLock(c, p) \/ Exit(c, p)
  \/ \E np \in Proc : ForkAlloc(c, p, np) \/ Kill(c, p, np)
  \/ \E n \in Priorities : SetPriority(c, p, n)

Next == \E c \in Cpu : Scheduler(c) \/ \E p \in Proc : Process(c, p)

Spec == Init /\ [][Next]_vars

\* A CPU keeps executing, and a kernel path gets on however often the timer
\* interrupts it.  (On one CPU no lock is contended, so nothing else is assumed.)
CpuFairness ==
  \A c \in Cpu : /\ WF_vars(Scheduler(c))
                 /\ \A p \in Proc : WF_vars(Resume(c, p)) /\ SF_vars(Kernel(c, p))

\* The timer interrupts every program sooner or later, whatever calls it makes.
TimerFairness == \A c \in Cpu, p \in Proc : SF_vars(Yield(c, p))

\* init.c loops in wait(): however often it is interrupted, it gets there.
InitFairness == \A c \in Cpu : SF_vars(WaitLock(c, initproc))

FairSpec == Spec /\ CpuFairness /\ TimerFairness /\ InitFairness
-----------------------------------------------------------------------------
FieldsOK ==
  /\ state \in [Proc -> {"unused", "used", "sleeping", "runnable", "running", "zombie"}]
  /\ chan \in [Proc -> Proc \cup {None}]
  /\ killed \in [Proc -> BOOLEAN]
  /\ parent \in [Proc -> Proc \cup {None}]
  /\ priority \in [Proc -> 1 .. 10]
PathsOK ==
  /\ pc \in [Proc -> {"user", "forkcopy", "forkparent", "forkrun", "wait", "waitscan",
                      "waitsleep", "exit", "wakeinit", "wakeparent", "zombie"}]
  /\ ret \in [Proc -> BOOLEAN]
  /\ i \in [Proc -> 1 .. NPROC + 1]
  /\ tgt \in [Proc -> Proc \cup {None}]
  /\ kids \in [Proc -> BOOLEAN]
LoopsOK ==
  /\ on \in [Cpu -> Proc \cup {None}]
  /\ spc \in [Cpu -> {"idle", "scan", "away", "back"}]
  /\ scan \in [Cpu -> 1 .. NPROC + 1]
  /\ best \in [Cpu -> Proc \cup {None}] /\ late \in [Cpu -> SUBSET Proc]
LocksOK ==
  /\ plock \in [Proc -> Cpu \cup {None}]
  /\ wait_lock \in Cpu \cup {None}
  /\ proc_lock \in Cpu \cup {None}

\* The tables, the kernel paths, the scheduler loops and the locks keep their
\* types; setpriority() keeps priorities within 1 to 10.
TypeOK == FieldsOK /\ PathsOK /\ LoopsOK /\ LocksOK

\* A process is never run by two CPUs: README.md "never schedule the same
\* process concurrently on two or more processors".
RunsOnce ==
  \A c, d \in Cpu : c # d /\ on[c] = on[d] => on[c] = None

\* Only live slots execute: a slot is not freed, nor reused, while a CPU is
\* still on its kernel stack (proc.c wait(), "make sure the child isn't still
\* in exit() or swtch()").
FreedIsOffCpu ==
  \A c \in Cpu : on[c] # None => state[on[c]] \notin {"unused", "used"}

\* sched()'s assertions: the process gives up the CPU holding its own lock,
\* no other, and no longer as "running".
HeldBy(c) == {p \in Proc : plock[p] = c}
SchedHoldsOnlyItsLock ==
  \A c \in Cpu : spc[c] = "back" =>
    /\ HeldBy(c) = {on[c]} /\ wait_lock # c /\ proc_lock # c
    /\ state[on[c]] # "running"

\* The lock whose acquire() CPU c executes next, as its holder; None if free
\* or if c acquires nothing.
HolderOfWanted(c) ==
  LET p == on[c] IN
  IF spc[c] = "idle" THEN IF RoundRobin THEN plock[scan[c]] ELSE proc_lock
  ELSE IF spc[c] = "scan" THEN IF scan[c] <= NPROC THEN plock[scan[c]]
                               ELSE IF best[c] # None THEN plock[best[c]] ELSE None
  ELSE IF spc[c] = "back" \/ ret[p] THEN None
  ELSE IF pc[p] \in {"forkparent", "wait", "exit"} THEN wait_lock
  ELSE IF pc[p] = "forkrun" THEN plock[tgt[p]]
  ELSE IF pc[p] = "waitscan" /\ i[p] <= NPROC /\ parent[i[p]] = p THEN plock[i[p]]
  ELSE IF pc[p] \in {"wakeinit", "wakeparent"} /\ i[p] <= NPROC /\ i[p] # p THEN plock[i[p]]
  ELSE IF pc[p] \in {"waitsleep", "zombie"} THEN plock[p]
  ELSE IF pc[p] = "waitscan" /\ i[p] > NPROC THEN plock[p]
  ELSE None

\* No CPUs spin on one another's locks, and none acquires a lock it holds: the
\* order wait_lock, then p->lock (proc.c "must be acquired before any p->lock"),
\* and proc_lock, then p->lock.
NoLockCycle ==
  ~ \E S \in (SUBSET Cpu) \ {{}} : \A c \in S : HolderOfWanted(c) \in S

\* A parent never sleeps in wait() on a child that has already exited: unless
\* an exiting process has yet to call wakeup() for it, under wait_lock.
WakeupIsComing(p) ==
  \E c \in Cpu, q \in Proc :
    /\ on[c] = q /\ wait_lock = c
    /\ \/ pc[q] = "wakeinit" /\ p = initproc /\ i[q] <= p
       \/ pc[q] = "wakeinit" /\ p = parent[q]
       \/ pc[q] = "wakeparent" /\ p = parent[q] /\ i[q] <= p
NoLostExit ==
  \A p, q \in Proc :
    /\ state[p] = "sleeping" /\ chan[p] = p
    /\ state[q] = "zombie" /\ parent[q] = p
    => WakeupIsComing(p)

\* An orphan that exits is reaped, since init() loops in wait().
OrphanIsReaped ==
  \A q \in Proc : (state[q] = "zombie" /\ parent[q] = initproc) ~> state[q] # "zombie"

\* Every runnable process gets a CPU under the round-robin loop, which goes on
\* from the slot behind the one it ran.
RunnableRuns == \A q \in Proc : state[q] = "runnable" ~> state[q] = "running"

Dispatch(c) == spc[c] = "scan" /\ spc'[c] = "away"

\* The process a CPU switches to has the highest priority of all the runnable
\* ones, but for those that became runnable while scheduler() was scanning
\* (proc.c:490-498).
DispatchesHighestSeen ==
  [][\A c \in Cpu : Dispatch(c) =>
       \A q \in Proc : state[q] = "runnable" /\ q \notin late[c]
                         => priority[on'[c]] <= priority[q]]_vars
=============================================================================
