---------------------------- MODULE ConsoleProofs ---------------------------
(***************************************************************************)
(* At the console no handler waits for what it interrupted, output leaves  *)
(* once and in order, nobody sleeps without a reason, and readers get the  *)
(* lines as they were edited: for any CPUs, processes, buffer sizes and    *)
(* widths of the indices that the sizes divide.                            *)
(***************************************************************************)
EXTENDS Console, SequenceTheorems, TLAPS
-----------------------------------------------------------------------------
(* Counters that wrap *)

\* The remainder is unique.
LEMMA ModIs ==
  ASSUME NEW a \in Int, NEW m \in Nat \ {0}, NEW q \in Int, NEW b \in 0 .. m - 1, a = q * m + b
  PROVE  a % m = b
  <1> DEFINE d == q - (a \div m)
             k == a % m
  <1>1. a = m * (a \div m) + k /\ k \in 0 .. m - 1 /\ a \div m \in Int
    OBVIOUS
  <1>2. d \in Int /\ m * d = k - b
    <2>1. m * d = m * q - m * (a \div m) /\ q * m = m * q /\ d \in Int
      BY <1>1
    <2> QED
      BY <1>1, <2>1
  <1> HIDE DEF d, k
  <1>3. CASE d >= 1
    <2>1. m * d >= m
      BY <1>2, <1>3
    <2> QED
      BY <1>1, <1>2, <2>1
  <1>4. CASE d <= -1
    <2>1. m * d <= -m
      BY <1>2, <1>4
    <2> QED
      BY <1>1, <1>2, <2>1
  <1>5. CASE d = 0
    <2>1. m * d = 0
      BY <1>5
    <2>2. k = b
      BY <1>1, <1>2, <2>1
    <2> QED
      BY <2>2 DEF k
  <1> QED
    BY <1>2, <1>3, <1>4, <1>5

\* A multiple of m more or less does not matter modulo m.
LEMMA ModShift ==
  ASSUME NEW a \in Int, NEW u \in Nat, NEW m \in Nat \ {0}, u % m = 0
  PROVE  (a - u) % m = a % m
  <1> DEFINE q == a \div m
             c == u \div m
             b == a % m
  <1>1. q \in Int /\ c \in Int /\ b \in 0 .. m - 1 /\ a = m * q + b /\ u = m * c
    OBVIOUS
  <1>2. a - u = (q - c) * m + b
    <2> HIDE DEF q, c, b
    <2> QED BY <1>1
  <1>3. (a - u) % m = b
    <2> DEFINE x == a - u
               y == q - c
    <2>1. x \in Int /\ y \in Int /\ b \in 0 .. m - 1 /\ x = y * m + b
      BY <1>1, <1>2
    <2> HIDE DEF q, c, b, x, y
    <2>2. x % m = b
      BY <2>1, ModIs
    <2> QED
      BY <2>2 DEF x
  <1> QED
    BY <1>3

\* Fewer than m consecutive numbers differ modulo m.
LEMMA ModApart ==
  ASSUME NEW m \in Nat \ {0}, NEW a \in Int, NEW b \in Int, a < b, b < a + m
  PROVE  a % m # b % m
  <1> SUFFICES ASSUME a % m = b % m PROVE FALSE
    OBVIOUS
  <1> DEFINE d == (b \div m) - (a \div m)
  <1>1. d \in Int /\ b - a = m * d
    <2>1. a = m * (a \div m) + (a % m) /\ b = m * (b \div m) + (b % m) /\ a \div m \in Int /\ b \div m \in Int
      OBVIOUS
    <2> QED
      BY <2>1
  <1> HIDE DEF d
  <1>2. CASE d <= 0
    <2>1. m * d <= 0
      BY <1>1, <1>2
    <2> QED
      BY <1>1, <2>1
  <1>3. CASE d >= 1
    <2>1. m * d >= m
      BY <1>1, <1>3
    <2> QED
      BY <1>1, <2>1
  <1> QED
    BY <1>1, <1>2, <1>3

\* What an index has counted to after a step, and how far apart two of them are.
LEMMA Counting ==
  ASSUME NEW u \in Nat \ {0}, NEW a \in 0 .. u - 1, NEW b \in 0 .. u - 1
  PROVE  /\ (a + 1) % u = IF a + 1 = u THEN 0 ELSE a + 1
         /\ (a - 1) % u = IF a = 0 THEN u - 1 ELSE a - 1
         /\ (b - a) % u = IF a <= b THEN b - a ELSE b - a + u
  <1>1. (a + 1) % u = IF a + 1 = u THEN 0 ELSE a + 1
    OBVIOUS
  <1>2. (b - a) % u = IF a <= b THEN b - a ELSE b - a + u
    OBVIOUS
  <1>3. (a - 1) % u = IF a = 0 THEN u - 1 ELSE a - 1
    OBVIOUS
  <1> QED
    BY <1>1, <1>2, <1>3

\* The first of two indices comes nearer to the other.
LEMMA Nearer ==
  ASSUME NEW u \in Nat \ {0}, NEW a \in 0 .. u - 1, NEW b \in 0 .. u - 1, a # b
  PROVE  (b - ((a + 1) % u)) % u = ((b - a) % u) - 1
  <1> DEFINE x == (a + 1) % u
  <1>1. /\ (b - a) % u = IF a <= b THEN b - a ELSE b - a + u
        /\ x = IF a + 1 = u THEN 0 ELSE a + 1
    BY Counting
  <1>2. x \in 0 .. u - 1
    BY <1>1
  <1>3. (b - x) % u = IF x <= b THEN b - x ELSE b - x + u
    BY <1>2, Counting
  <1> QED
    BY <1>1, <1>3

\* How far apart two indices are.
LEMMA Distance ==
  ASSUME NEW u \in Nat \ {0}, NEW a \in 0 .. u - 1, NEW b \in 0 .. u - 1
  PROVE  /\ (b - a) % u \in 0 .. u - 1
         /\ (b - a) % u = 0 <=> a = b
         /\ b = a + ((b - a) % u) \/ b = a + ((b - a) % u) - u
  BY Counting

\* The second of two indices goes on by one.
LEMMA GoesOnByOne ==
  ASSUME NEW u \in Nat \ {0}, NEW a \in 0 .. u - 1, NEW b \in 0 .. u - 1, ((b - a) % u) + 1 < u
  PROVE  (((b + 1) % u) - a) % u = ((b - a) % u) + 1
  <1> DEFINE x == (b + 1) % u
  <1>1. /\ (b - a) % u = IF a <= b THEN b - a ELSE b - a + u
        /\ x = IF b + 1 = u THEN 0 ELSE b + 1
    BY Counting
  <1>2. x \in 0 .. u - 1
    BY <1>1
  <1>3. (x - a) % u = IF a <= x THEN x - a ELSE x - a + u
    BY <1>2, Counting
  <1> QED
    BY <1>1, <1>3

\* The second of two indices is taken back by one.
LEMMA TakenBack ==
  ASSUME NEW u \in Nat \ {0}, NEW a \in 0 .. u - 1, NEW b \in 0 .. u - 1, a # b
  PROVE  (((b - 1) % u) - a) % u = ((b - a) % u) - 1
  <1> DEFINE x == (b - 1) % u
  <1>1. /\ (b - a) % u = IF a <= b THEN b - a ELSE b - a + u
        /\ x = IF b = 0 THEN u - 1 ELSE b - 1
    BY Counting
  <1>2. x \in 0 .. u - 1
    BY <1>1
  <1>3. (x - a) % u = IF a <= x THEN x - a ELSE x - a + u
    BY <1>2, Counting
  <1> QED
    BY <1>1, <1>3

\* Distances add up, as long as they do not wrap.
LEMMA Sum ==
  ASSUME NEW u \in Nat \ {0}, NEW a \in 0 .. u - 1, NEW b \in 0 .. u - 1, NEW c \in 0 .. u - 1, 
         ((b - a) % u) + ((c - b) % u) < u
  PROVE  (c - a) % u = ((b - a) % u) + ((c - b) % u)
  BY Counting
-----------------------------------------------------------------------------
(* The invariant *)

InCons == {"read", "key", "echo", "echothr", "erase", "erasethr", "store"}
InTx   == {"put", "start", "thr"}
Places(l) == IF l = "cons" THEN InCons ELSE InTx
Sync   == {"echothr", "erasethr"}
Away   == {"user", "dead", "rsleep", "wsleep", "rwoken", "wwoken"}
ReaderPlaces  == {"user", "dead", "rsleep", "rwoken", "consspin", "read"}
WriterPlaces  == {"user", "dead", "write", "txspin", "put", "wsleep", "wwoken", "start", "thr"}
HandlerPlaces == {"idle", "get", "consspin", "key", "echo", "echothr", "erase", "erasethr", "store",
                  "txspin", "start", "thr", "complete"}

\* How many push_off() a thread has not undone.
Depth(t) == IF pc[t] \in Sync THEN 2
            ELSE IF pc[t] \in {"consspin", "txspin"} \cup InCons \cup InTx THEN 1 ELSE 0

\* Where the threads are.
Sited ==
  /\ DOMAIN pc = Thread
  /\ \A p \in Reader : pc[p] \in ReaderPlaces
  /\ \A p \in Writer : pc[p] \in WriterPlaces
  /\ \A c \in Cpu : pc[c] \in HandlerPlaces

States == [intr : BOOLEAN, noff : Int, intena : BOOLEAN]
Stages == [kernel : {"cow", "rr"}, hits : SUBSET STRING, keys : Nat, writes : Nat, kills : Nat,
           cpus : SUBSET Cpu, procs : SUBSET (Reader \cup Writer)]
Kept ==
  /\ cpu \in [Cpu -> States] /\ lock \in [{"cons", "tx"} -> Cpu \cup {None}]
  /\ DOMAIN reg = Thread /\ n \in [Proc -> Int] /\ left \in Stages

\* Who is on which CPU: one process at most, and the handler only above one in
\* consolewrite() with interrupts on.
Placed ==
  /\ at \in [Proc -> Cpu \cup {None}]
  /\ \A p \in Proc : at[p] = None <=> pc[p] \in Away
  /\ \A p, q \in Proc : at[p] = at[q] /\ p # q => at[p] = None
  /\ \A p \in Proc : at[p] # None /\ pc[at[p]] # "idle" => pc[p] = "write"

\* A CPU counts the push_off() of the thread that runs on it, and brings back what
\* that thread found.
Counted ==
  /\ \A t \in Thread : Runs(t) => cpu[CpuOf(t)].noff = Depth(t)
  /\ \A c \in Cpu : (\A t \in Thread : Runs(t) => CpuOf(t) # c) => cpu[c].noff = 0
  /\ \A c \in Cpu : cpu[c].intr <=> pc[c] = "idle" /\ cpu[c].noff = 0
  /\ \A c \in Cpu : cpu[c].noff > 0 => (cpu[c].intena <=> pc[c] = "idle")

\* A lock is held for the CPU of the one thread at work under it.
Locked ==
  /\ \A l \in {"cons", "tx"} : \A t \in Thread : pc[t] \in Places(l) => lock[l] = CpuOf(t)
  /\ \A l \in {"cons", "tx"} : lock[l] # None => \E t \in Thread : pc[t] \in Places(l)

\* The device has room for what the one in uartstart() and the one who echoes are
\* about to write: they run on two CPUs, and each saw it idle.
Coming  == IF \E t \in Thread : pc[t] = "thr" THEN 1 ELSE 0
Echoing == IF \E c \in Cpu : pc[c] \in Sync THEN 1 ELSE 0
Fitting ==
  /\ fifo \in Seq(Nat) /\ Len(fifo) + Coming + Echoing <= FifoSize
  /\ (\E t \in Thread : pc[t] = "thr") => \A k \in DOMAIN fifo : fifo[k] = 0
  /\ \A j, k \in DOMAIN fifo : fifo[j] # 0 /\ fifo[k] # 0 => j = k

\* The bytes have been numbered as they were put.
TxHeld  == (txw - txr) % UintMod
Pending == (\E k \in DOMAIN fifo : fifo[k] # 0) \/ (\E t \in Thread : pc[t] = "thr")
Gone    == IF Pending THEN Len(sent) + 1 ELSE Len(sent)
Numbered ==
  /\ txw \in 0 .. UintMod - 1 /\ txr \in 0 .. UintMod - 1 /\ TxHeld <= UART_TX_BUF_SIZE
  /\ txbuf \in [0 .. UART_TX_BUF_SIZE - 1 -> Nat] /\ written \in Nat
  /\ sent \in Seq(Nat) /\ \A k \in 1 .. Len(sent) : sent[k] = k
  /\ \A k \in DOMAIN fifo : fifo[k] # 0 => fifo[k] = Len(sent) + 1
  /\ \A t \in Thread : pc[t] = "thr" => reg[t] = Len(sent) + 1
  /\ \A k \in 0 .. TxHeld - 1 : txbuf[(txr + k) % UART_TX_BUF_SIZE] = Gone + k + 1
  /\ written = Gone + TxHeld

\* Whoever sleeps on the full ring can rely on one who is on his way to empty it.
Emptying == \/ \E t \in Thread : pc[t] \in {"start", "thr"}
            \/ ~Idle \/ irq
            \/ \E c \in Cpu : pc[c] \notin {"idle", "complete"}
Relied ==
  /\ irq \in BOOLEAN
  /\ ~TxEmpty => Emptying
  /\ (\E p \in Reader : pc[p] = "rsleep") => r = w
  /\ (\E p \in Writer : pc[p] = "wsleep") => TxFull

\* The edited line follows the finished ones, and there is room for the character
\* that is being echoed.
Editing ==
  /\ r \in 0 .. UintMod - 1 /\ w \in 0 .. UintMod - 1 /\ e \in 0 .. UintMod - 1
  /\ ((e - w) % UintMod) + ((w - r) % UintMod) <= INPUT_BUF_SIZE
  /\ (\E c \in Cpu : pc[c] \in {"echo", "echothr", "store"}) => Room

IInv == Sited /\ Kept /\ Placed /\ Counted /\ Locked /\ Fitting /\ Numbered /\ Relied /\ Editing
-----------------------------------------------------------------------------
\* Readers, writers and CPUs are apart from each other, and none of them is None.
LEMMA Apart ==
  /\ \A p \in Proc : p \in Thread /\ p \notin Cpu
  /\ \A c \in Cpu : c \in Thread /\ c \notin Proc
  /\ \A p \in Reader : p \in Proc /\ p \notin Writer
  /\ \A p \in Writer : p \in Proc /\ p \notin Reader
  /\ \A t \in Thread : t \in Reader \/ t \in Writer \/ t \in Cpu
  /\ None \notin Cpu /\ None # "cons" /\ None # "tx"
  BY ConsoleAssumption DEF ConsoleAssumption, Proc, Thread

\* What Goto() does.
LEMMA Goes ==
  ASSUME Sited, NEW t \in Thread, NEW x, Goto(t, x)
  PROVE  pc'[t] = x /\ DOMAIN pc' = Thread /\ \A u \in Thread : u # t => pc'[u] = pc[u]
  BY DEF Goto, Sited

\* What wakeup() does for the others, when the one who calls it moves on.
LEMMA Wakes ==
  ASSUME Sited, NEW place \in {"rsleep", "wsleep"}, NEW t \in Thread, NEW x, pc' = [Woken(place) EXCEPT ![t] = x]
  PROVE  /\ pc'[t] = x /\ DOMAIN pc' = Thread
         /\ \A u \in Thread : u # t => pc'[u] = IF pc[u] # place THEN pc[u]
                                                ELSE IF place = "rsleep" THEN "rwoken" ELSE "wwoken"
  BY DEF Woken, Sited

\* Sleepers are readers or writers.
LEMMA Sleepers ==
  ASSUME Sited
  PROVE  /\ \A t \in Thread : pc[t] = "rsleep" => t \in Reader
         /\ \A t \in Thread : pc[t] = "wsleep" => t \in Writer
         /\ \A t \in Thread : pc[t] \in {"rsleep", "wsleep", "rwoken", "wwoken", "user", "dead", "write", "read", "put"} => t \in Proc
         /\ \A t \in Thread : pc[t] \in InCons /\ t \in Proc => pc[t] = "read"
         /\ \A t \in Thread : pc[t] \in Sync => t \in Cpu
  BY Apart DEF Sited, ReaderPlaces, WriterPlaces, HandlerPlaces, InCons, Sync

\* A thread that runs has a CPU, and it is the only one on it.
LEMMA Running ==
  ASSUME Placed
  PROVE  /\ \A t \in Thread : Runs(t) => CpuOf(t) \in Cpu
         /\ \A t, u \in Thread : Runs(t) /\ Runs(u) /\ CpuOf(t) = CpuOf(u) => t = u
         /\ \A c \in Cpu : CpuOf(c) = c
         /\ \A p \in Proc : CpuOf(p) = at[p]
  <1>1. \A c \in Cpu : CpuOf(c) = c /\ (Runs(c) <=> pc[c] # "idle")
    BY DEF CpuOf, Runs
  <1>2. \A p \in Proc : CpuOf(p) = at[p] /\ (Runs(p) <=> at[p] # None /\ pc[at[p]] = "idle")
    BY Apart DEF CpuOf, Runs
  <1>3. \A t \in Thread : t \in Proc \/ t \in Cpu
    BY DEF Thread
  <1>4. \A t \in Thread : Runs(t) => CpuOf(t) \in Cpu
    BY <1>1, <1>2, <1>3 DEF Placed
  <1>5. \A t, u \in Thread : Runs(t) /\ Runs(u) /\ CpuOf(t) = CpuOf(u) => t = u
    BY <1>1, <1>2, <1>3 DEF Placed
  <1> QED
    BY <1>1, <1>2, <1>4, <1>5

\* What push_off() and pop_off() make of a CPU.
LEMMA Pushing ==
  ASSUME NEW k \in States
  PROVE  /\ PushedOff(k) \in States /\ PoppedOff(k) \in States /\ AfterWakeup(k) \in States
         /\ PushedOff(k).noff = k.noff + 1 /\ ~PushedOff(k).intr
         /\ k.noff = 0 => (PushedOff(k).intena <=> k.intr)
         /\ k.noff # 0 => (PushedOff(k).intena <=> k.intena)
         /\ PoppedOff(k).noff = k.noff - 1 /\ (PoppedOff(k).intena <=> k.intena)
         /\ (PoppedOff(k).intr <=> (k.noff = 1 /\ k.intena))
         /\ k.noff = 1 => /\ AfterWakeup(k).noff = 1 /\ ~AfterWakeup(k).intr
                           /\ (AfterWakeup(k).intena <=> k.intena)
         /\ \A b \in BOOLEAN : /\ [k EXCEPT !.intr = b] \in States
                                 /\ [k EXCEPT !.intr = b].noff = k.noff
                                 /\ ([k EXCEPT !.intr = b].intena <=> k.intena)
                                 /\ ([k EXCEPT !.intr = b].intr <=> b)
  <1>1. /\ PushedOff(k) \in States /\ PushedOff(k).noff = k.noff + 1 /\ ~PushedOff(k).intr
        /\ k.noff = 0 => (PushedOff(k).intena <=> k.intr)
        /\ k.noff # 0 => (PushedOff(k).intena <=> k.intena)
    BY DEF PushedOff, States
  <1>2. ASSUME NEW j \in States
        PROVE  /\ PoppedOff(j) \in States /\ PoppedOff(j).noff = j.noff - 1
               /\ (PoppedOff(j).intena <=> j.intena)
               /\ (PoppedOff(j).intr <=> (j.noff = 1 /\ j.intena))
    <2>1. j.noff \in Int /\ j.intena \in BOOLEAN
      BY DEF States
    <2>2. PICK b \in BOOLEAN : b <=> (j.noff = 1 /\ j.intena)
      OBVIOUS
    <2>3. PICK x \in Int : x = j.noff - 1
      BY <2>1
    <2>4. PoppedOff(j) = [j EXCEPT !.noff = x, !.intr = b]
      <3>1. (j.noff = 1 /\ j.intena) = b
        BY <2>1, <2>2
      <3> QED
        BY <2>3, <3>1 DEF PoppedOff
    <2>5. /\ [j EXCEPT !.noff = x, !.intr = b] \in States
          /\ [j EXCEPT !.noff = x, !.intr = b].noff = x
          /\ [j EXCEPT !.noff = x, !.intr = b].intr = b
          /\ [j EXCEPT !.noff = x, !.intr = b].intena = j.intena
      BY DEF States
    <2> QED
      BY <2>2, <2>3, <2>4, <2>5
  <1>3. AfterWakeup(k) \in States
    BY <1>1, <1>2 DEF AfterWakeup
  <1>4. k.noff = 1 => /\ AfterWakeup(k).noff = 1 /\ ~AfterWakeup(k).intr
                      /\ (AfterWakeup(k).intena <=> k.intena)
    <2>1. k.noff \in Int /\ PushedOff(k).noff \in Int
      BY <1>1 DEF States
    <2> QED
      BY <1>1, <1>2, <2>1 DEF AfterWakeup
  <1>5. \A b \in BOOLEAN : /\ [k EXCEPT !.intr = b] \in States
                            /\ [k EXCEPT !.intr = b].noff = k.noff
                            /\ ([k EXCEPT !.intr = b].intena <=> k.intena)
                            /\ ([k EXCEPT !.intr = b].intr <=> b)
    BY DEF States
  <1> QED
    BY <1>1, <1>2, <1>3, <1>4, <1>5
\* Readers, writers and handlers keep to their places.
LEMMA SitedStep ==
  ASSUME Sited, [Next]_vars
  PROVE  Sited'
  <1>1. ASSUME NEW t \in Thread, Acquire(t)
        PROVE  Sited'
    BY <1>1, Apart, Goes DEF Acquire, Spinning, Sited, ReaderPlaces, WriterPlaces,
       HandlerPlaces
  <1>2. ASSUME NEW t \in Thread, StartNext(t)
        PROVE  Sited'
    BY <1>2, Apart, Wakes DEF StartNext, Sited, ReaderPlaces, WriterPlaces, HandlerPlaces
  <1>3. ASSUME NEW t \in Thread, StartWrites(t)
        PROVE  Sited'
    BY <1>3, Apart, Goes DEF StartWrites, Sited, ReaderPlaces, WriterPlaces, HandlerPlaces
  <1>4. ASSUME NEW t \in Thread, StartEnds(t)
        PROVE  Sited'
    BY <1>4, Apart, Goes DEF StartEnds, Sited, ReaderPlaces, WriterPlaces, HandlerPlaces
  <1>5. ASSUME NEW p \in Proc, Dispatch(p)
        PROVE  Sited'
    BY <1>5, Apart, Goes DEF Dispatch, Sited, ReaderPlaces, WriterPlaces, HandlerPlaces
  <1>6. ASSUME NEW p \in Writer, PutCall(p)
        PROVE  Sited'
    BY <1>6, Apart, Goes DEF PutCall, Sited, ReaderPlaces, WriterPlaces, HandlerPlaces
  <1>7. ASSUME NEW p \in Writer, PutSleeps(p)
        PROVE  Sited'
    BY <1>7, Apart, Goes DEF PutSleeps, Sleep, Sited, ReaderPlaces, WriterPlaces,
       HandlerPlaces
  <1>8. ASSUME NEW p \in Writer, Put(p)
        PROVE  Sited'
    BY <1>8, Apart, Goes DEF Put, Sited, ReaderPlaces, WriterPlaces, HandlerPlaces
  <1>9. ASSUME NEW p \in Writer, WriteReturns(p)
        PROVE  Sited'
    BY <1>9, Apart, Goes DEF WriteReturns, Back, Sited, ReaderPlaces, WriterPlaces,
       HandlerPlaces
  <1>10. ASSUME NEW p \in Reader, ReadSleeps(p)
        PROVE  Sited'
    BY <1>10, Apart, Goes DEF ReadSleeps, Sleep, Sited, ReaderPlaces, WriterPlaces,
       HandlerPlaces
  <1>11. ASSUME NEW p \in Reader, ReadStops(p)
        PROVE  Sited'
    BY <1>11, Apart, Goes DEF ReadStops, ReadLeaves, Back, Sited, ReaderPlaces, WriterPlaces,
       HandlerPlaces
  <1>12. ASSUME NEW p \in Reader, ReadEnd(p)
        PROVE  Sited'
    BY <1>12, Apart, Goes DEF ReadEnd, ReadLeaves, Reads, Back, Sited, ReaderPlaces,
       WriterPlaces, HandlerPlaces
  <1>13. ASSUME NEW p \in Reader, ReadChar(p)
        PROVE  Sited'
    BY <1>13, Apart DEF ReadChar, Reads, Sited, ReaderPlaces, WriterPlaces, HandlerPlaces
  <1>14. ASSUME NEW p \in Reader, ReadFails(p)
        PROVE  Sited'
    BY <1>14, Apart, Goes DEF ReadFails, ReadLeaves, Reads, Back, Sited, ReaderPlaces,
       WriterPlaces, HandlerPlaces
  <1>15. ASSUME NEW c \in Cpu, Get(c)
        PROVE  Sited'
    BY <1>15, Apart, Goes DEF Get, Sited, ReaderPlaces, WriterPlaces, HandlerPlaces
  <1>16. ASSUME NEW c \in Cpu, Erase(c)
        PROVE  Sited'
    BY <1>16, Apart, Goes DEF Erase, Handles, Sited, ReaderPlaces, WriterPlaces, HandlerPlaces
  <1>17. ASSUME NEW c \in Cpu, Ignore(c)
        PROVE  Sited'
    BY <1>17, Apart, Goes DEF Ignore, KeyDone, Handles, Sited, ReaderPlaces, WriterPlaces,
       HandlerPlaces
  <1>18. ASSUME NEW c \in Cpu, Swallow(c)
        PROVE  Sited'
    BY <1>18, Apart, Goes DEF Swallow, KeyDone, Handles, Sited, ReaderPlaces, WriterPlaces,
       HandlerPlaces
  <1>19. ASSUME NEW c \in Cpu, Echo(c)
        PROVE  Sited'
    BY <1>19, Apart, Goes DEF Echo, Handles, Sited, ReaderPlaces, WriterPlaces, HandlerPlaces
  <1>20. ASSUME NEW c \in Cpu, SyncSpin(c)
        PROVE  Sited'
    BY <1>20, Apart, Goes DEF SyncSpin, Sited, ReaderPlaces, WriterPlaces, HandlerPlaces
  <1>21. ASSUME NEW c \in Cpu, SyncWrite(c)
        PROVE  Sited'
    BY <1>21, Apart, Goes DEF SyncWrite, Sited, ReaderPlaces, WriterPlaces, HandlerPlaces
  <1>22. ASSUME NEW c \in Cpu, Store(c)
        PROVE  Sited'
    <2>1. pc' = [Woken("rsleep") EXCEPT ![c] = "get"] \/ Goto(c, "get")
      BY <1>22 DEF Store
    <2>2. pc'[c] = "get" /\ DOMAIN pc' = Thread
      BY <2>1, Apart, Wakes, Goes
    <2>3. \A u \in Thread : u # c => pc'[u] = pc[u] \/ (pc[u] = "rsleep" /\ pc'[u] = "rwoken")
      BY <2>1, Apart, Wakes, Goes
    <2> QED
      BY <2>2, <2>3, Apart DEF Sited, ReaderPlaces, WriterPlaces, HandlerPlaces
  <1>23. ASSUME NEW c \in Cpu, Complete(c)
        PROVE  Sited'
    BY <1>23, Apart, Goes DEF Complete, Sited, ReaderPlaces, WriterPlaces, HandlerPlaces
  <1>24. ASSUME NEW p \in Proc, Kill(p)
        PROVE  Sited'
    BY <1>24, Apart, Goes DEF Kill, Sited, ReaderPlaces, WriterPlaces, HandlerPlaces
  <1>25. ASSUME NEW p \in Writer, WriteCall(p)
        PROVE  Sited'
    BY <1>25, Apart, Goes DEF WriteCall, Sited, ReaderPlaces, WriterPlaces, HandlerPlaces
  <1>26. ASSUME NEW p \in Reader, ReadCall(p)
        PROVE  Sited'
    BY <1>26, Apart, Goes DEF ReadCall, Sited, ReaderPlaces, WriterPlaces, HandlerPlaces
  <1>27. ASSUME NEW c \in Cpu, Interrupt(c)
        PROVE  Sited'
    BY <1>27, Apart, Goes DEF Interrupt, Sited, ReaderPlaces, WriterPlaces, HandlerPlaces
  <1>28. ASSUME Transmit
        PROVE  Sited'
    BY <1>28, Apart DEF Transmit, Sited, ReaderPlaces, WriterPlaces, HandlerPlaces
  <1>29. ASSUME NEW k \in left.hits, Hit(k)
        PROVE  Sited'
    BY <1>29, Apart DEF Hit, Sited, ReaderPlaces, WriterPlaces, HandlerPlaces
  <1>30. CASE UNCHANGED vars
    BY <1>30 DEF vars, Sited
  <1> QED
    BY <1>1, <1>2, <1>3, <1>4, <1>5, <1>6, <1>7, <1>8, <1>9, <1>10, <1>11, <1>12, <1>13, <1>14,
       <1>15, <1>16, <1>17, <1>18, <1>19, <1>20, <1>21, <1>22, <1>23, <1>24, <1>25, <1>26, <1>27,
       <1>28, <1>29, <1>30 DEF Next, Step, Write, Read, Handler

\* Byte counts are numbers.
LEMMA Lengths == \A count \in Counts : count \in Nat \ {0}
  BY ConsoleAssumption DEF ConsoleAssumption

\* What is kept of CPUs, locks and calls keeps its type.
LEMMA KeptStep ==
  ASSUME Sited, Kept, Placed, [Next]_vars
  PROVE  Kept'
  <1>1. ASSUME NEW t \in Thread, Acquire(t)
        PROVE  Kept'
    BY <1>1, Apart, Running DEF Acquire, Kept, Spinning, calls, device
  <1>2. ASSUME NEW t \in Thread, StartNext(t)
        PROVE  Kept'
    BY <1>2, Apart, Running, Pushing DEF StartNext, Kept, calls, device
  <1>3. ASSUME NEW t \in Thread, StartWrites(t)
        PROVE  Kept'
    BY <1>3, Apart DEF StartWrites, Kept, calls, device
  <1>4. ASSUME NEW t \in Thread, StartEnds(t)
        PROVE  Kept'
    BY <1>4, Apart, Running, Pushing DEF StartEnds, Release, Kept, calls, device
  <1>5. ASSUME NEW p \in Proc, Dispatch(p)
        PROVE  Kept'
    BY <1>5, Apart, Pushing DEF Dispatch, Free, Kept, calls, device
  <1>6. ASSUME NEW p \in Writer, PutCall(p)
        PROVE  Kept'
    BY <1>6, Apart, Running, Pushing DEF PutCall, PushOff, Kept, calls, device
  <1>7. ASSUME NEW p \in Writer, PutSleeps(p)
        PROVE  Kept'
    BY <1>7, Apart, Running, Pushing DEF PutSleeps, Sleep, Kept, CpuOf, Placed, calls, device
  <1>8. ASSUME NEW p \in Writer, Put(p)
        PROVE  Kept'
    BY <1>8, Apart DEF Put, Kept, calls, device
  <1>9. ASSUME NEW p \in Writer, WriteReturns(p)
        PROVE  Kept'
    BY <1>9, Apart DEF WriteReturns, Kept, Placed, calls, device
  <1>10. ASSUME NEW p \in Reader, ReadSleeps(p)
        PROVE  Kept'
    BY <1>10, Apart, Running, Pushing DEF ReadSleeps, Sleep, Kept, CpuOf, Placed, calls,
       device
  <1>11. ASSUME NEW p \in Reader, ReadStops(p)
        PROVE  Kept'
    BY <1>11, Apart, Running, Pushing DEF ReadStops, ReadLeaves, Release, Kept, calls, device
  <1>12. ASSUME NEW p \in Reader, ReadEnd(p)
        PROVE  Kept'
    BY <1>12, Apart, Running, Pushing DEF ReadEnd, ReadLeaves, Release, Reads, Kept, calls,
       device
  <1>13. ASSUME NEW p \in Reader, ReadChar(p)
        PROVE  Kept'
    BY <1>13, Apart DEF ReadChar, Reads, Kept, calls, device
  <1>14. ASSUME NEW p \in Reader, ReadFails(p)
        PROVE  Kept'
    BY <1>14, Apart, Running, Pushing DEF ReadFails, ReadLeaves, Release, Reads, Kept, calls,
       device
  <1>15. ASSUME NEW c \in Cpu, Get(c)
        PROVE  Kept'
    BY <1>15, Apart, Running, Pushing DEF Get, PushOff, Kept, calls, device
  <1>16. ASSUME NEW c \in Cpu, Erase(c)
        PROVE  Kept'
    BY <1>16, Apart DEF Erase, Handles, Kept, calls, device
  <1>17. ASSUME NEW c \in Cpu, Ignore(c)
        PROVE  Kept'
    BY <1>17, Apart, Running, Pushing DEF Ignore, KeyDone, Release, Handles, Kept, calls,
       device
  <1>18. ASSUME NEW c \in Cpu, Swallow(c)
        PROVE  Kept'
    BY <1>18, Apart, Running, Pushing DEF Swallow, KeyDone, Release, Handles, Kept, calls,
       device
  <1>19. ASSUME NEW c \in Cpu, Echo(c)
        PROVE  Kept'
    BY <1>19, Apart DEF Echo, Handles, Kept, calls, device
  <1>20. ASSUME NEW c \in Cpu, SyncSpin(c)
        PROVE  Kept'
    BY <1>20, Apart, Running, Pushing DEF SyncSpin, PushOff, Kept, calls, device
  <1>21. ASSUME NEW c \in Cpu, SyncWrite(c)
        PROVE  Kept'
    BY <1>21, Apart, Running, Pushing DEF SyncWrite, Kept, Placed, calls, device
  <1>22. ASSUME NEW c \in Cpu, Store(c)
        PROVE  Kept'
    BY <1>22, Apart, Running, Pushing DEF Store, Release, Kept, calls, device
  <1>23. ASSUME NEW c \in Cpu, Complete(c)
        PROVE  Kept'
    BY <1>23, Apart, Pushing DEF Complete, Kept, calls, device
  <1>24. ASSUME NEW p \in Proc, Kill(p)
        PROVE  Kept'
    BY <1>24, Apart DEF Kill, Kept, Stages, calls, device
  <1>25. ASSUME NEW p \in Writer, WriteCall(p)
        PROVE  Kept'
    BY <1>25, Apart, Lengths DEF WriteCall, Free, Kept, Stages, calls, device
  <1>26. ASSUME NEW p \in Reader, ReadCall(p)
        PROVE  Kept'
    BY <1>26, Apart, Pushing, Lengths DEF ReadCall, Free, Kept, calls, device
  <1>27. ASSUME NEW c \in Cpu, Interrupt(c)
        PROVE  Kept'
    BY <1>27, Apart, Pushing DEF Interrupt, Kept, calls, device
  <1>28. ASSUME Transmit
        PROVE  Kept'
    BY <1>28, Apart DEF Transmit, Kept, calls, device
  <1>29. ASSUME NEW k \in left.hits, Hit(k)
        PROVE  Kept'
    <2>1. left' \in Stages
      <3>1. left \in Stages /\ left.keys \in Nat /\ left.keys > 0
        BY <1>29 DEF Hit, Kept, Stages
      <3>2. left' = [left EXCEPT !.keys = left.keys - 1] /\ left.keys - 1 \in Nat
        BY <1>29, <3>1 DEF Hit
      <3> QED
        BY <3>1, <3>2 DEF Stages
    <2>2. UNCHANGED <<cpu, lock, reg, n>>
      BY <1>29 DEF Hit, calls
    <2> QED
      BY <2>1, <2>2 DEF Kept
  <1>30. CASE UNCHANGED vars
    BY <1>30 DEF vars, calls, device, Kept
  <1> QED
    BY <1>1, <1>2, <1>3, <1>4, <1>5, <1>6, <1>7, <1>8, <1>9, <1>10, <1>11, <1>12, <1>13, <1>14,
       <1>15, <1>16, <1>17, <1>18, <1>19, <1>20, <1>21, <1>22, <1>23, <1>24, <1>25, <1>26, <1>27,
       <1>28, <1>29, <1>30 DEF Next, Step, Write, Read, Handler

-----------------------------------------------------------------------------
(* Threads, CPUs and locks *)

\* Who is at work under a lock runs.
LEMMA Holders ==
  ASSUME Sited, Placed, NEW t \in Thread, pc[t] \in InCons \cup InTx
  PROVE  Runs(t)
  <1>1. CASE t \in Cpu
    BY <1>1 DEF Runs, InCons, InTx
  <1>2. CASE t \in Proc
    <2>1. at[t] # None
      BY <1>2 DEF Placed, Away, InCons, InTx
    <2>2. pc[at[t]] = "idle"
      BY <1>2, <2>1 DEF Placed, InCons, InTx
    <2> QED
      BY <1>2, <2>1, <2>2, Apart DEF Runs
  <1> QED
    BY <1>1, <1>2 DEF Thread

\* What the state of a CPU is, when a thread with d push_off() runs on it.
Fits(t, k, d) ==
  /\ k \in States /\ k.noff = d
  /\ k.intr <=> (t \in Proc /\ d = 0)
  /\ d > 0 => (k.intena <=> t \in Proc)

\* The CPU of a thread that runs.
LEMMA Now ==
  ASSUME Kept, Placed, Counted, NEW t \in Thread, Runs(t)
  PROVE  Fits(t, cpu[CpuOf(t)], Depth(t))
  <1> DEFINE c == CpuOf(t)
  <1>1. c \in Cpu /\ cpu[c] \in States /\ cpu[c].noff = Depth(t)
    BY Running DEF Kept, Counted
  <1>2. pc[c] = "idle" <=> t \in Proc
    BY Apart DEF Runs, CpuOf, Thread
  <1>3. cpu[c].intr <=> (t \in Proc /\ Depth(t) = 0)
    BY <1>1, <1>2 DEF Counted
  <1>4. Depth(t) > 0 => (cpu[c].intena <=> t \in Proc)
    BY <1>1, <1>2 DEF Counted
  <1> QED
    BY <1>1, <1>3, <1>4 DEF Fits

\* Another push_off(), pop_off() and wakeup().
LEMMA FitsOn ==
  ASSUME NEW t, NEW k, NEW d \in Nat, Fits(t, k, d)
  PROVE  /\ Fits(t, PushedOff(k), d + 1)
         /\ d > 0 => Fits(t, PoppedOff(k), d - 1)
         /\ d = 1 => Fits(t, AfterWakeup(k), 1)
  <1>1. k \in States /\ k.noff = d
    BY DEF Fits
  <1>2. Fits(t, PushedOff(k), d + 1)
    <2>1. PushedOff(k) \in States /\ PushedOff(k).noff = d + 1 /\ ~PushedOff(k).intr
      BY <1>1, Pushing
    <2>2. PushedOff(k).intena <=> t \in Proc
      <3>1. CASE d = 0
        BY <1>1, <3>1, Pushing DEF Fits
      <3>2. CASE d > 0
        BY <1>1, <3>2, Pushing DEF Fits
      <3> QED
        BY <3>1, <3>2
    <2> QED
      BY <2>1, <2>2 DEF Fits
  <1>3. ASSUME d > 0
        PROVE  Fits(t, PoppedOff(k), d - 1)
    <2>1. PoppedOff(k) \in States /\ PoppedOff(k).noff = d - 1
      BY <1>1, Pushing
    <2>2. PoppedOff(k).intena <=> t \in Proc
      BY <1>1, <1>3, Pushing DEF Fits
    <2>3. PoppedOff(k).intr <=> (d = 1 /\ k.intena)
      BY <1>1, Pushing
    <2>4. d = 1 <=> d - 1 = 0
      OBVIOUS
    <2> QED
      BY <1>3, <2>1, <2>2, <2>3, <2>4 DEF Fits
  <1>4. ASSUME d = 1
        PROVE  Fits(t, AfterWakeup(k), 1)
    <2>1. AfterWakeup(k) \in States /\ AfterWakeup(k).noff = 1 /\ ~AfterWakeup(k).intr
      BY <1>1, <1>4, Pushing
    <2>2. AfterWakeup(k).intena <=> t \in Proc
      BY <1>1, <1>4, Pushing DEF Fits
    <2> QED
      BY <2>1, <2>2 DEF Fits
  <1> QED
    BY <1>2, <1>3, <1>4

\* A CPU that a process can be put on.
LEMMA FreeFits ==
  ASSUME Kept, Placed, Counted, NEW c \in Cpu, Free(c), NEW p \in Proc
  PROVE  Fits(p, cpu[c], 0)
  <1>1. pc[c] = "idle" /\ cpu[c] \in States
    BY DEF Free, Kept
  <1>2. \A t \in Thread : Runs(t) => CpuOf(t) # c
    BY <1>1, Apart DEF Runs, CpuOf, Free, Thread
  <1>3. cpu[c].noff = 0 /\ cpu[c].intr
    BY <1>1, <1>2 DEF Counted
  <1> QED
    BY <1>1, <1>3 DEF Fits
-----------------------------------------------------------------------------
(* The kinds of step, as far as threads and CPUs are concerned *)

\* The other threads stay where they are, or are woken.
Others(t) ==
  \A u \in Thread :
    u # t => \/ pc'[u] = pc[u]
             \/ pc[u] \in {"rsleep", "wsleep"} /\ pc'[u] \in {"rwoken", "wwoken"}

Stays(t) ==
  /\ Runs(t) /\ at' = at /\ Others(t)
  /\ t \in Proc => pc'[t] \notin Away
  /\ t \in Cpu => pc'[t] # "idle"
  /\ \E k : Fits(t, k, Depth(t)') /\ cpu' = [cpu EXCEPT ![CpuOf(t)] = k]

Enters(p) ==
  /\ p \in Proc /\ pc[p] \in Away /\ pc'[p] \notin Away /\ Others(p)
  /\ \E c \in Cpu : /\ Free(c) /\ at' = [at EXCEPT ![p] = c]
                    /\ \E k : Fits(p, k, Depth(p)') /\ cpu' = [cpu EXCEPT ![c] = k]

Leaves(p) ==
  /\ p \in Proc /\ Runs(p) /\ at' = [at EXCEPT ![p] = None]
  /\ pc'[p] \in Away /\ Others(p)
  /\ \E k : Fits(p, k, 0) /\ cpu' = [cpu EXCEPT ![at[p]] = k]

Rests ==
  /\ at' = at /\ cpu' = cpu
  /\ \A t \in Thread : pc'[t] = pc[t] \/ (t \in Proc /\ pc[t] \in Away /\ pc'[t] \in Away)

Takes(c) ==
  /\ pc[c] = "idle" /\ pc'[c] = "get" /\ at' = at /\ (\A u \in Thread : u # c => pc'[u] = pc[u])
  /\ cpu[c].intr /\ cpu' = [cpu EXCEPT ![c] = [@ EXCEPT !.intr = FALSE]]

Returns(c) ==
  /\ pc[c] = "complete" /\ pc'[c] = "idle" /\ at' = at /\ (\A u \in Thread : u # c => pc'[u] = pc[u])
  /\ cpu' = [cpu EXCEPT ![c] = [@ EXCEPT !.intr = TRUE]]

Kinds ==
  \/ \E t \in Thread : Stays(t)
  \/ \E p \in Proc : Enters(p) \/ Leaves(p)
  \/ Rests
  \/ \E c \in Cpu : Takes(c) \/ Returns(c)

\* A thread runs on, and keeps its CPU.
LEMMA StayPlaced ==
  ASSUME Sited, Placed, NEW t \in Thread, Stays(t)
  PROVE  Placed'
  <1>1. at' = at /\ at \in [Proc -> Cpu \cup {None}]
    BY DEF Stays, Placed
  <1>2. \A p \in Proc : pc'[p] \in Away <=> pc[p] \in Away
    <2>1. \A p \in Proc : p # t => (pc'[p] \in Away <=> pc[p] \in Away)
      BY Apart DEF Stays, Others, Away
    <2>2. t \in Proc => pc[t] \notin Away /\ pc'[t] \notin Away
      BY Apart DEF Stays, Runs, Placed
    <2> QED
      BY <2>1, <2>2
  <1>3. \A p \in Proc : at[p] # None /\ pc'[at[p]] # "idle" => pc'[p] = "write"
    <2>1. SUFFICES ASSUME NEW p \in Proc, at[p] # None, pc'[at[p]] # "idle"
                   PROVE  pc'[p] = "write"
      OBVIOUS
    <2>2. at[p] \in Cpu /\ pc[p] \notin Away
      BY <2>1 DEF Placed
    <2>3. pc[at[p]] # "idle"
      <3>1. CASE at[p] = t
        BY <3>1, <2>2, Apart DEF Stays, Runs
      <3>2. CASE at[p] # t
        BY <3>2, <2>1, <2>2, Apart DEF Stays, Others
      <3> QED
        BY <3>1, <3>2
    <2>4. pc[p] = "write" /\ p # t
      BY <2>1, <2>3, Apart DEF Placed, Stays, Runs
    <2> QED
      BY <2>4, Apart DEF Stays, Others
  <1> QED
    BY <1>1, <1>2, <1>3 DEF Placed

\* ... and its CPU counts on.
LEMMA StayCounted ==
  ASSUME Sited, Kept, Placed, Counted, NEW t \in Thread, Stays(t)
  PROVE  Counted'
  <1> DEFINE d == CpuOf(t)
  <1>1. PICK k : Fits(t, k, Depth(t)') /\ cpu' = [cpu EXCEPT ![d] = k]
    BY DEF Stays
  <1>2. d \in Cpu /\ Runs(t) /\ at' = at /\ Others(t) /\ cpu'[d] = k /\ \A c \in Cpu : c # d => cpu'[c] = cpu[c]
    BY <1>1, Running DEF Stays, Kept
  <1>3. \A u \in Thread : CpuOf(u)' = CpuOf(u)
    BY <1>2 DEF CpuOf
  <1>4. \A c \in Cpu : pc'[c] = "idle" <=> pc[c] = "idle"
    BY Apart DEF Stays, Others, Runs
  <1>5. \A u \in Thread : Runs(u)' <=> Runs(u)
    <2>1. \A c \in Cpu : Runs(c)' <=> Runs(c)
      BY <1>4 DEF Runs
    <2>2. \A p \in Proc : Runs(p)' <=> Runs(p)
      BY <1>2, <1>4, Apart DEF Runs, Placed
    <2> QED
      BY <2>1, <2>2 DEF Thread
  <1>6. \A u \in Thread : u # t => Depth(u)' = Depth(u)
    BY <1>2 DEF Others, Depth, Sync, InCons, InTx
  <1>7. \A u \in Thread : Runs(u)' => cpu'[CpuOf(u)'].noff = Depth(u)'
    <2>1. SUFFICES ASSUME NEW u \in Thread, Runs(u)
                   PROVE  cpu'[CpuOf(u)].noff = Depth(u)'
      BY <1>3, <1>5
    <2>2. CASE u = t
      BY <2>2, <1>1, <1>2 DEF Fits
    <2>3. CASE u # t
      <3>1. CpuOf(u) # d /\ CpuOf(u) \in Cpu
        BY <2>1, <2>3, <1>2, Running
      <3> QED
        BY <3>1, <2>1, <2>3, <1>2, <1>6 DEF Counted
    <2> QED
      BY <2>2, <2>3
  <1>8. \A c \in Cpu : (\A u \in Thread : Runs(u)' => CpuOf(u)' # c) => cpu'[c].noff = 0
    BY <1>2, <1>3, <1>5 DEF Counted
  <1>9. pc[d] = "idle" <=> t \in Proc
    BY <1>2, Apart DEF Runs, CpuOf, Thread
  <1>10. \A c \in Cpu : /\ cpu'[c].intr <=> pc'[c] = "idle" /\ cpu'[c].noff = 0
                        /\ cpu'[c].noff > 0 => (cpu'[c].intena <=> pc'[c] = "idle")
    <2>1. SUFFICES ASSUME NEW c \in Cpu
                   PROVE  /\ cpu'[c].intr <=> pc[c] = "idle" /\ cpu'[c].noff = 0
                          /\ cpu'[c].noff > 0 => (cpu'[c].intena <=> pc[c] = "idle")
      BY <1>4
    <2>2. CASE c = d
      BY <2>2, <1>1, <1>2, <1>9 DEF Fits
    <2>3. CASE c # d
      BY <2>3, <1>2 DEF Counted
    <2> QED
      BY <2>2, <2>3
  <1> QED
    BY <1>7, <1>8, <1>10 DEF Counted

\* A process is put on a CPU.
LEMMA EnterPlaced ==
  ASSUME Sited, Kept, Placed, Counted, NEW p \in Proc, Enters(p)
  PROVE  Placed' /\ Counted'
  <1>0. PICK c \in Cpu : /\ Free(c) /\ at' = [at EXCEPT ![p] = c]
                         /\ \E k : Fits(p, k, Depth(p)') /\ cpu' = [cpu EXCEPT ![c] = k]
    BY DEF Enters
  <1>1. PICK k : Fits(p, k, Depth(p)') /\ cpu' = [cpu EXCEPT ![c] = k]
    BY <1>0
  <1>2. /\ at'[p] = c /\ \A q \in Proc : q # p => at'[q] = at[q] /\ at[q] # c
        /\ at' \in [Proc -> Cpu \cup {None}] /\ c # None /\ pc[c] = "idle"
    BY <1>0, Apart DEF Placed, Free
  <1>3. \A d \in Cpu : pc'[d] = pc[d]
    <2>1. \A d \in Cpu : pc[d] \in HandlerPlaces /\ d \in Thread /\ d # p
      BY Apart DEF Sited
    <2> QED
      BY <2>1 DEF Enters, Others, HandlerPlaces
  <1>4. \A q \in Proc : q # p => (pc'[q] \in Away <=> pc[q] \in Away) /\ (pc[q] = "write" <=> pc'[q] = "write")
    BY Apart DEF Enters, Others, Away
  <1>5. Placed'
    <2>1. \A q \in Proc : at'[q] = None <=> pc'[q] \in Away
      BY <1>2, <1>4 DEF Placed, Enters
    <2>2. \A q, s \in Proc : at'[q] = at'[s] /\ q # s => at'[q] = None
      BY <1>2 DEF Placed
    <2>3. \A q \in Proc : at'[q] # None /\ pc'[at'[q]] # "idle" => pc'[q] = "write"
      BY <1>2, <1>3, <1>4 DEF Placed
    <2> QED
      BY <1>2, <2>1, <2>2, <2>3 DEF Placed
  <1>6. cpu'[c] = k /\ \A d \in Cpu : d # c => cpu'[d] = cpu[d]
    BY <1>1 DEF Kept
  <1>7. /\ \A d \in Cpu : (Runs(d)' <=> Runs(d)) /\ CpuOf(d)' = CpuOf(d) /\ CpuOf(d) = d
        /\ \A q \in Proc : q # p => (Runs(q)' <=> Runs(q)) /\ CpuOf(q)' = CpuOf(q) /\ (Runs(q) => CpuOf(q) \in Cpu /\ CpuOf(q) # c)
        /\ Runs(p)' /\ CpuOf(p)' = c /\ ~Runs(p) /\ ~Runs(c)
    BY <1>2, <1>3, Apart DEF Runs, CpuOf, Placed, Enters
  <1>8. \A u \in Thread : u # p => Depth(u)' = Depth(u)
    BY DEF Enters, Others, Depth, Sync, InCons, InTx
  <1>9. \A u \in Thread : Runs(u)' => cpu'[CpuOf(u)'].noff = Depth(u)'
    <2>1. ASSUME NEW d \in Cpu, Runs(d)'
          PROVE  cpu'[CpuOf(d)'].noff = Depth(d)'
      <3>1. d # c /\ d # p /\ d \in Thread
        BY <2>1, <1>7, Apart
      <3> QED
        BY <2>1, <3>1, <1>6, <1>7, <1>8 DEF Counted
    <2>2. ASSUME NEW q \in Proc, q # p, Runs(q)'
          PROVE  cpu'[CpuOf(q)'].noff = Depth(q)'
      BY <2>2, <1>6, <1>7, <1>8, Apart DEF Counted
    <2>3. cpu'[CpuOf(p)'].noff = Depth(p)'
      BY <1>1, <1>6, <1>7 DEF Fits
    <2> QED
      BY <2>1, <2>2, <2>3 DEF Thread
  <1>10. ASSUME NEW d \in Cpu, \A u \in Thread : Runs(u)' => CpuOf(u)' # d
         PROVE  cpu'[d].noff = 0
    <2>1. d # c
      BY <1>7, <1>10, Apart
    <2>2. \A u \in Thread : Runs(u) => CpuOf(u) # d
      BY <1>7, <1>10, <2>1 DEF Thread
    <2> QED
      BY <1>6, <2>1, <2>2 DEF Counted
  <1>11. ASSUME NEW d \in Cpu
         PROVE  /\ cpu'[d].intr <=> pc'[d] = "idle" /\ cpu'[d].noff = 0
                /\ cpu'[d].noff > 0 => (cpu'[d].intena <=> pc'[d] = "idle")
    <2>1. CASE d = c
      BY <2>1, <1>1, <1>2, <1>3, <1>6 DEF Fits
    <2>2. CASE d # c
      BY <2>2, <1>3, <1>6 DEF Counted
    <2> QED
      BY <2>1, <2>2
  <1>12. Counted'
    BY <1>9, <1>10, <1>11 DEF Counted
  <1> QED
    BY <1>5, <1>12

\* A process gives up its CPU.
LEMMA LeavePlaced ==
  ASSUME Sited, Kept, Placed, Counted, NEW p \in Proc, Leaves(p)
  PROVE  Placed' /\ Counted'
  <1> DEFINE c == at[p]
  <1>1. PICK k : Fits(p, k, 0) /\ cpu' = [cpu EXCEPT ![c] = k]
    BY DEF Leaves
  <1>2. /\ at' = [at EXCEPT ![p] = None] /\ at'[p] = None /\ \A q \in Proc : q # p => at'[q] = at[q] /\ at[q] # c
        /\ at' \in [Proc -> Cpu \cup {None}] /\ c \in Cpu /\ pc[c] = "idle" /\ Runs(p)
    BY Apart DEF Placed, Leaves, Runs
  <1>3. \A d \in Cpu : pc'[d] = pc[d]
    <2>1. \A d \in Cpu : pc[d] \in HandlerPlaces /\ d \in Thread /\ d # p
      BY Apart DEF Sited
    <2> QED
      BY <2>1 DEF Leaves, Others, HandlerPlaces
  <1>4. \A q \in Proc : q # p => (pc'[q] \in Away <=> pc[q] \in Away) /\ (pc[q] = "write" <=> pc'[q] = "write")
    BY Apart DEF Leaves, Others, Away
  <1>5. Placed'
    <2>1. \A q \in Proc : at'[q] = None <=> pc'[q] \in Away
      BY <1>2, <1>4 DEF Placed, Leaves
    <2>2. \A q, s \in Proc : at'[q] = at'[s] /\ q # s => at'[q] = None
      BY <1>2 DEF Placed
    <2>3. \A q \in Proc : at'[q] # None /\ pc'[at'[q]] # "idle" => pc'[q] = "write"
      BY <1>2, <1>3, <1>4 DEF Placed
    <2> QED
      BY <1>2, <2>1, <2>2, <2>3 DEF Placed
  <1>6. cpu'[c] = k /\ \A d \in Cpu : d # c => cpu'[d] = cpu[d]
    BY <1>1, <1>2 DEF Kept
  <1>7. /\ \A d \in Cpu : (Runs(d)' <=> Runs(d)) /\ CpuOf(d)' = CpuOf(d) /\ CpuOf(d) = d
        /\ \A q \in Proc : q # p => (Runs(q)' <=> Runs(q)) /\ CpuOf(q)' = CpuOf(q) /\ (Runs(q) => CpuOf(q) \in Cpu /\ CpuOf(q) # c)
        /\ ~Runs(p)' /\ CpuOf(p) = c /\ ~Runs(c)
    BY <1>2, <1>3, Apart DEF Runs, CpuOf, Placed
  <1>8. \A u \in Thread : u # p => Depth(u)' = Depth(u)
    BY DEF Leaves, Others, Depth, Sync, InCons, InTx
  <1>9. \A u \in Thread : Runs(u)' => cpu'[CpuOf(u)'].noff = Depth(u)'
    <2>1. ASSUME NEW d \in Cpu, Runs(d)'
          PROVE  cpu'[CpuOf(d)'].noff = Depth(d)'
      <3>1. d # c /\ d # p /\ d \in Thread
        BY <2>1, <1>7, Apart
      <3> QED
        BY <2>1, <3>1, <1>6, <1>7, <1>8 DEF Counted
    <2>2. ASSUME NEW q \in Proc, q # p, Runs(q)'
          PROVE  cpu'[CpuOf(q)'].noff = Depth(q)'
      BY <2>2, <1>6, <1>7, <1>8, Apart DEF Counted
    <2> QED
      BY <2>1, <2>2, <1>7 DEF Thread
  <1>10. ASSUME NEW d \in Cpu, \A u \in Thread : Runs(u)' => CpuOf(u)' # d
         PROVE  cpu'[d].noff = 0
    <2>1. CASE d = c
      BY <2>1, <1>1, <1>6 DEF Fits
    <2>2. CASE d # c
      <3>1. \A u \in Thread : Runs(u) => CpuOf(u) # d
        BY <1>7, <1>10, <2>2 DEF Thread
      <3> QED
        BY <1>6, <2>2, <3>1 DEF Counted
    <2> QED
      BY <2>1, <2>2
  <1>11. ASSUME NEW d \in Cpu
         PROVE  /\ cpu'[d].intr <=> pc'[d] = "idle" /\ cpu'[d].noff = 0
                /\ cpu'[d].noff > 0 => (cpu'[d].intena <=> pc'[d] = "idle")
    <2>1. CASE d = c
      BY <2>1, <1>1, <1>2, <1>3, <1>6 DEF Fits
    <2>2. CASE d # c
      BY <2>2, <1>3, <1>6 DEF Counted
    <2> QED
      BY <2>1, <2>2
  <1>12. Counted'
    BY <1>9, <1>10, <1>11 DEF Counted
  <1> QED
    BY <1>5, <1>12

\* Nothing happens on the CPUs.
LEMMA RestPlaced ==
  ASSUME Sited, Placed, Counted, Rests
  PROVE  Placed' /\ Counted'
  <1>1. \A c \in Cpu : pc'[c] = pc[c]
    BY Apart DEF Rests
  <1>2. \A p \in Proc : (pc'[p] \in Away <=> pc[p] \in Away) /\ (pc[p] = "write" => pc'[p] = "write") /\ p \in Thread
    BY Apart DEF Rests, Away
  <1>3. Placed'
    <2>1. \A q \in Proc : at'[q] # None /\ pc'[at'[q]] # "idle" => pc'[q] = "write"
      BY <1>1, <1>2 DEF Rests, Placed
    <2> QED
      BY <1>1, <1>2, <2>1 DEF Rests, Placed
  <1>4. /\ \A c \in Cpu : (Runs(c)' <=> Runs(c)) /\ CpuOf(c)' = CpuOf(c)
        /\ \A p \in Proc : (Runs(p)' <=> Runs(p)) /\ CpuOf(p)' = CpuOf(p)
    BY <1>1, Apart DEF Runs, CpuOf, Rests, Placed
  <1>5. \A u \in Thread : Depth(u)' = Depth(u)
    BY DEF Rests, Depth, Sync, InCons, InTx, Away
  <1>6. Counted'
    <2>1. \A u \in Thread : Runs(u)' => cpu'[CpuOf(u)'].noff = Depth(u)'
      BY <1>4, <1>5 DEF Counted, Rests, Thread
    <2>2. \A c \in Cpu : (\A u \in Thread : Runs(u)' => CpuOf(u)' # c) => cpu'[c].noff = 0
      BY <1>4 DEF Counted, Rests, Thread
    <2> QED
      BY <1>1, <2>1, <2>2 DEF Counted, Rests
  <1> QED
    BY <1>3, <1>6

\* An interrupt comes in above a process in consolewrite(), or above none.
LEMMA TakePlaced ==
  ASSUME Sited, Kept, Placed, Counted, NEW c \in Cpu, Takes(c)
  PROVE  Placed' /\ Counted'
  <1>1. cpu[c] \in States /\ cpu[c].noff = 0 /\ pc[c] = "idle" /\ pc'[c] = "get" /\ at' = at
    BY DEF Kept, Counted, Takes
  <1>2. cpu'[c] \in States /\ cpu'[c].noff = 0 /\ ~cpu'[c].intr /\ \A d \in Cpu : d # c => cpu'[d] = cpu[d]
    <2>1. cpu'[c] = [cpu[c] EXCEPT !.intr = FALSE] /\ \A d \in Cpu : d # c => cpu'[d] = cpu[d]
      BY DEF Takes, Kept
    <2>2. /\ [cpu[c] EXCEPT !.intr = FALSE] \in States /\ [cpu[c] EXCEPT !.intr = FALSE].noff = 0
          /\ [cpu[c] EXCEPT !.intr = FALSE].intr <=> FALSE
      BY <1>1, Pushing
    <2> QED
      BY <2>1, <2>2
  <1>3. /\ \A u \in Thread : u # c => pc'[u] = pc[u] /\ Depth(u)' = Depth(u)
        /\ \A p \in Proc : pc'[p] = pc[p]
    BY Apart DEF Takes, Depth
  <1>4. \A p \in Proc : at[p] = c => pc[p] = "write"
    <2>1. SUFFICES ASSUME NEW p \in Proc, at[p] = c
                   PROVE  pc[p] = "write"
      OBVIOUS
    <2>2. p \in Thread /\ Runs(p) /\ CpuOf(p) = c /\ pc[p] \notin Away
      BY <2>1, <1>1, Apart DEF Runs, CpuOf, Placed
    <2>3. Depth(p) = 0
      BY <2>2, <1>1 DEF Counted
    <2> QED
      BY <2>2, <2>3, Apart DEF Depth, Sited, ReaderPlaces, WriterPlaces, Away, InCons, InTx, Sync
  <1>5. Placed'
    BY <1>1, <1>3, <1>4, Apart DEF Placed
  <1>6. /\ \A d \in Cpu : CpuOf(d)' = d /\ (Runs(d)' <=> pc'[d] # "idle") /\ CpuOf(d) = d /\ (Runs(d) <=> pc[d] # "idle")
        /\ \A p \in Proc : CpuOf(p)' = at[p] /\ (Runs(p)' <=> Runs(p) /\ at[p] # c) /\ CpuOf(p) = at[p]
    BY <1>1, <1>3, Apart DEF Runs, CpuOf, Placed
  <1>7. \A u \in Thread : Runs(u)' => cpu'[CpuOf(u)'].noff = Depth(u)'
    <2>1. ASSUME NEW d \in Cpu, Runs(d)'
          PROVE  cpu'[CpuOf(d)'].noff = Depth(d)'
      <3>1. CASE d = c
        BY <3>1, <1>1, <1>2, <1>6 DEF Depth, Sync, InCons, InTx
      <3>2. CASE d # c
        BY <2>1, <3>2, <1>2, <1>3, <1>6, Apart DEF Counted
      <3> QED
        BY <3>1, <3>2
    <2>2. ASSUME NEW p \in Proc, Runs(p)'
          PROVE  cpu'[CpuOf(p)'].noff = Depth(p)'
      <3>1. Runs(p) /\ p \in Thread /\ p # c /\ CpuOf(p) \in Cpu /\ CpuOf(p) # c
        BY <2>2, <1>6, Running, Apart
      <3> QED
        BY <3>1, <1>2, <1>3, <1>6 DEF Counted
    <2> QED
      BY <2>1, <2>2 DEF Thread
  <1>8. ASSUME NEW d \in Cpu, \A u \in Thread : Runs(u)' => CpuOf(u)' # d
        PROVE  cpu'[d].noff = 0
    <2>1. d # c
      BY <1>1, <1>6, <1>8, Apart
    <2>2. \A u \in Thread : Runs(u) => CpuOf(u) # d
      BY <1>3, <1>6, <1>8, <2>1, Apart DEF Thread
    <2> QED
      BY <1>2, <2>1, <2>2 DEF Counted
  <1>9. ASSUME NEW d \in Cpu
        PROVE  /\ cpu'[d].intr <=> pc'[d] = "idle" /\ cpu'[d].noff = 0
               /\ cpu'[d].noff > 0 => (cpu'[d].intena <=> pc'[d] = "idle")
    BY <1>1, <1>2, <1>3, Apart DEF Counted
  <1>10. Counted'
    BY <1>7, <1>8, <1>9 DEF Counted
  <1> QED
    BY <1>5, <1>10

\* The handler returns to what it interrupted.
LEMMA ReturnPlaced ==
  ASSUME Sited, Kept, Placed, Counted, NEW c \in Cpu, Returns(c)
  PROVE  Placed' /\ Counted'
  <1>1. cpu[c] \in States /\ cpu[c].noff = 0 /\ pc[c] = "complete" /\ pc'[c] = "idle" /\ at' = at
    <2>1. Runs(c) /\ CpuOf(c) = c /\ Depth(c) = 0 /\ c \in Thread
      BY Apart DEF Returns, Runs, CpuOf, Depth, Sync, InCons, InTx
    <2> QED
      BY <2>1 DEF Kept, Counted, Returns
  <1>2. cpu'[c] \in States /\ cpu'[c].noff = 0 /\ cpu'[c].intr /\ \A d \in Cpu : d # c => cpu'[d] = cpu[d]
    <2>1. cpu'[c] = [cpu[c] EXCEPT !.intr = TRUE] /\ \A d \in Cpu : d # c => cpu'[d] = cpu[d]
      BY DEF Returns, Kept
    <2>2. /\ [cpu[c] EXCEPT !.intr = TRUE] \in States /\ [cpu[c] EXCEPT !.intr = TRUE].noff = 0
          /\ [cpu[c] EXCEPT !.intr = TRUE].intr <=> TRUE
      BY <1>1, Pushing
    <2> QED
      BY <2>1, <2>2
  <1>3. /\ \A u \in Thread : u # c => pc'[u] = pc[u] /\ Depth(u)' = Depth(u)
        /\ \A p \in Proc : pc'[p] = pc[p] /\ Depth(p)' = Depth(p)
    BY Apart DEF Returns, Depth
  <1>4. \A p \in Proc : at[p] = c => pc[p] = "write" /\ Depth(p) = 0
    <2>1. \A p \in Proc : at[p] = c => pc[p] = "write"
      BY <1>1, Apart DEF Placed
    <2> QED
      BY <2>1 DEF Depth, Sync, InCons, InTx
  <1>5. Placed'
    BY <1>1, <1>3, <1>4, Apart DEF Placed
  <1>6. /\ \A d \in Cpu : CpuOf(d)' = d /\ (Runs(d)' <=> pc'[d] # "idle") /\ CpuOf(d) = d /\ (Runs(d) <=> pc[d] # "idle")
        /\ \A p \in Proc : CpuOf(p)' = at[p] /\ (Runs(p)' <=> Runs(p) \/ at[p] = c) /\ CpuOf(p) = at[p]
    BY <1>1, <1>3, Apart DEF Runs, CpuOf, Placed
  <1>7. \A u \in Thread : Runs(u)' => cpu'[CpuOf(u)'].noff = Depth(u)'
    <2>1. ASSUME NEW d \in Cpu, Runs(d)'
          PROVE  cpu'[CpuOf(d)'].noff = Depth(d)'
      BY <2>1, <1>1, <1>2, <1>3, <1>6, Apart DEF Counted
    <2>2. ASSUME NEW p \in Proc, Runs(p)'
          PROVE  cpu'[CpuOf(p)'].noff = Depth(p)'
      <3>1. CASE at[p] = c
        BY <3>1, <1>2, <1>3, <1>4, <1>6
      <3>2. CASE at[p] # c
        BY <3>2, <2>2, <1>2, <1>3, <1>6, Running, Apart DEF Counted
      <3> QED
        BY <3>1, <3>2
    <2> QED
      BY <2>1, <2>2 DEF Thread
  <1>8. ASSUME NEW d \in Cpu, \A u \in Thread : Runs(u)' => CpuOf(u)' # d
        PROVE  cpu'[d].noff = 0
    <2>1. CASE d = c
      BY <2>1, <1>2
    <2>2. CASE d # c
      <3>1. \A u \in Thread : Runs(u) => CpuOf(u) # d
        BY <1>3, <1>6, <1>8, <2>2, Apart DEF Thread
      <3> QED
        BY <1>2, <2>2, <3>1 DEF Counted
    <2> QED
      BY <2>1, <2>2
  <1>9. ASSUME NEW d \in Cpu
        PROVE  /\ cpu'[d].intr <=> pc'[d] = "idle" /\ cpu'[d].noff = 0
               /\ cpu'[d].noff > 0 => (cpu'[d].intena <=> pc'[d] = "idle")
    BY <1>1, <1>2, <1>3, Apart DEF Counted
  <1>10. Counted'
    BY <1>7, <1>8, <1>9 DEF Counted
  <1> QED
    BY <1>5, <1>10

\* Every kind of step keeps threads and CPUs in order.
LEMMA KindPlaced ==
  ASSUME Sited, Kept, Placed, Counted, Kinds
  PROVE  Placed' /\ Counted'
  BY StayPlaced, StayCounted, EnterPlaced, LeavePlaced, RestPlaced, TakePlaced, ReturnPlaced DEF Kinds

\* A thread stays when it runs on and its push_off() and pop_off() are those of the step.
LEMMA StaysIf ==
  ASSUME Sited, Kept, Placed, Counted, NEW t \in Thread, Runs(t), at' = at, Others(t),
         t \in Proc => pc'[t] \notin Away, t \in Cpu => pc'[t] # "idle",
         \/ cpu' = cpu /\ Depth(t)' = Depth(t)
         \/ cpu' = [cpu EXCEPT ![CpuOf(t)] = PushedOff(@)] /\ Depth(t)' = Depth(t) + 1
         \/ cpu' = [cpu EXCEPT ![CpuOf(t)] = PoppedOff(@)] /\ Depth(t) = Depth(t)' + 1
         \/ cpu' = [cpu EXCEPT ![CpuOf(t)] = AfterWakeup(@)] /\ Depth(t)' = 1 /\ Depth(t) = 1
  PROVE  Stays(t)
  <1> DEFINE k == cpu[CpuOf(t)]
             d == Depth(t)
  <1>1. Fits(t, k, d) /\ d \in Nat /\ Depth(t)' \in Nat
    BY Now DEF Depth
  <1>2. CASE cpu' = cpu /\ Depth(t)' = d
    <2>1. cpu' = [cpu EXCEPT ![CpuOf(t)] = k]
      BY <1>2 DEF Kept
    <2> QED
      BY <1>1, <1>2, <2>1 DEF Stays
  <1>3. CASE cpu' = [cpu EXCEPT ![CpuOf(t)] = PushedOff(@)] /\ Depth(t)' = d + 1
    <2>1. Fits(t, PushedOff(k), Depth(t)')
      BY <1>1, <1>3, FitsOn
    <2>2. cpu' = [cpu EXCEPT ![CpuOf(t)] = PushedOff(k)]
      BY <1>3 DEF Kept
    <2> QED
      BY <2>1, <2>2 DEF Stays
  <1>4. CASE cpu' = [cpu EXCEPT ![CpuOf(t)] = PoppedOff(@)] /\ d = Depth(t)' + 1
    <2>1. d > 0 /\ d - 1 = Depth(t)'
      BY <1>1, <1>4
    <2>2. Fits(t, PoppedOff(k), Depth(t)')
      BY <1>1, <2>1, FitsOn
    <2>3. cpu' = [cpu EXCEPT ![CpuOf(t)] = PoppedOff(k)]
      BY <1>4 DEF Kept
    <2> QED
      BY <2>2, <2>3 DEF Stays
  <1>5. CASE cpu' = [cpu EXCEPT ![CpuOf(t)] = AfterWakeup(@)] /\ Depth(t)' = 1 /\ d = 1
    <2>1. Fits(t, AfterWakeup(k), Depth(t)')
      BY <1>1, <1>5, FitsOn
    <2>2. cpu' = [cpu EXCEPT ![CpuOf(t)] = AfterWakeup(k)]
      BY <1>5 DEF Kept
    <2> QED
      BY <2>1, <2>2 DEF Stays
  <1> QED
    BY <1>2, <1>3, <1>4, <1>5

\* A process enters with the push_off() that acquire() does, or with none.
LEMMA EntersIf ==
  ASSUME Sited, Kept, Placed, Counted, NEW p \in Proc, NEW c \in Cpu, Free(c), at' = [at EXCEPT ![p] = c],
         Others(p), pc[p] \in Away, pc'[p] \notin Away,
         \/ cpu' = cpu /\ Depth(p)' = 0
         \/ cpu' = [cpu EXCEPT ![c] = PushedOff(@)] /\ Depth(p)' = 1
  PROVE  Enters(p)
  <1>1. Fits(p, cpu[c], 0)
    BY FreeFits
  <1>2. CASE cpu' = cpu /\ Depth(p)' = 0
    <2>1. cpu' = [cpu EXCEPT ![c] = cpu[c]]
      BY <1>2 DEF Kept
    <2> QED
      BY <1>1, <1>2, <2>1 DEF Enters
  <1>3. CASE cpu' = [cpu EXCEPT ![c] = PushedOff(@)] /\ Depth(p)' = 1
    <2>1. Fits(p, PushedOff(cpu[c]), 0 + 1)
      BY <1>1, FitsOn
    <2>2. cpu' = [cpu EXCEPT ![c] = PushedOff(cpu[c])] /\ Depth(p)' = 0 + 1
      BY <1>3 DEF Kept
    <2> QED
      BY <2>1, <2>2 DEF Enters
  <1> QED
    BY <1>2, <1>3

\* A process leaves from under a lock that it gives up, or with interrupts on.
LEMMA LeavesIf ==
  ASSUME Sited, Kept, Placed, Counted, NEW p \in Proc, Runs(p), at' = [at EXCEPT ![p] = None],
         Others(p), pc'[p] \in Away,
         \/ cpu' = cpu /\ Depth(p) = 0
         \/ cpu' = [cpu EXCEPT ![at[p]] = PoppedOff(@)] /\ Depth(p) = 1
  PROVE  Leaves(p)
  <1>1. Fits(p, cpu[at[p]], Depth(p)) /\ p \in Thread
    BY Now, Running, Apart
  <1>2. CASE cpu' = cpu /\ Depth(p) = 0
    <2>1. cpu' = [cpu EXCEPT ![at[p]] = cpu[at[p]]]
      BY <1>2 DEF Kept
    <2> QED
      BY <1>1, <1>2, <2>1 DEF Leaves
  <1>3. CASE cpu' = [cpu EXCEPT ![at[p]] = PoppedOff(@)] /\ Depth(p) = 1
    <2>1. Fits(p, cpu[at[p]], 1) /\ 1 \in Nat /\ 1 > 0 /\ 1 - 1 = 0
      BY <1>1, <1>3
    <2>2. Fits(p, PoppedOff(cpu[at[p]]), 0)
      BY <2>1, FitsOn
    <2>3. cpu' = [cpu EXCEPT ![at[p]] = PoppedOff(cpu[at[p]])]
      BY <1>3 DEF Kept
    <2> QED
      BY <2>2, <2>3 DEF Leaves
  <1> QED
    BY <1>2, <1>3
-----------------------------------------------------------------------------
(* Where each step takes its thread; the others stay, or are woken. *)

\* Where Acquire() takes its thread.
LEMMA AcquireMoves ==
  ASSUME Sited, NEW t \in Thread, Acquire(t)
  PROVE  Others(t) /\ pc[t] \in {"consspin", "txspin"} /\ pc'[t] \in {"key", "read", "start", "put"}
  BY Goes, Apart DEF Acquire, Others, Spinning

\* Where StartNext() takes its thread.
LEMMA StartNextMoves ==
  ASSUME Sited, NEW t \in Thread, StartNext(t)
  PROVE  Others(t) /\ pc[t] = "start" /\ pc'[t] = "thr"
  BY Wakes DEF StartNext, Others

\* Where StartWrites() takes its thread.
LEMMA StartWritesMoves ==
  ASSUME Sited, NEW t \in Thread, StartWrites(t)
  PROVE  Others(t) /\ pc[t] = "thr" /\ pc'[t] = "start"
  BY Goes, Apart DEF StartWrites, Others

\* Where StartEnds() takes its thread.
LEMMA StartEndsMoves ==
  ASSUME Sited, NEW t \in Thread, StartEnds(t)
  PROVE  Others(t) /\ pc[t] = "start" /\ pc'[t] \in {"complete", "write"}
  BY Goes, Apart DEF StartEnds, Others

\* Where Dispatch() takes its thread.
LEMMA DispatchMoves ==
  ASSUME Sited, NEW p \in Proc, Dispatch(p)
  PROVE  Others(p) /\ pc[p] \in {"rwoken", "wwoken"} /\ pc'[p] \in {"consspin", "txspin"}
  BY Goes, Apart DEF Dispatch, Others

\* Where PutCall() takes its thread.
LEMMA PutCallMoves ==
  ASSUME Sited, NEW p \in Writer, PutCall(p)
  PROVE  Others(p) /\ pc[p] = "write" /\ pc'[p] = "txspin"
  BY Goes, Apart DEF PutCall, Others

\* Where PutSleeps() takes its thread.
LEMMA PutSleepsMoves ==
  ASSUME Sited, NEW p \in Writer, PutSleeps(p)
  PROVE  Others(p) /\ pc[p] = "put" /\ pc'[p] = "wsleep"
  BY Goes, Apart DEF PutSleeps, Others, Sleep

\* Where Put() takes its thread.
LEMMA PutMoves ==
  ASSUME Sited, NEW p \in Writer, Put(p)
  PROVE  Others(p) /\ pc[p] = "put" /\ pc'[p] = "start"
  BY Goes, Apart DEF Put, Others

\* Where WriteReturns() takes its thread.
LEMMA WriteReturnsMoves ==
  ASSUME Sited, NEW p \in Writer, WriteReturns(p)
  PROVE  Others(p) /\ pc[p] = "write" /\ pc'[p] \in {"dead", "user"}
  BY Goes, Apart DEF WriteReturns, Others, Back

\* Where ReadSleeps() takes its thread.
LEMMA ReadSleepsMoves ==
  ASSUME Sited, NEW p \in Reader, ReadSleeps(p)
  PROVE  Others(p) /\ pc[p] = "read" /\ pc'[p] = "rsleep"
  BY Goes, Apart DEF ReadSleeps, Others, Sleep

\* Where ReadStops() takes its thread.
LEMMA ReadStopsMoves ==
  ASSUME Sited, NEW p \in Reader, ReadStops(p)
  PROVE  Others(p) /\ pc[p] = "read" /\ pc'[p] \in {"dead", "user"}
  BY Goes, Apart DEF ReadStops, Others, ReadLeaves, Back

\* Where ReadEnd() takes its thread.
LEMMA ReadEndMoves ==
  ASSUME Sited, NEW p \in Reader, ReadEnd(p)
  PROVE  Others(p) /\ pc[p] = "read" /\ pc'[p] \in {"dead", "user"}
  BY Goes, Apart DEF ReadEnd, Others, ReadLeaves, Reads, Back

\* Where ReadChar() takes its thread.
LEMMA ReadCharMoves ==
  ASSUME Sited, NEW p \in Reader, ReadChar(p)
  PROVE  Others(p) /\ pc[p] = "read" /\ pc'[p] = "read"
  BY DEF ReadChar, Reads, Others

\* Where ReadFails() takes its thread.
LEMMA ReadFailsMoves ==
  ASSUME Sited, NEW p \in Reader, ReadFails(p)
  PROVE  Others(p) /\ pc[p] = "read" /\ pc'[p] \in {"dead", "user"}
  BY Goes, Apart DEF ReadFails, Others, ReadLeaves, Reads, Back

\* Where Get() takes its thread.
LEMMA GetMoves ==
  ASSUME Sited, NEW c \in Cpu, Get(c)
  PROVE  Others(c) /\ pc[c] = "get" /\ pc'[c] \in {"consspin", "txspin"}
  BY Goes, Apart DEF Get, Others

\* Where Erase() takes its thread.
LEMMA EraseMoves ==
  ASSUME Sited, NEW c \in Cpu, Erase(c)
  PROVE  Others(c) /\ pc[c] = "key" /\ pc'[c] = "erase"
  BY Goes, Apart DEF Erase, Others, Handles

\* Where Ignore() takes its thread.
LEMMA IgnoreMoves ==
  ASSUME Sited, NEW c \in Cpu, Ignore(c)
  PROVE  Others(c) /\ pc[c] = "key" /\ pc'[c] = "get"
  BY Goes, Apart DEF Ignore, Others, KeyDone, Handles

\* Where Swallow() takes its thread.
LEMMA SwallowMoves ==
  ASSUME Sited, NEW c \in Cpu, Swallow(c)
  PROVE  Others(c) /\ pc[c] = "key" /\ pc'[c] = "get"
  BY Goes, Apart DEF Swallow, Others, KeyDone, Handles

\* Where Echo() takes its thread.
LEMMA EchoMoves ==
  ASSUME Sited, NEW c \in Cpu, Echo(c)
  PROVE  Others(c) /\ pc[c] = "key" /\ pc'[c] \in {"store", "echo"}
  BY Goes, Apart DEF Echo, Others, Handles

\* Where SyncSpin() takes its thread.
LEMMA SyncSpinMoves ==
  ASSUME Sited, NEW c \in Cpu, SyncSpin(c)
  PROVE  Others(c) /\ pc[c] \in {"echo", "erase"} /\ pc'[c] \in Sync
  BY Goes, Apart DEF SyncSpin, Others, Sync

\* Where SyncWrite() takes its thread.
LEMMA SyncWriteMoves ==
  ASSUME Sited, NEW c \in Cpu, SyncWrite(c)
  PROVE  Others(c) /\ pc[c] \in Sync /\ pc'[c] \in {"store", "key"}
  BY Goes, Apart DEF SyncWrite, Others, Sync

\* Where Store() takes its thread.
LEMMA StoreMoves ==
  ASSUME Sited, NEW c \in Cpu, Store(c)
  PROVE  Others(c) /\ pc[c] = "store" /\ pc'[c] = "get"
  <1>1. pc[c] = "store" /\ (pc' = [Woken("rsleep") EXCEPT ![c] = "get"] \/ Goto(c, "get"))
    BY DEF Store
  <1> QED
    BY <1>1, Wakes, Goes, Apart DEF Others

\* Where Complete() takes its thread.
LEMMA CompleteMoves ==
  ASSUME Sited, NEW c \in Cpu, Complete(c)
  PROVE  Others(c) /\ pc[c] = "complete" /\ pc'[c] = "idle"
  BY Goes, Apart DEF Complete, Others

\* Where Kill() takes its thread.
LEMMA KillMoves ==
  ASSUME Sited, NEW p \in Proc, Kill(p)
  PROVE  Others(p) /\ (pc'[p] = pc[p] \/ (pc[p] \in {"user", "rsleep", "wsleep"} /\ pc'[p] \in {"dead", "rwoken", "wwoken"}))
  BY Goes, Apart DEF Kill, Others

\* Where WriteCall() takes its thread.
LEMMA WriteCallMoves ==
  ASSUME Sited, NEW p \in Writer, WriteCall(p)
  PROVE  Others(p) /\ pc[p] = "user" /\ pc'[p] = "write"
  BY Goes, Apart DEF WriteCall, Others

\* Where ReadCall() takes its thread.
LEMMA ReadCallMoves ==
  ASSUME Sited, NEW p \in Reader, ReadCall(p)
  PROVE  Others(p) /\ pc[p] = "user" /\ pc'[p] = "consspin"
  BY Goes, Apart DEF ReadCall, Others

\* Where Interrupt() takes its thread.
LEMMA InterruptMoves ==
  ASSUME Sited, NEW c \in Cpu, Interrupt(c)
  PROVE  Others(c) /\ pc[c] = "idle" /\ pc'[c] = "get"
  BY Goes, Apart DEF Interrupt, Others

\* Each step is of one of the kinds.
LEMMA KindOf ==
  ASSUME Sited, Kept, Placed, Counted, [Next]_vars
  PROVE  Kinds
  <1>1. ASSUME NEW t \in Thread, Acquire(t)
        PROVE  Kinds
    <2>1. Runs(t) /\ at' = at
      BY <1>1 DEF Acquire
    <2>2. Others(t) /\ pc[t] \in {"consspin", "txspin"} /\ pc'[t] \in {"key", "read", "start", "put"}
      BY <1>1, AcquireMoves
    <2>3. \/ cpu' = cpu /\ Depth(t)' = Depth(t)
          \/ cpu' = [cpu EXCEPT ![CpuOf(t)] = PushedOff(@)] /\ Depth(t)' = Depth(t) + 1
          \/ cpu' = [cpu EXCEPT ![CpuOf(t)] = PoppedOff(@)] /\ Depth(t) = Depth(t)' + 1
          \/ cpu' = [cpu EXCEPT ![CpuOf(t)] = AfterWakeup(@)] /\ Depth(t)' = 1 /\ Depth(t) = 1
      BY <1>1, <2>2 DEF Acquire, Depth, Sync, InCons, InTx
    <2>4. (t \in Proc => pc'[t] \notin Away) /\ (t \in Cpu => pc'[t] # "idle")
      BY <2>2 DEF Away
    <2> QED
      BY <2>1, <2>2, <2>3, <2>4, StaysIf DEF Kinds
  <1>2. ASSUME NEW t \in Thread, StartNext(t)
        PROVE  Kinds
    <2>1. Runs(t) /\ at' = at
      BY <1>2 DEF StartNext
    <2>2. Others(t) /\ pc[t] = "start" /\ pc'[t] = "thr"
      BY <1>2, StartNextMoves
    <2>3. \/ cpu' = cpu /\ Depth(t)' = Depth(t)
          \/ cpu' = [cpu EXCEPT ![CpuOf(t)] = PushedOff(@)] /\ Depth(t)' = Depth(t) + 1
          \/ cpu' = [cpu EXCEPT ![CpuOf(t)] = PoppedOff(@)] /\ Depth(t) = Depth(t)' + 1
          \/ cpu' = [cpu EXCEPT ![CpuOf(t)] = AfterWakeup(@)] /\ Depth(t)' = 1 /\ Depth(t) = 1
      BY <1>2, <2>2 DEF StartNext, Depth, Sync, InCons, InTx
    <2>4. (t \in Proc => pc'[t] \notin Away) /\ (t \in Cpu => pc'[t] # "idle")
      BY <2>2 DEF Away
    <2> QED
      BY <2>1, <2>2, <2>3, <2>4, StaysIf DEF Kinds
  <1>3. ASSUME NEW t \in Thread, StartWrites(t)
        PROVE  Kinds
    <2>1. Runs(t) /\ at' = at
      BY <1>3 DEF StartWrites
    <2>2. Others(t) /\ pc[t] = "thr" /\ pc'[t] = "start"
      BY <1>3, StartWritesMoves
    <2>3. \/ cpu' = cpu /\ Depth(t)' = Depth(t)
          \/ cpu' = [cpu EXCEPT ![CpuOf(t)] = PushedOff(@)] /\ Depth(t)' = Depth(t) + 1
          \/ cpu' = [cpu EXCEPT ![CpuOf(t)] = PoppedOff(@)] /\ Depth(t) = Depth(t)' + 1
          \/ cpu' = [cpu EXCEPT ![CpuOf(t)] = AfterWakeup(@)] /\ Depth(t)' = 1 /\ Depth(t) = 1
      BY <1>3, <2>2 DEF StartWrites, Depth, Sync, InCons, InTx
    <2>4. (t \in Proc => pc'[t] \notin Away) /\ (t \in Cpu => pc'[t] # "idle")
      BY <2>2 DEF Away
    <2> QED
      BY <2>1, <2>2, <2>3, <2>4, StaysIf DEF Kinds
  <1>4. ASSUME NEW t \in Thread, StartEnds(t)
        PROVE  Kinds
    <2>1. Runs(t) /\ at' = at
      BY <1>4 DEF StartEnds
    <2>2. Others(t) /\ pc[t] = "start" /\ pc'[t] \in {"complete", "write"}
      BY <1>4, StartEndsMoves
    <2>3. \/ cpu' = cpu /\ Depth(t)' = Depth(t)
          \/ cpu' = [cpu EXCEPT ![CpuOf(t)] = PushedOff(@)] /\ Depth(t)' = Depth(t) + 1
          \/ cpu' = [cpu EXCEPT ![CpuOf(t)] = PoppedOff(@)] /\ Depth(t) = Depth(t)' + 1
          \/ cpu' = [cpu EXCEPT ![CpuOf(t)] = AfterWakeup(@)] /\ Depth(t)' = 1 /\ Depth(t) = 1
      BY <1>4, <2>2 DEF StartEnds, Release, Depth, Sync, InCons, InTx
    <2>4. (t \in Proc => pc'[t] \notin Away) /\ (t \in Cpu => pc'[t] # "idle")
      BY <2>2 DEF Away
    <2> QED
      BY <2>1, <2>2, <2>3, <2>4, StaysIf DEF Kinds
  <1>5. ASSUME NEW p \in Proc, Dispatch(p)
        PROVE  Kinds
    <2>1. Others(p) /\ pc[p] \in {"rwoken", "wwoken"} /\ pc'[p] \in {"consspin", "txspin"}
      BY <1>5, DispatchMoves
    <2>2. PICK c \in Cpu : /\ Free(c) /\ at' = [at EXCEPT ![p] = c]
                           /\ \/ cpu' = cpu /\ Depth(p)' = 0
                              \/ cpu' = [cpu EXCEPT ![c] = PushedOff(@)] /\ Depth(p)' = 1
      BY <1>5, <2>1 DEF Dispatch, Depth, Sync, InCons, InTx
    <2>3. pc[p] \in Away /\ pc'[p] \notin Away
      BY <2>1 DEF Away
    <2> QED
      BY <2>1, <2>2, <2>3, EntersIf, Apart DEF Kinds
  <1>6. ASSUME NEW p \in Writer, PutCall(p)
        PROVE  Kinds
    <2>1. Runs(p) /\ at' = at
      BY <1>6 DEF PutCall
    <2>2. Others(p) /\ pc[p] = "write" /\ pc'[p] = "txspin"
      BY <1>6, PutCallMoves
    <2>3. \/ cpu' = cpu /\ Depth(p)' = Depth(p)
          \/ cpu' = [cpu EXCEPT ![CpuOf(p)] = PushedOff(@)] /\ Depth(p)' = Depth(p) + 1
          \/ cpu' = [cpu EXCEPT ![CpuOf(p)] = PoppedOff(@)] /\ Depth(p) = Depth(p)' + 1
          \/ cpu' = [cpu EXCEPT ![CpuOf(p)] = AfterWakeup(@)] /\ Depth(p)' = 1 /\ Depth(p) = 1
      BY <1>6, <2>2 DEF PutCall, PushOff, Depth, Sync, InCons, InTx
    <2>4. (p \in Proc => pc'[p] \notin Away) /\ (p \in Cpu => pc'[p] # "idle")
      BY <2>2 DEF Away
    <2> QED
      BY <2>1, <2>2, <2>3, <2>4, StaysIf, Apart DEF Kinds
  <1>7. ASSUME NEW p \in Writer, PutSleeps(p)
        PROVE  Kinds
    <2>1. Runs(p) /\ at' = [at EXCEPT ![p] = None]
      BY <1>7 DEF PutSleeps, Sleep
    <2>2. Others(p) /\ pc[p] = "put" /\ pc'[p] = "wsleep"
      BY <1>7, PutSleepsMoves
    <2>3. \/ cpu' = cpu /\ Depth(p) = 0
          \/ cpu' = [cpu EXCEPT ![at[p]] = PoppedOff(@)] /\ Depth(p) = 1
      BY <1>7, <2>2, Running, Apart DEF PutSleeps, Sleep, Depth, Sync, InCons, InTx
    <2>4. pc'[p] \in Away
      BY <2>2 DEF Away
    <2> QED
      BY <2>1, <2>2, <2>3, <2>4, LeavesIf, Apart DEF Kinds
  <1>8. ASSUME NEW p \in Writer, Put(p)
        PROVE  Kinds
    <2>1. Runs(p) /\ at' = at
      BY <1>8 DEF Put
    <2>2. Others(p) /\ pc[p] = "put" /\ pc'[p] = "start"
      BY <1>8, PutMoves
    <2>3. \/ cpu' = cpu /\ Depth(p)' = Depth(p)
          \/ cpu' = [cpu EXCEPT ![CpuOf(p)] = PushedOff(@)] /\ Depth(p)' = Depth(p) + 1
          \/ cpu' = [cpu EXCEPT ![CpuOf(p)] = PoppedOff(@)] /\ Depth(p) = Depth(p)' + 1
          \/ cpu' = [cpu EXCEPT ![CpuOf(p)] = AfterWakeup(@)] /\ Depth(p)' = 1 /\ Depth(p) = 1
      BY <1>8, <2>2 DEF Put, Depth, Sync, InCons, InTx
    <2>4. (p \in Proc => pc'[p] \notin Away) /\ (p \in Cpu => pc'[p] # "idle")
      BY <2>2 DEF Away
    <2> QED
      BY <2>1, <2>2, <2>3, <2>4, StaysIf, Apart DEF Kinds
  <1>9. ASSUME NEW p \in Writer, WriteReturns(p)
        PROVE  Kinds
    <2>1. Runs(p) /\ at' = [at EXCEPT ![p] = None]
      BY <1>9 DEF WriteReturns
    <2>2. Others(p) /\ pc[p] = "write" /\ pc'[p] \in {"dead", "user"}
      BY <1>9, WriteReturnsMoves
    <2>3. \/ cpu' = cpu /\ Depth(p) = 0
          \/ cpu' = [cpu EXCEPT ![at[p]] = PoppedOff(@)] /\ Depth(p) = 1
      BY <1>9, <2>2, Running, Apart DEF WriteReturns, Depth, Sync, InCons, InTx
    <2>4. pc'[p] \in Away
      BY <2>2 DEF Away
    <2> QED
      BY <2>1, <2>2, <2>3, <2>4, LeavesIf, Apart DEF Kinds
  <1>10. ASSUME NEW p \in Reader, ReadSleeps(p)
        PROVE  Kinds
    <2>1. Runs(p) /\ at' = [at EXCEPT ![p] = None]
      BY <1>10 DEF ReadSleeps, Sleep
    <2>2. Others(p) /\ pc[p] = "read" /\ pc'[p] = "rsleep"
      BY <1>10, ReadSleepsMoves
    <2>3. \/ cpu' = cpu /\ Depth(p) = 0
          \/ cpu' = [cpu EXCEPT ![at[p]] = PoppedOff(@)] /\ Depth(p) = 1
      BY <1>10, <2>2, Running, Apart DEF ReadSleeps, Sleep, Depth, Sync, InCons, InTx
    <2>4. pc'[p] \in Away
      BY <2>2 DEF Away
    <2> QED
      BY <2>1, <2>2, <2>3, <2>4, LeavesIf, Apart DEF Kinds
  <1>11. ASSUME NEW p \in Reader, ReadStops(p)
        PROVE  Kinds
    <2>1. Runs(p) /\ at' = [at EXCEPT ![p] = None]
      BY <1>11 DEF ReadStops, ReadLeaves
    <2>2. Others(p) /\ pc[p] = "read" /\ pc'[p] \in {"dead", "user"}
      BY <1>11, ReadStopsMoves
    <2>3. \/ cpu' = cpu /\ Depth(p) = 0
          \/ cpu' = [cpu EXCEPT ![at[p]] = PoppedOff(@)] /\ Depth(p) = 1
      BY <1>11, <2>2, Running, Apart DEF ReadStops, ReadLeaves, Release, Depth, Sync, InCons,
         InTx
    <2>4. pc'[p] \in Away
      BY <2>2 DEF Away
    <2> QED
      BY <2>1, <2>2, <2>3, <2>4, LeavesIf, Apart DEF Kinds
  <1>12. ASSUME NEW p \in Reader, ReadEnd(p)
        PROVE  Kinds
    <2>1. Runs(p) /\ at' = [at EXCEPT ![p] = None]
      BY <1>12 DEF ReadEnd, ReadLeaves, Reads
    <2>2. Others(p) /\ pc[p] = "read" /\ pc'[p] \in {"dead", "user"}
      BY <1>12, ReadEndMoves
    <2>3. \/ cpu' = cpu /\ Depth(p) = 0
          \/ cpu' = [cpu EXCEPT ![at[p]] = PoppedOff(@)] /\ Depth(p) = 1
      BY <1>12, <2>2, Running, Apart DEF ReadEnd, ReadLeaves, Release, Reads, Depth, Sync,
         InCons, InTx
    <2>4. pc'[p] \in Away
      BY <2>2 DEF Away
    <2> QED
      BY <2>1, <2>2, <2>3, <2>4, LeavesIf, Apart DEF Kinds
  <1>13. ASSUME NEW p \in Reader, ReadChar(p)
        PROVE  Kinds
    <2>1. Runs(p) /\ at' = at
      BY <1>13 DEF ReadChar, Reads
    <2>2. Others(p) /\ pc[p] = "read" /\ pc'[p] = "read"
      BY <1>13, ReadCharMoves
    <2>3. \/ cpu' = cpu /\ Depth(p)' = Depth(p)
          \/ cpu' = [cpu EXCEPT ![CpuOf(p)] = PushedOff(@)] /\ Depth(p)' = Depth(p) + 1
          \/ cpu' = [cpu EXCEPT ![CpuOf(p)] = PoppedOff(@)] /\ Depth(p) = Depth(p)' + 1
          \/ cpu' = [cpu EXCEPT ![CpuOf(p)] = AfterWakeup(@)] /\ Depth(p)' = 1 /\ Depth(p) = 1
      BY <1>13, <2>2 DEF ReadChar, Reads, Depth, Sync, InCons, InTx
    <2>4. (p \in Proc => pc'[p] \notin Away) /\ (p \in Cpu => pc'[p] # "idle")
      BY <2>2 DEF Away
    <2> QED
      BY <2>1, <2>2, <2>3, <2>4, StaysIf, Apart DEF Kinds
  <1>14. ASSUME NEW p \in Reader, ReadFails(p)
        PROVE  Kinds
    <2>1. Runs(p) /\ at' = [at EXCEPT ![p] = None]
      BY <1>14 DEF ReadFails, ReadLeaves, Reads
    <2>2. Others(p) /\ pc[p] = "read" /\ pc'[p] \in {"dead", "user"}
      BY <1>14, ReadFailsMoves
    <2>3. \/ cpu' = cpu /\ Depth(p) = 0
          \/ cpu' = [cpu EXCEPT ![at[p]] = PoppedOff(@)] /\ Depth(p) = 1
      BY <1>14, <2>2, Running, Apart DEF ReadFails, ReadLeaves, Release, Reads, Depth, Sync,
         InCons, InTx
    <2>4. pc'[p] \in Away
      BY <2>2 DEF Away
    <2> QED
      BY <2>1, <2>2, <2>3, <2>4, LeavesIf, Apart DEF Kinds
  <1>15. ASSUME NEW c \in Cpu, Get(c)
        PROVE  Kinds
    <2>1. Runs(c) /\ at' = at
      BY <1>15, Apart DEF Get, Runs
    <2>2. Others(c) /\ pc[c] = "get" /\ pc'[c] \in {"consspin", "txspin"}
      BY <1>15, GetMoves
    <2>3. \/ cpu' = cpu /\ Depth(c)' = Depth(c)
          \/ cpu' = [cpu EXCEPT ![CpuOf(c)] = PushedOff(@)] /\ Depth(c)' = Depth(c) + 1
          \/ cpu' = [cpu EXCEPT ![CpuOf(c)] = PoppedOff(@)] /\ Depth(c) = Depth(c)' + 1
          \/ cpu' = [cpu EXCEPT ![CpuOf(c)] = AfterWakeup(@)] /\ Depth(c)' = 1 /\ Depth(c) = 1
      BY <1>15, <2>2 DEF Get, PushOff, Depth, Sync, InCons, InTx
    <2>4. (c \in Proc => pc'[c] \notin Away) /\ (c \in Cpu => pc'[c] # "idle")
      BY <2>2 DEF Away
    <2> QED
      BY <2>1, <2>2, <2>3, <2>4, StaysIf, Apart DEF Kinds
  <1>16. ASSUME NEW c \in Cpu, Erase(c)
        PROVE  Kinds
    <2>1. Runs(c) /\ at' = at
      BY <1>16 DEF Erase, Handles
    <2>2. Others(c) /\ pc[c] = "key" /\ pc'[c] = "erase"
      BY <1>16, EraseMoves
    <2>3. \/ cpu' = cpu /\ Depth(c)' = Depth(c)
          \/ cpu' = [cpu EXCEPT ![CpuOf(c)] = PushedOff(@)] /\ Depth(c)' = Depth(c) + 1
          \/ cpu' = [cpu EXCEPT ![CpuOf(c)] = PoppedOff(@)] /\ Depth(c) = Depth(c)' + 1
          \/ cpu' = [cpu EXCEPT ![CpuOf(c)] = AfterWakeup(@)] /\ Depth(c)' = 1 /\ Depth(c) = 1
      BY <1>16, <2>2 DEF Erase, Handles, Depth, Sync, InCons, InTx
    <2>4. (c \in Proc => pc'[c] \notin Away) /\ (c \in Cpu => pc'[c] # "idle")
      BY <2>2 DEF Away
    <2> QED
      BY <2>1, <2>2, <2>3, <2>4, StaysIf, Apart DEF Kinds
  <1>17. ASSUME NEW c \in Cpu, Ignore(c)
        PROVE  Kinds
    <2>1. Runs(c) /\ at' = at
      BY <1>17 DEF Ignore, KeyDone, Handles
    <2>2. Others(c) /\ pc[c] = "key" /\ pc'[c] = "get"
      BY <1>17, IgnoreMoves
    <2>3. \/ cpu' = cpu /\ Depth(c)' = Depth(c)
          \/ cpu' = [cpu EXCEPT ![CpuOf(c)] = PushedOff(@)] /\ Depth(c)' = Depth(c) + 1
          \/ cpu' = [cpu EXCEPT ![CpuOf(c)] = PoppedOff(@)] /\ Depth(c) = Depth(c)' + 1
          \/ cpu' = [cpu EXCEPT ![CpuOf(c)] = AfterWakeup(@)] /\ Depth(c)' = 1 /\ Depth(c) = 1
      BY <1>17, <2>2 DEF Ignore, KeyDone, Release, Handles, Depth, Sync, InCons, InTx
    <2>4. (c \in Proc => pc'[c] \notin Away) /\ (c \in Cpu => pc'[c] # "idle")
      BY <2>2 DEF Away
    <2> QED
      BY <2>1, <2>2, <2>3, <2>4, StaysIf, Apart DEF Kinds
  <1>18. ASSUME NEW c \in Cpu, Swallow(c)
        PROVE  Kinds
    <2>1. Runs(c) /\ at' = at
      BY <1>18 DEF Swallow, KeyDone, Handles
    <2>2. Others(c) /\ pc[c] = "key" /\ pc'[c] = "get"
      BY <1>18, SwallowMoves
    <2>3. \/ cpu' = cpu /\ Depth(c)' = Depth(c)
          \/ cpu' = [cpu EXCEPT ![CpuOf(c)] = PushedOff(@)] /\ Depth(c)' = Depth(c) + 1
          \/ cpu' = [cpu EXCEPT ![CpuOf(c)] = PoppedOff(@)] /\ Depth(c) = Depth(c)' + 1
          \/ cpu' = [cpu EXCEPT ![CpuOf(c)] = AfterWakeup(@)] /\ Depth(c)' = 1 /\ Depth(c) = 1
      BY <1>18, <2>2 DEF Swallow, KeyDone, Release, Handles, Depth, Sync, InCons, InTx
    <2>4. (c \in Proc => pc'[c] \notin Away) /\ (c \in Cpu => pc'[c] # "idle")
      BY <2>2 DEF Away
    <2> QED
      BY <2>1, <2>2, <2>3, <2>4, StaysIf, Apart DEF Kinds
  <1>19. ASSUME NEW c \in Cpu, Echo(c)
        PROVE  Kinds
    <2>1. Runs(c) /\ at' = at
      BY <1>19 DEF Echo, Handles
    <2>2. Others(c) /\ pc[c] = "key" /\ pc'[c] \in {"store", "echo"}
      BY <1>19, EchoMoves
    <2>3. \/ cpu' = cpu /\ Depth(c)' = Depth(c)
          \/ cpu' = [cpu EXCEPT ![CpuOf(c)] = PushedOff(@)] /\ Depth(c)' = Depth(c) + 1
          \/ cpu' = [cpu EXCEPT ![CpuOf(c)] = PoppedOff(@)] /\ Depth(c) = Depth(c)' + 1
          \/ cpu' = [cpu EXCEPT ![CpuOf(c)] = AfterWakeup(@)] /\ Depth(c)' = 1 /\ Depth(c) = 1
      BY <1>19, <2>2 DEF Echo, Handles, Depth, Sync, InCons, InTx
    <2>4. (c \in Proc => pc'[c] \notin Away) /\ (c \in Cpu => pc'[c] # "idle")
      BY <2>2 DEF Away
    <2> QED
      BY <2>1, <2>2, <2>3, <2>4, StaysIf, Apart DEF Kinds
  <1>20. ASSUME NEW c \in Cpu, SyncSpin(c)
        PROVE  Kinds
    <2>1. Runs(c) /\ at' = at
      BY <1>20 DEF SyncSpin
    <2>2. Others(c) /\ pc[c] \in {"echo", "erase"} /\ pc'[c] \in Sync
      BY <1>20, SyncSpinMoves
    <2>3. \/ cpu' = cpu /\ Depth(c)' = Depth(c)
          \/ cpu' = [cpu EXCEPT ![CpuOf(c)] = PushedOff(@)] /\ Depth(c)' = Depth(c) + 1
          \/ cpu' = [cpu EXCEPT ![CpuOf(c)] = PoppedOff(@)] /\ Depth(c) = Depth(c)' + 1
          \/ cpu' = [cpu EXCEPT ![CpuOf(c)] = AfterWakeup(@)] /\ Depth(c)' = 1 /\ Depth(c) = 1
      BY <1>20, <2>2 DEF SyncSpin, PushOff, Depth, Sync, InCons, InTx
    <2>4. (c \in Proc => pc'[c] \notin Away) /\ (c \in Cpu => pc'[c] # "idle")
      BY <2>2 DEF Away, Sync
    <2> QED
      BY <2>1, <2>2, <2>3, <2>4, StaysIf, Apart DEF Kinds
  <1>21. ASSUME NEW c \in Cpu, SyncWrite(c)
        PROVE  Kinds
    <2>1. Runs(c) /\ at' = at
      BY <1>21 DEF SyncWrite
    <2>2. Others(c) /\ pc[c] \in Sync /\ pc'[c] \in {"store", "key"}
      BY <1>21, SyncWriteMoves
    <2>3. \/ cpu' = cpu /\ Depth(c)' = Depth(c)
          \/ cpu' = [cpu EXCEPT ![CpuOf(c)] = PushedOff(@)] /\ Depth(c)' = Depth(c) + 1
          \/ cpu' = [cpu EXCEPT ![CpuOf(c)] = PoppedOff(@)] /\ Depth(c) = Depth(c)' + 1
          \/ cpu' = [cpu EXCEPT ![CpuOf(c)] = AfterWakeup(@)] /\ Depth(c)' = 1 /\ Depth(c) = 1
      BY <1>21, <2>2, Apart DEF SyncWrite, Depth, Sync, InCons, InTx, CpuOf
    <2>4. (c \in Proc => pc'[c] \notin Away) /\ (c \in Cpu => pc'[c] # "idle")
      BY <2>2 DEF Away, Sync
    <2> QED
      BY <2>1, <2>2, <2>3, <2>4, StaysIf, Apart DEF Kinds
  <1>22. ASSUME NEW c \in Cpu, Store(c)
        PROVE  Kinds
    <2>1. Runs(c) /\ at' = at
      BY <1>22 DEF Store
    <2>2. Others(c) /\ pc[c] = "store" /\ pc'[c] = "get"
      BY <1>22, StoreMoves
    <2>3. \/ cpu' = cpu /\ Depth(c)' = Depth(c)
          \/ cpu' = [cpu EXCEPT ![CpuOf(c)] = PushedOff(@)] /\ Depth(c)' = Depth(c) + 1
          \/ cpu' = [cpu EXCEPT ![CpuOf(c)] = PoppedOff(@)] /\ Depth(c) = Depth(c)' + 1
          \/ cpu' = [cpu EXCEPT ![CpuOf(c)] = AfterWakeup(@)] /\ Depth(c)' = 1 /\ Depth(c) = 1
      BY <1>22, <2>2 DEF Store, Release, Depth, Sync, InCons, InTx
    <2>4. (c \in Proc => pc'[c] \notin Away) /\ (c \in Cpu => pc'[c] # "idle")
      BY <2>2 DEF Away
    <2> QED
      BY <2>1, <2>2, <2>3, <2>4, StaysIf, Apart DEF Kinds
  <1>23. ASSUME NEW c \in Cpu, Complete(c)
        PROVE  Kinds
    BY <1>23, Apart, Goes DEF Complete, Kinds, Returns
  <1>24. ASSUME NEW p \in Proc, Kill(p)
        PROVE  Kinds
    BY <1>24, Apart, Goes DEF Kill, Kinds, Rests, Sited, Away
  <1>25. ASSUME NEW p \in Writer, WriteCall(p)
        PROVE  Kinds
    <2>1. Others(p) /\ pc[p] = "user" /\ pc'[p] = "write"
      BY <1>25, WriteCallMoves
    <2>2. PICK c \in Cpu : /\ Free(c) /\ at' = [at EXCEPT ![p] = c]
                           /\ \/ cpu' = cpu /\ Depth(p)' = 0
                              \/ cpu' = [cpu EXCEPT ![c] = PushedOff(@)] /\ Depth(p)' = 1
      BY <1>25, <2>1 DEF WriteCall, Depth, Sync, InCons, InTx
    <2>3. pc[p] \in Away /\ pc'[p] \notin Away
      BY <2>1 DEF Away
    <2> QED
      BY <2>1, <2>2, <2>3, EntersIf, Apart DEF Kinds
  <1>26. ASSUME NEW p \in Reader, ReadCall(p)
        PROVE  Kinds
    <2>1. Others(p) /\ pc[p] = "user" /\ pc'[p] = "consspin"
      BY <1>26, ReadCallMoves
    <2>2. PICK c \in Cpu : /\ Free(c) /\ at' = [at EXCEPT ![p] = c]
                           /\ \/ cpu' = cpu /\ Depth(p)' = 0
                              \/ cpu' = [cpu EXCEPT ![c] = PushedOff(@)] /\ Depth(p)' = 1
      BY <1>26, <2>1 DEF ReadCall, Depth, Sync, InCons, InTx
    <2>3. pc[p] \in Away /\ pc'[p] \notin Away
      BY <2>1 DEF Away
    <2> QED
      BY <2>1, <2>2, <2>3, EntersIf, Apart DEF Kinds
  <1>27. ASSUME NEW c \in Cpu, Interrupt(c)
        PROVE  Kinds
    BY <1>27, Apart, Goes DEF Interrupt, Kinds, Takes
  <1>28. ASSUME Transmit
        PROVE  Kinds
    BY <1>28 DEF Transmit, Kinds, Rests
  <1>29. ASSUME NEW k \in left.hits, Hit(k)
        PROVE  Kinds
    BY <1>29 DEF Hit, Kinds, Rests
  <1>30. CASE UNCHANGED vars
    BY <1>30 DEF vars, Kinds, Rests
  <1> QED
    BY <1>1, <1>2, <1>3, <1>4, <1>5, <1>6, <1>7, <1>8, <1>9, <1>10, <1>11, <1>12, <1>13, <1>14,
       <1>15, <1>16, <1>17, <1>18, <1>19, <1>20, <1>21, <1>22, <1>23, <1>24, <1>25, <1>26, <1>27,
       <1>28, <1>29, <1>30 DEF Next, Step, Write, Read, Handler


\* A step of a thread, as far as the locks are concerned: it takes one, gives one, or
\* goes on as it was.
Works(t) ==
  /\ Others(t) /\ \A u \in Thread : u # t => CpuOf(u)' = CpuOf(u)
  /\ \/ /\ lock' = lock
        /\ \A m \in {"cons", "tx"} : pc'[t] \in Places(m) <=> pc[t] \in Places(m)
        /\ CpuOf(t)' = CpuOf(t) \/ pc[t] \notin InCons \cup InTx
     \/ \E l \in {"cons", "tx"} :
          /\ lock[l] = None /\ lock' = [lock EXCEPT ![l] = CpuOf(t)] /\ CpuOf(t)' = CpuOf(t)
          /\ \A m \in {"cons", "tx"} : (pc'[t] \in Places(m) <=> m = l) /\ pc[t] \notin Places(m)
     \/ \E l \in {"cons", "tx"} :
          /\ lock' = [lock EXCEPT ![l] = None]
          /\ \A m \in {"cons", "tx"} : (pc[t] \in Places(m) <=> m = l) /\ pc'[t] \notin Places(m)

\* The places under a lock.
LEMMA Under ==
  /\ \A l \in {"cons", "tx"} : Places(l) \subseteq InCons \cup InTx
  /\ \A l \in {"cons", "tx"} : Places(l) \cap Away = {} /\ "write" \notin Places(l) /\ "complete" \notin Places(l)
                              /\ "idle" \notin Places(l) /\ "get" \notin Places(l)
                              /\ "consspin" \notin Places(l) /\ "txspin" \notin Places(l)
  /\ Places("cons") = InCons /\ Places("tx") = InTx
  BY DEF Places, InCons, InTx, Away

\* One thread at most is at work under a lock.
LEMMA OneHolder ==
  ASSUME Sited, Placed, Locked, NEW l \in {"cons", "tx"}
  PROVE  /\ \A t, u \in Thread : pc[t] \in Places(l) /\ pc[u] \in Places(l) => t = u
         /\ \A t \in Thread : pc[t] \in Places(l) => lock[l] = CpuOf(t) /\ CpuOf(t) \in Cpu /\ Runs(t)
  <1>1. \A t \in Thread : pc[t] \in Places(l) => lock[l] = CpuOf(t) /\ CpuOf(t) \in Cpu /\ Runs(t)
    BY Holders, Running, Under DEF Locked
  <1>2. ASSUME NEW t \in Thread, NEW u \in Thread, pc[t] \in Places(l), pc[u] \in Places(l)
        PROVE  t = u
    <2>1. Runs(t) /\ Runs(u) /\ CpuOf(t) = CpuOf(u)
      BY <1>1, <1>2
    <2> QED
      BY <2>1, Running
  <1> QED
    BY <1>1, <1>2

\* A step of a thread keeps the locks in order.
LEMMA WorkLocked ==
  ASSUME Sited, Kept, Placed, Locked, NEW t \in Thread, Works(t)
  PROVE  Locked'
  <1>1. \A u \in Thread : u # t =>
           CpuOf(u)' = CpuOf(u) /\ \A m \in {"cons", "tx"} : pc'[u] \in Places(m) <=> pc[u] \in Places(m)
    BY Under DEF Works, Others, Away
  <1>2. CASE /\ lock' = lock
             /\ \A m \in {"cons", "tx"} : pc'[t] \in Places(m) <=> pc[t] \in Places(m)
             /\ CpuOf(t)' = CpuOf(t) \/ pc[t] \notin InCons \cup InTx
    <2>1. \A l \in {"cons", "tx"} : pc'[t] \in Places(l) => lock'[l] = CpuOf(t)'
      BY <1>2, Under DEF Locked
    <2>2. \A l \in {"cons", "tx"} : \A u \in Thread : pc'[u] \in Places(l) => lock'[l] = CpuOf(u)'
      BY <1>1, <1>2, <2>1 DEF Locked
    <2>3. \A l \in {"cons", "tx"} : lock'[l] # None => \E u \in Thread : pc'[u] \in Places(l)
      BY <1>1, <1>2 DEF Locked
    <2> QED
      BY <2>2, <2>3 DEF Locked
  <1>3. ASSUME NEW l \in {"cons", "tx"}, lock[l] = None, lock' = [lock EXCEPT ![l] = CpuOf(t)], CpuOf(t)' = CpuOf(t),
               \A m \in {"cons", "tx"} : (pc'[t] \in Places(m) <=> m = l) /\ pc[t] \notin Places(m)
        PROVE  Locked'
    <2>1. lock'[l] = CpuOf(t) /\ \A m \in {"cons", "tx"} : m # l => lock'[m] = lock[m]
      BY <1>3 DEF Kept
    <2>2. \A u \in Thread : pc[u] \notin Places(l)
      BY <1>3, OneHolder, Apart
    <2>3. \A m \in {"cons", "tx"} : \A u \in Thread : pc'[u] \in Places(m) => lock'[m] = CpuOf(u)'
      BY <1>1, <1>3, <2>1, <2>2 DEF Locked
    <2>4. \A m \in {"cons", "tx"} : lock'[m] # None => \E u \in Thread : pc'[u] \in Places(m)
      BY <1>1, <1>3, <2>1 DEF Locked
    <2> QED
      BY <2>3, <2>4 DEF Locked
  <1>4. ASSUME NEW l \in {"cons", "tx"}, lock' = [lock EXCEPT ![l] = None],
               \A m \in {"cons", "tx"} : (pc[t] \in Places(m) <=> m = l) /\ pc'[t] \notin Places(m)
        PROVE  Locked'
    <2>1. lock'[l] = None /\ \A m \in {"cons", "tx"} : m # l => lock'[m] = lock[m]
      BY <1>4 DEF Kept
    <2>2. \A u \in Thread : u # t => pc[u] \notin Places(l)
      BY <1>4, OneHolder
    <2>3. \A m \in {"cons", "tx"} : \A u \in Thread : pc'[u] \in Places(m) => lock'[m] = CpuOf(u)'
      BY <1>1, <1>4, <2>1, <2>2 DEF Locked
    <2>4. \A m \in {"cons", "tx"} : lock'[m] # None => \E u \in Thread : pc'[u] \in Places(m)
      BY <1>1, <1>4, <2>1 DEF Locked
    <2> QED
      BY <2>3, <2>4 DEF Locked
  <1> QED
    BY <1>2, <1>3, <1>4 DEF Works
\* Each step keeps the locks in order.
LEMMA LockedStep ==
  ASSUME Sited, Kept, Placed, Locked, [Next]_vars
  PROVE  Locked'
  <1>1. ASSUME NEW t \in Thread, Acquire(t)
        PROVE  Locked'
    <2>1. \E l \in {"cons", "tx"} : /\ lock[l] = None /\ lock' = [lock EXCEPT ![l] = CpuOf(t)]
                                       /\ pc[t] = (IF l = "cons" THEN "consspin" ELSE "txspin")
                                       /\ pc'[t] \in (IF l = "cons" THEN {"key", "read"} ELSE {"start", "put"})
      BY <1>1, Goes DEF Acquire, Spinning
    <2>2. Others(t) /\ \A u \in Thread : CpuOf(u)' = CpuOf(u)
      BY <1>1, AcquireMoves DEF Acquire, CpuOf
    <2>3. Works(t)
      BY <2>1, <2>2 DEF Works, Places, InCons, InTx
    <2> QED
      BY <2>3, WorkLocked
  <1>2. ASSUME NEW t \in Thread, StartNext(t)
        PROVE  Locked'
    <2>1. Others(t) /\ pc[t] = "start" /\ pc'[t] = "thr"
      BY <1>2, StartNextMoves
    <2>2. \A u \in Thread : CpuOf(u)' = CpuOf(u)
      BY <1>2 DEF StartNext, CpuOf
    <2>3. lock' = lock
      BY <1>2 DEF StartNext
    <2>4. \A m \in {"cons", "tx"} : pc'[t] \in Places(m) <=> pc[t] \in Places(m)
      BY <2>1, Under DEF InCons, InTx, Away
    <2>5. Works(t)
      BY <2>1, <2>2, <2>3, <2>4 DEF Works
    <2> QED
      BY <2>5, WorkLocked
  <1>3. ASSUME NEW t \in Thread, StartWrites(t)
        PROVE  Locked'
    <2>1. Others(t) /\ pc[t] = "thr" /\ pc'[t] = "start"
      BY <1>3, StartWritesMoves
    <2>2. \A u \in Thread : CpuOf(u)' = CpuOf(u)
      BY <1>3 DEF StartWrites, CpuOf
    <2>3. lock' = lock
      BY <1>3 DEF StartWrites
    <2>4. \A m \in {"cons", "tx"} : pc'[t] \in Places(m) <=> pc[t] \in Places(m)
      BY <2>1, Under DEF InCons, InTx, Away
    <2>5. Works(t)
      BY <2>1, <2>2, <2>3, <2>4 DEF Works
    <2> QED
      BY <2>5, WorkLocked
  <1>4. ASSUME NEW t \in Thread, StartEnds(t)
        PROVE  Locked'
    <2>1. Others(t) /\ pc[t] = "start" /\ pc'[t] \in {"complete", "write"}
      BY <1>4, StartEndsMoves
    <2>2. \A u \in Thread : CpuOf(u)' = CpuOf(u)
      BY <1>4 DEF StartEnds, CpuOf
    <2>3. lock' = [lock EXCEPT !["tx"] = None]
      BY <1>4 DEF StartEnds, Release
    <2>4. Works(t)
      BY <2>1, <2>2, <2>3 DEF Works, Places, InCons, InTx, Away
    <2> QED
      BY <2>4, WorkLocked
  <1>5. ASSUME NEW p \in Proc, Dispatch(p)
        PROVE  Locked'
    <2>1. Others(p) /\ pc[p] \in {"rwoken", "wwoken"} /\ pc'[p] \in {"consspin", "txspin"}
      BY <1>5, DispatchMoves
    <2>2. \A u \in Thread : u # p => CpuOf(u)' = CpuOf(u)
      BY <1>5, Apart DEF Dispatch, CpuOf, Placed, Thread
    <2>3. lock' = lock
      BY <1>5 DEF Dispatch
    <2>4. Works(p)
      BY <2>1, <2>2, <2>3 DEF Works, Places, InCons, InTx, Away
    <2> QED
      BY <2>4, WorkLocked, Apart
  <1>6. ASSUME NEW p \in Writer, PutCall(p)
        PROVE  Locked'
    <2>1. Others(p) /\ pc[p] = "write" /\ pc'[p] = "txspin"
      BY <1>6, PutCallMoves
    <2>2. \A u \in Thread : CpuOf(u)' = CpuOf(u)
      BY <1>6 DEF PutCall, CpuOf
    <2>3. lock' = lock
      BY <1>6 DEF PutCall
    <2>4. \A m \in {"cons", "tx"} : pc'[p] \in Places(m) <=> pc[p] \in Places(m)
      BY <2>1, Under DEF InCons, InTx, Away
    <2>5. Works(p)
      BY <2>1, <2>2, <2>3, <2>4, Apart DEF Works
    <2> QED
      BY <2>5, WorkLocked, Apart
  <1>7. ASSUME NEW p \in Writer, PutSleeps(p)
        PROVE  Locked'
    <2>1. Others(p) /\ pc[p] = "put" /\ pc'[p] = "wsleep"
      BY <1>7, PutSleepsMoves
    <2>2. \A u \in Thread : u # p => CpuOf(u)' = CpuOf(u)
      BY <1>7, Apart DEF PutSleeps, CpuOf, Placed, Thread, Sleep
    <2>3. lock' = [lock EXCEPT !["tx"] = None]
      BY <1>7 DEF PutSleeps, Sleep
    <2>4. Works(p)
      BY <2>1, <2>2, <2>3 DEF Works, Places, InCons, InTx, Away
    <2> QED
      BY <2>4, WorkLocked, Apart
  <1>8. ASSUME NEW p \in Writer, Put(p)
        PROVE  Locked'
    <2>1. Others(p) /\ pc[p] = "put" /\ pc'[p] = "start"
      BY <1>8, PutMoves
    <2>2. \A u \in Thread : CpuOf(u)' = CpuOf(u)
      BY <1>8 DEF Put, CpuOf
    <2>3. lock' = lock
      BY <1>8 DEF Put
    <2>4. \A m \in {"cons", "tx"} : pc'[p] \in Places(m) <=> pc[p] \in Places(m)
      BY <2>1, Under DEF InCons, InTx, Away
    <2>5. Works(p)
      BY <2>1, <2>2, <2>3, <2>4, Apart DEF Works
    <2> QED
      BY <2>5, WorkLocked, Apart
  <1>9. ASSUME NEW p \in Writer, WriteReturns(p)
        PROVE  Locked'
    <2>1. Others(p) /\ pc[p] = "write" /\ pc'[p] \in {"dead", "user"}
      BY <1>9, WriteReturnsMoves
    <2>2. \A u \in Thread : u # p => CpuOf(u)' = CpuOf(u)
      BY <1>9, Apart DEF WriteReturns, CpuOf, Placed, Thread
    <2>3. lock' = lock
      BY <1>9 DEF WriteReturns
    <2>4. Works(p)
      BY <2>1, <2>2, <2>3 DEF Works, Places, InCons, InTx, Away
    <2> QED
      BY <2>4, WorkLocked, Apart
  <1>10. ASSUME NEW p \in Reader, ReadSleeps(p)
        PROVE  Locked'
    <2>1. Others(p) /\ pc[p] = "read" /\ pc'[p] = "rsleep"
      BY <1>10, ReadSleepsMoves
    <2>2. \A u \in Thread : u # p => CpuOf(u)' = CpuOf(u)
      BY <1>10, Apart DEF ReadSleeps, CpuOf, Placed, Thread, Sleep
    <2>3. lock' = [lock EXCEPT !["cons"] = None]
      BY <1>10 DEF ReadSleeps, Sleep
    <2>4. Works(p)
      BY <2>1, <2>2, <2>3 DEF Works, Places, InCons, InTx, Away
    <2> QED
      BY <2>4, WorkLocked, Apart
  <1>11. ASSUME NEW p \in Reader, ReadStops(p)
        PROVE  Locked'
    <2>1. Others(p) /\ pc[p] = "read" /\ pc'[p] \in {"dead", "user"}
      BY <1>11, ReadStopsMoves
    <2>2. \A u \in Thread : u # p => CpuOf(u)' = CpuOf(u)
      BY <1>11, Apart DEF ReadStops, CpuOf, Placed, Thread, ReadLeaves
    <2>3. lock' = [lock EXCEPT !["cons"] = None]
      BY <1>11 DEF ReadStops, ReadLeaves, Release
    <2>4. Works(p)
      BY <2>1, <2>2, <2>3 DEF Works, Places, InCons, InTx, Away
    <2> QED
      BY <2>4, WorkLocked, Apart
  <1>12. ASSUME NEW p \in Reader, ReadEnd(p)
        PROVE  Locked'
    <2>1. Others(p) /\ pc[p] = "read" /\ pc'[p] \in {"dead", "user"}
      BY <1>12, ReadEndMoves
    <2>2. \A u \in Thread : u # p => CpuOf(u)' = CpuOf(u)
      BY <1>12, Apart DEF ReadEnd, CpuOf, Placed, Thread, ReadLeaves
    <2>3. lock' = [lock EXCEPT !["cons"] = None]
      BY <1>12 DEF ReadEnd, ReadLeaves, Release
    <2>4. Works(p)
      BY <2>1, <2>2, <2>3 DEF Works, Places, InCons, InTx, Away
    <2> QED
      BY <2>4, WorkLocked, Apart
  <1>13. ASSUME NEW p \in Reader, ReadChar(p)
        PROVE  Locked'
    <2>1. Others(p) /\ pc[p] = "read" /\ pc'[p] = "read"
      BY <1>13, ReadCharMoves
    <2>2. \A u \in Thread : CpuOf(u)' = CpuOf(u)
      BY <1>13 DEF ReadChar, CpuOf
    <2>3. lock' = lock
      BY <1>13 DEF ReadChar
    <2>4. \A m \in {"cons", "tx"} : pc'[p] \in Places(m) <=> pc[p] \in Places(m)
      BY <2>1, Under DEF InCons, InTx, Away
    <2>5. Works(p)
      BY <2>1, <2>2, <2>3, <2>4, Apart DEF Works
    <2> QED
      BY <2>5, WorkLocked, Apart
  <1>14. ASSUME NEW p \in Reader, ReadFails(p)
        PROVE  Locked'
    <2>1. Others(p) /\ pc[p] = "read" /\ pc'[p] \in {"dead", "user"}
      BY <1>14, ReadFailsMoves
    <2>2. \A u \in Thread : u # p => CpuOf(u)' = CpuOf(u)
      BY <1>14, Apart DEF ReadFails, CpuOf, Placed, Thread, ReadLeaves
    <2>3. lock' = [lock EXCEPT !["cons"] = None]
      BY <1>14 DEF ReadFails, ReadLeaves, Release
    <2>4. Works(p)
      BY <2>1, <2>2, <2>3 DEF Works, Places, InCons, InTx, Away
    <2> QED
      BY <2>4, WorkLocked, Apart
  <1>15. ASSUME NEW c \in Cpu, Get(c)
        PROVE  Locked'
    <2>1. Others(c) /\ pc[c] = "get" /\ pc'[c] \in {"consspin", "txspin"}
      BY <1>15, GetMoves
    <2>2. \A u \in Thread : CpuOf(u)' = CpuOf(u)
      BY <1>15 DEF Get, CpuOf
    <2>3. lock' = lock
      BY <1>15 DEF Get
    <2>4. \A m \in {"cons", "tx"} : pc'[c] \in Places(m) <=> pc[c] \in Places(m)
      BY <2>1, Under DEF InCons, InTx, Away
    <2>5. Works(c)
      BY <2>1, <2>2, <2>3, <2>4, Apart DEF Works
    <2> QED
      BY <2>5, WorkLocked, Apart
  <1>16. ASSUME NEW c \in Cpu, Erase(c)
        PROVE  Locked'
    <2>1. Others(c) /\ pc[c] = "key" /\ pc'[c] = "erase"
      BY <1>16, EraseMoves
    <2>2. \A u \in Thread : CpuOf(u)' = CpuOf(u)
      BY <1>16 DEF Erase, CpuOf
    <2>3. lock' = lock
      BY <1>16 DEF Erase
    <2>4. \A m \in {"cons", "tx"} : pc'[c] \in Places(m) <=> pc[c] \in Places(m)
      BY <2>1, Under DEF InCons, InTx, Away
    <2>5. Works(c)
      BY <2>1, <2>2, <2>3, <2>4, Apart DEF Works
    <2> QED
      BY <2>5, WorkLocked, Apart
  <1>17. ASSUME NEW c \in Cpu, Ignore(c)
        PROVE  Locked'
    <2>1. Others(c) /\ pc[c] = "key" /\ pc'[c] = "get"
      BY <1>17, IgnoreMoves
    <2>2. \A u \in Thread : CpuOf(u)' = CpuOf(u)
      BY <1>17 DEF Ignore, CpuOf, KeyDone
    <2>3. lock' = [lock EXCEPT !["cons"] = None]
      BY <1>17 DEF Ignore, KeyDone, Release
    <2>4. Works(c)
      BY <2>1, <2>2, <2>3 DEF Works, Places, InCons, InTx, Away
    <2> QED
      BY <2>4, WorkLocked, Apart
  <1>18. ASSUME NEW c \in Cpu, Swallow(c)
        PROVE  Locked'
    <2>1. Others(c) /\ pc[c] = "key" /\ pc'[c] = "get"
      BY <1>18, SwallowMoves
    <2>2. \A u \in Thread : CpuOf(u)' = CpuOf(u)
      BY <1>18 DEF Swallow, CpuOf, KeyDone
    <2>3. lock' = [lock EXCEPT !["cons"] = None]
      BY <1>18 DEF Swallow, KeyDone, Release
    <2>4. Works(c)
      BY <2>1, <2>2, <2>3 DEF Works, Places, InCons, InTx, Away
    <2> QED
      BY <2>4, WorkLocked, Apart
  <1>19. ASSUME NEW c \in Cpu, Echo(c)
        PROVE  Locked'
    <2>1. Others(c) /\ pc[c] = "key" /\ pc'[c] \in {"store", "echo"}
      BY <1>19, EchoMoves
    <2>2. \A u \in Thread : CpuOf(u)' = CpuOf(u)
      BY <1>19 DEF Echo, CpuOf
    <2>3. lock' = lock
      BY <1>19 DEF Echo
    <2>4. \A m \in {"cons", "tx"} : pc'[c] \in Places(m) <=> pc[c] \in Places(m)
      BY <2>1, Under DEF InCons, InTx, Away
    <2>5. Works(c)
      BY <2>1, <2>2, <2>3, <2>4, Apart DEF Works
    <2> QED
      BY <2>5, WorkLocked, Apart
  <1>20. ASSUME NEW c \in Cpu, SyncSpin(c)
        PROVE  Locked'
    <2>1. Others(c) /\ pc[c] \in {"echo", "erase"} /\ pc'[c] \in Sync
      BY <1>20, SyncSpinMoves
    <2>2. \A u \in Thread : CpuOf(u)' = CpuOf(u)
      BY <1>20 DEF SyncSpin, CpuOf
    <2>3. lock' = lock
      BY <1>20 DEF SyncSpin
    <2>4. \A m \in {"cons", "tx"} : pc'[c] \in Places(m) <=> pc[c] \in Places(m)
      BY <2>1, Under DEF InCons, InTx, Away, Sync
    <2>5. Works(c)
      BY <2>1, <2>2, <2>3, <2>4, Apart DEF Works
    <2> QED
      BY <2>5, WorkLocked, Apart
  <1>21. ASSUME NEW c \in Cpu, SyncWrite(c)
        PROVE  Locked'
    <2>1. Others(c) /\ pc[c] \in Sync /\ pc'[c] \in {"store", "key"}
      BY <1>21, SyncWriteMoves
    <2>2. \A u \in Thread : CpuOf(u)' = CpuOf(u)
      BY <1>21 DEF SyncWrite, CpuOf
    <2>3. lock' = lock
      BY <1>21 DEF SyncWrite
    <2>4. \A m \in {"cons", "tx"} : pc'[c] \in Places(m) <=> pc[c] \in Places(m)
      BY <2>1, Under DEF InCons, InTx, Away, Sync
    <2>5. Works(c)
      BY <2>1, <2>2, <2>3, <2>4, Apart DEF Works
    <2> QED
      BY <2>5, WorkLocked, Apart
  <1>22. ASSUME NEW c \in Cpu, Store(c)
        PROVE  Locked'
    <2>1. Others(c) /\ pc[c] = "store" /\ pc'[c] = "get"
      BY <1>22, StoreMoves
    <2>2. \A u \in Thread : CpuOf(u)' = CpuOf(u)
      BY <1>22 DEF Store, CpuOf
    <2>3. lock' = [lock EXCEPT !["cons"] = None]
      BY <1>22 DEF Store, Release
    <2>4. Works(c)
      BY <2>1, <2>2, <2>3 DEF Works, Places, InCons, InTx, Away
    <2> QED
      BY <2>4, WorkLocked, Apart
  <1>23. ASSUME NEW c \in Cpu, Complete(c)
        PROVE  Locked'
    <2>1. Others(c) /\ pc[c] = "complete" /\ pc'[c] = "idle"
      BY <1>23, CompleteMoves
    <2>2. \A u \in Thread : CpuOf(u)' = CpuOf(u)
      BY <1>23 DEF Complete, CpuOf
    <2>3. lock' = lock
      BY <1>23 DEF Complete
    <2>4. \A m \in {"cons", "tx"} : pc'[c] \in Places(m) <=> pc[c] \in Places(m)
      BY <2>1, Under DEF InCons, InTx, Away
    <2>5. Works(c)
      BY <2>1, <2>2, <2>3, <2>4, Apart DEF Works
    <2> QED
      BY <2>5, WorkLocked, Apart
  <1>24. ASSUME NEW p \in Proc, Kill(p)
        PROVE  Locked'
    <2>1. Others(p) /\ (pc'[p] = pc[p] \/ (pc[p] \in {"user", "rsleep", "wsleep"} /\ pc'[p] \in {"dead", "rwoken", "wwoken"}))
      BY <1>24, KillMoves
    <2>2. \A u \in Thread : CpuOf(u)' = CpuOf(u)
      BY <1>24 DEF Kill, CpuOf
    <2>3. lock' = lock
      BY <1>24 DEF Kill
    <2>4. \A m \in {"cons", "tx"} : pc'[p] \in Places(m) <=> pc[p] \in Places(m)
      BY <2>1, Under DEF InCons, InTx, Away
    <2>5. Works(p)
      BY <2>1, <2>2, <2>3, <2>4, Apart DEF Works
    <2> QED
      BY <2>5, WorkLocked, Apart
  <1>25. ASSUME NEW p \in Writer, WriteCall(p)
        PROVE  Locked'
    <2>1. Others(p) /\ pc[p] = "user" /\ pc'[p] = "write"
      BY <1>25, WriteCallMoves
    <2>2. \A u \in Thread : u # p => CpuOf(u)' = CpuOf(u)
      BY <1>25, Apart DEF WriteCall, CpuOf, Placed, Thread
    <2>3. lock' = lock
      BY <1>25 DEF WriteCall
    <2>4. Works(p)
      BY <2>1, <2>2, <2>3 DEF Works, Places, InCons, InTx, Away
    <2> QED
      BY <2>4, WorkLocked, Apart
  <1>26. ASSUME NEW p \in Reader, ReadCall(p)
        PROVE  Locked'
    <2>1. Others(p) /\ pc[p] = "user" /\ pc'[p] = "consspin"
      BY <1>26, ReadCallMoves
    <2>2. \A u \in Thread : u # p => CpuOf(u)' = CpuOf(u)
      BY <1>26, Apart DEF ReadCall, CpuOf, Placed, Thread
    <2>3. lock' = lock
      BY <1>26 DEF ReadCall
    <2>4. Works(p)
      BY <2>1, <2>2, <2>3 DEF Works, Places, InCons, InTx, Away
    <2> QED
      BY <2>4, WorkLocked, Apart
  <1>27. ASSUME NEW c \in Cpu, Interrupt(c)
        PROVE  Locked'
    <2>1. Others(c) /\ pc[c] = "idle" /\ pc'[c] = "get"
      BY <1>27, InterruptMoves
    <2>2. \A u \in Thread : CpuOf(u)' = CpuOf(u)
      BY <1>27 DEF Interrupt, CpuOf
    <2>3. lock' = lock
      BY <1>27 DEF Interrupt
    <2>4. \A m \in {"cons", "tx"} : pc'[c] \in Places(m) <=> pc[c] \in Places(m)
      BY <2>1, Under DEF InCons, InTx, Away
    <2>5. Works(c)
      BY <2>1, <2>2, <2>3, <2>4, Apart DEF Works
    <2> QED
      BY <2>5, WorkLocked, Apart
  <1>28. ASSUME Transmit
        PROVE  Locked'
    BY <1>28 DEF Transmit, Locked, CpuOf
  <1>29. ASSUME NEW k \in left.hits, Hit(k)
        PROVE  Locked'
    BY <1>29 DEF Hit, Locked, CpuOf
  <1>30. CASE UNCHANGED vars
    BY <1>30 DEF vars, Locked, CpuOf
  <1> QED
    BY <1>1, <1>2, <1>3, <1>4, <1>5, <1>6, <1>7, <1>8, <1>9, <1>10, <1>11, <1>12, <1>13, <1>14,
       <1>15, <1>16, <1>17, <1>18, <1>19, <1>20, <1>21, <1>22, <1>23, <1>24, <1>25, <1>26, <1>27,
       <1>28, <1>29, <1>30 DEF Next, Step, Write, Read, Handler

-----------------------------------------------------------------------------
(* What the device holds *)

\* The device has room for a byte of each of two CPUs, where there are two.
LEMMA DeviceSize ==
  /\ FifoSize \in Nat \ {0}
  /\ \A a, b \in Cpu : a # b => FifoSize >= 2
  BY ConsoleAssumption DEF ConsoleAssumption

\* Who is about to write to the device.
SameHands == \A u \in Thread : pc'[u] = "thr" <=> pc[u] = "thr"
SameEcho  == \A c \in Cpu : pc'[c] \in Sync <=> pc[c] \in Sync

\* Most steps take nobody to the device's register nor from it.
LEMMA Hands ==
  ASSUME NEW t \in Thread, Others(t)
  PROVE  /\ (pc'[t] = "thr" <=> pc[t] = "thr") => SameHands
         /\ (pc'[t] \in Sync <=> pc[t] \in Sync) => SameEcho
  BY Apart DEF Others, SameHands, SameEcho, Sync

\* ... and then nothing changes for it.
LEMMA QuietFitting ==
  ASSUME Fitting, fifo' = fifo, SameHands, SameEcho
  PROVE  Fitting'
  <1>1. Coming' = Coming /\ Echoing' = Echoing
    BY DEF Coming, Echoing, SameHands, SameEcho
  <1> QED
    BY <1>1 DEF Fitting, SameHands

\* What is appended to a sequence of numbers.
LEMMA Appending ==
  ASSUME NEW s \in Seq(Nat), NEW x \in Nat
  PROVE  /\ Append(s, x) \in Seq(Nat) /\ Len(Append(s, x)) = Len(s) + 1
         /\ DOMAIN Append(s, x) = 1 .. Len(s) + 1 /\ DOMAIN s = 1 .. Len(s) /\ Len(s) \in Nat
         /\ Append(s, x)[Len(s) + 1] = x /\ \A k \in 1 .. Len(s) : Append(s, x)[k] = s[k]
  OBVIOUS

\* What is left of a sequence of numbers.
LEMMA Shifting ==
  ASSUME NEW s \in Seq(Nat), s # <<>>
  PROVE  /\ Head(s) \in Nat /\ Head(s) = s[1] /\ Tail(s) \in Seq(Nat) /\ Len(s) >= 1 /\ Len(s) \in Nat
         /\ Len(Tail(s)) = Len(s) - 1 /\ DOMAIN Tail(s) = 1 .. Len(s) - 1 /\ DOMAIN s = 1 .. Len(s)
         /\ \A k \in 1 .. Len(s) - 1 : Tail(s)[k] = s[k + 1]
  OBVIOUS

\* A byte of the ring is taken for the device, which is idle.
LEMMA NextFitting ==
  ASSUME Sited, Placed, Locked, Fitting, NEW t \in Thread, StartNext(t)
  PROVE  Fitting'
  <1>1. Runs(t) /\ Others(t) /\ pc[t] = "start" /\ pc'[t] = "thr" /\ fifo' = fifo /\ fifo = <<>>
    BY StartNextMoves DEF StartNext, Idle, device
  <1>2. SameEcho
    BY <1>1, Hands DEF Sync
  <1>3. Coming' = 1 /\ Echoing' = Echoing /\ Len(fifo) = 0
    BY <1>1, <1>2 DEF Coming, Echoing, SameEcho
  <1>4. 1 + Echoing <= FifoSize
    <2>1. CpuOf(t) \in Cpu
      BY <1>1, Running
    <2>2. CASE \E c \in Cpu : pc[c] \in Sync
      <3>1. PICK c \in Cpu : pc[c] \in Sync
        BY <2>2
      <3>2. Runs(c) /\ c \in Thread /\ CpuOf(c) = c /\ c # t
        BY <3>1, <1>1, Apart DEF Runs, CpuOf, Sync
      <3>3. CpuOf(t) # c
        BY <3>2, <1>1, Running
      <3> QED
        BY <2>1, <2>2, <3>3, DeviceSize DEF Echoing
    <2>3. CASE ~\E c \in Cpu : pc[c] \in Sync
      BY <2>1, <2>3, DeviceSize DEF Echoing
    <2> QED
      BY <2>2, <2>3
  <1>5. DOMAIN fifo = {} /\ fifo \in Seq(Nat)
    BY <1>1
  <1> QED
    BY <1>1, <1>3, <1>4, <1>5, DeviceSize DEF Fitting

\* ... and written.
LEMMA WriteFitting ==
  ASSUME Sited, Placed, Locked, Fitting, NEW t \in Thread, StartWrites(t), reg[t] \in Nat
  PROVE  /\ Fitting' /\ fifo' = Append(fifo, reg[t])
         /\ \A u \in Thread : pc'[u] # "thr"
         /\ \A u \in Thread : pc[u] = "thr" => u = t
  <1>1. Others(t) /\ pc[t] = "thr" /\ pc'[t] = "start"
    BY StartWritesMoves
  <1>2. SameEcho
    BY <1>1, Hands DEF Sync
  <1>3. \A u \in Thread : pc[u] = "thr" => u = t
    BY <1>1, OneHolder, Under DEF InTx
  <1>4. \A u \in Thread : pc'[u] # "thr"
    BY <1>1, <1>3 DEF Others
  <1>5. Coming' = 0 /\ Coming = 1 /\ Echoing' = Echoing /\ Echoing \in {0, 1}
    BY <1>1, <1>2, <1>4 DEF Coming, Echoing, SameEcho
  <1>6. fifo' = Append(fifo, reg[t]) /\ fifo \in Seq(Nat) /\ Len(fifo) \in Nat
    BY <1>5, DeviceSize DEF StartWrites, WriteTHR, Fitting
  <1>7. \A k \in DOMAIN fifo : fifo[k] = 0
    BY <1>1 DEF Fitting
  <1>8. Fitting'
    BY <1>4, <1>5, <1>6, <1>7, DeviceSize, Appending DEF Fitting
  <1> QED
    BY <1>3, <1>4, <1>6, <1>8

\* The echo waits for an idle device,
LEMMA SpinFitting ==
  ASSUME Sited, Placed, Locked, Fitting, NEW c \in Cpu, SyncSpin(c)
  PROVE  Fitting'
  <1>1. Runs(c) /\ Others(c) /\ pc[c] \in {"echo", "erase"} /\ pc'[c] \in Sync /\ fifo' = fifo /\ fifo = <<>>
    BY SyncSpinMoves DEF SyncSpin, Idle, device
  <1>2. SameHands
    BY <1>1, Hands, Apart DEF Sync
  <1>3. Coming' = Coming /\ Echoing' = 1 /\ Len(fifo) = 0
    BY <1>1, <1>2 DEF Coming, Echoing, SameHands
  <1>4. Coming + 1 <= FifoSize
    <2>1. CASE \E t \in Thread : pc[t] = "thr"
      <3>1. PICK t \in Thread : pc[t] = "thr"
        BY <2>1
      <3>2. Runs(t) /\ t # c
        BY <3>1, <1>1, Holders DEF InTx
      <3>3. CpuOf(t) \in Cpu /\ CpuOf(t) # c
        BY <3>2, <1>1, Running, Apart
      <3> QED
        BY <2>1, <3>3, DeviceSize DEF Coming
    <2>2. CASE ~\E t \in Thread : pc[t] = "thr"
      BY <2>2, DeviceSize DEF Coming
    <2> QED
      BY <2>1, <2>2
  <1>5. DOMAIN fifo = {} /\ fifo \in Seq(Nat)
    BY <1>1
  <1>6. Len(fifo') + Coming' + Echoing' <= FifoSize
    BY <1>1, <1>3, <1>4, DeviceSize DEF Coming
  <1> QED
    BY <1>1, <1>5, <1>6 DEF Fitting

\* ... and is written to it.
LEMMA EchoFitting ==
  ASSUME Sited, Placed, Locked, Fitting, NEW c \in Cpu, SyncWrite(c)
  PROVE  Fitting' /\ fifo' = Append(fifo, 0) /\ SameHands
  <1>1. Others(c) /\ pc[c] \in Sync /\ pc'[c] \in {"store", "key"}
    BY SyncWriteMoves
  <1>2. SameHands
    BY <1>1, Hands, Apart DEF Sync
  <1>3. \A d \in Cpu : pc'[d] \notin Sync
    <2>1. \A d \in Cpu : pc[d] \in Sync => d = c
      BY <1>1, OneHolder, Under, Apart DEF InCons, Sync
    <2> QED
      BY <1>1, <2>1, Apart DEF Others, Sync
  <1>4. Echoing' = 0 /\ Echoing = 1 /\ Coming' = Coming /\ Coming \in {0, 1}
    BY <1>1, <1>2, <1>3 DEF Coming, Echoing, SameHands
  <1>5. fifo' = Append(fifo, 0) /\ fifo \in Seq(Nat) /\ Len(fifo) \in Nat
    BY <1>4, DeviceSize DEF SyncWrite, WriteTHR, Fitting
  <1>6. Fitting'
    <2>1. fifo' \in Seq(Nat) /\ Len(fifo') + Coming' + Echoing' <= FifoSize
      BY <1>4, <1>5, DeviceSize, Appending DEF Fitting
    <2>2. DOMAIN fifo' = 1 .. Len(fifo) + 1 /\ DOMAIN fifo = 1 .. Len(fifo)
          /\ fifo'[Len(fifo) + 1] = 0 /\ \A k \in 1 .. Len(fifo) : fifo'[k] = fifo[k]
      BY <1>5, Appending
    <2>3. \A k \in DOMAIN fifo' : k \in DOMAIN fifo \/ fifo'[k] = 0
      BY <1>5, <2>2
    <2>4. (\E u \in Thread : pc'[u] = "thr") => \A k \in DOMAIN fifo' : fifo'[k] = 0
      BY <1>2, <2>2, <2>3 DEF SameHands, Fitting
    <2>5. \A j, k \in DOMAIN fifo' : fifo'[j] # 0 /\ fifo'[k] # 0 => j = k
      BY <2>2, <2>3 DEF Fitting
    <2> QED
      BY <2>1, <2>4, <2>5 DEF Fitting
  <1> QED
    BY <1>2, <1>5, <1>6

\* A byte leaves the device.
LEMMA TransmitFitting ==
  ASSUME Fitting, Transmit
  PROVE  Fitting'
  <1>1. fifo \in Seq(Nat) /\ fifo # <<>> /\ fifo' = Tail(fifo) /\ pc' = pc
    BY DEF Transmit, Fitting
  <1>2. Coming' = Coming /\ Echoing' = Echoing /\ Coming \in Nat /\ Echoing \in Nat
    BY <1>1 DEF Coming, Echoing
  <1>3. fifo' \in Seq(Nat) /\ Len(fifo') = Len(fifo) - 1 /\ Len(fifo) \in Nat /\ DOMAIN fifo' = 1 .. Len(fifo) - 1
        /\ DOMAIN fifo = 1 .. Len(fifo) /\ \A k \in 1 .. Len(fifo) - 1 : fifo'[k] = fifo[k + 1]
    BY <1>1, Shifting
  <1>4. \A k \in DOMAIN fifo' : k + 1 \in DOMAIN fifo /\ fifo'[k] = fifo[k + 1]
    BY <1>3
  <1>5. (\E u \in Thread : pc'[u] = "thr") => \A k \in DOMAIN fifo' : fifo'[k] = 0
    BY <1>1, <1>4 DEF Fitting
  <1>6. \A j, k \in DOMAIN fifo' : fifo'[j] # 0 /\ fifo'[k] # 0 => j = k
    <2>1. SUFFICES ASSUME NEW j \in DOMAIN fifo', NEW k \in DOMAIN fifo', fifo'[j] # 0, fifo'[k] # 0
                   PROVE  j = k
      OBVIOUS
    <2>2. j + 1 = k + 1
      BY <2>1, <1>4 DEF Fitting
    <2> QED
      BY <2>2, <1>3
  <1>7. Len(fifo') + Coming' + Echoing' <= FifoSize
    BY <1>2, <1>3, DeviceSize DEF Fitting
  <1> QED
    BY <1>3, <1>5, <1>6, <1>7 DEF Fitting
\* The device never loses a byte.
LEMMA FittingStep ==
  ASSUME Sited, Placed, Locked, Fitting, Numbered, [Next]_vars
  PROVE  Fitting'
  <1>1. ASSUME NEW t \in Thread, Acquire(t)
        PROVE  Fitting'
    <2>1. Others(t) /\ pc[t] \in {"consspin", "txspin"} /\ pc'[t] \in {"key", "read", "start", "put"}
      BY <1>1, AcquireMoves
    <2>2. SameHands /\ SameEcho
      BY <2>1, Hands DEF Sync
    <2>3. fifo' = fifo
      BY <1>1 DEF Acquire, device
    <2> QED
      BY <2>2, <2>3, QuietFitting
  <1>2. ASSUME NEW t \in Thread, StartNext(t)
        PROVE  Fitting'
    BY <1>2, NextFitting
  <1>3. ASSUME NEW t \in Thread, StartWrites(t)
        PROVE  Fitting'
    <2>1. reg[t] \in Nat
      BY <1>3, StartWritesMoves DEF Numbered
    <2> QED
      BY <1>3, <2>1, WriteFitting
  <1>4. ASSUME NEW t \in Thread, StartEnds(t)
        PROVE  Fitting'
    <2>1. Others(t) /\ pc[t] = "start" /\ pc'[t] \in {"complete", "write"}
      BY <1>4, StartEndsMoves
    <2>2. SameHands /\ SameEcho
      BY <2>1, Hands DEF Sync
    <2>3. fifo' = fifo
      BY <1>4 DEF StartEnds, device
    <2> QED
      BY <2>2, <2>3, QuietFitting
  <1>5. ASSUME NEW p \in Proc, Dispatch(p)
        PROVE  Fitting'
    <2>1. Others(p) /\ pc[p] \in {"rwoken", "wwoken"} /\ pc'[p] \in {"consspin", "txspin"}
      BY <1>5, DispatchMoves
    <2>2. SameHands /\ SameEcho
      BY <2>1, Hands, Apart DEF Sync
    <2>3. fifo' = fifo
      BY <1>5 DEF Dispatch, device
    <2> QED
      BY <2>2, <2>3, QuietFitting
  <1>6. ASSUME NEW p \in Writer, PutCall(p)
        PROVE  Fitting'
    <2>1. Others(p) /\ pc[p] = "write" /\ pc'[p] = "txspin"
      BY <1>6, PutCallMoves
    <2>2. SameHands /\ SameEcho
      BY <2>1, Hands, Apart DEF Sync
    <2>3. fifo' = fifo
      BY <1>6 DEF PutCall, device
    <2> QED
      BY <2>2, <2>3, QuietFitting
  <1>7. ASSUME NEW p \in Writer, PutSleeps(p)
        PROVE  Fitting'
    <2>1. Others(p) /\ pc[p] = "put" /\ pc'[p] = "wsleep"
      BY <1>7, PutSleepsMoves
    <2>2. SameHands /\ SameEcho
      BY <2>1, Hands, Apart DEF Sync
    <2>3. fifo' = fifo
      BY <1>7 DEF PutSleeps, device
    <2> QED
      BY <2>2, <2>3, QuietFitting
  <1>8. ASSUME NEW p \in Writer, Put(p)
        PROVE  Fitting'
    <2>1. Others(p) /\ pc[p] = "put" /\ pc'[p] = "start"
      BY <1>8, PutMoves
    <2>2. SameHands /\ SameEcho
      BY <2>1, Hands, Apart DEF Sync
    <2>3. fifo' = fifo
      BY <1>8 DEF Put, device
    <2> QED
      BY <2>2, <2>3, QuietFitting
  <1>9. ASSUME NEW p \in Writer, WriteReturns(p)
        PROVE  Fitting'
    <2>1. Others(p) /\ pc[p] = "write" /\ pc'[p] \in {"dead", "user"}
      BY <1>9, WriteReturnsMoves
    <2>2. SameHands /\ SameEcho
      BY <2>1, Hands, Apart DEF Sync
    <2>3. fifo' = fifo
      BY <1>9 DEF WriteReturns, device
    <2> QED
      BY <2>2, <2>3, QuietFitting
  <1>10. ASSUME NEW p \in Reader, ReadSleeps(p)
        PROVE  Fitting'
    <2>1. Others(p) /\ pc[p] = "read" /\ pc'[p] = "rsleep"
      BY <1>10, ReadSleepsMoves
    <2>2. SameHands /\ SameEcho
      BY <2>1, Hands, Apart DEF Sync
    <2>3. fifo' = fifo
      BY <1>10 DEF ReadSleeps, device
    <2> QED
      BY <2>2, <2>3, QuietFitting
  <1>11. ASSUME NEW p \in Reader, ReadStops(p)
        PROVE  Fitting'
    <2>1. Others(p) /\ pc[p] = "read" /\ pc'[p] \in {"dead", "user"}
      BY <1>11, ReadStopsMoves
    <2>2. SameHands /\ SameEcho
      BY <2>1, Hands, Apart DEF Sync
    <2>3. fifo' = fifo
      BY <1>11 DEF ReadStops, device
    <2> QED
      BY <2>2, <2>3, QuietFitting
  <1>12. ASSUME NEW p \in Reader, ReadEnd(p)
        PROVE  Fitting'
    <2>1. Others(p) /\ pc[p] = "read" /\ pc'[p] \in {"dead", "user"}
      BY <1>12, ReadEndMoves
    <2>2. SameHands /\ SameEcho
      BY <2>1, Hands, Apart DEF Sync
    <2>3. fifo' = fifo
      BY <1>12 DEF ReadEnd, device
    <2> QED
      BY <2>2, <2>3, QuietFitting
  <1>13. ASSUME NEW p \in Reader, ReadChar(p)
        PROVE  Fitting'
    <2>1. Others(p) /\ pc[p] = "read" /\ pc'[p] = "read"
      BY <1>13, ReadCharMoves
    <2>2. SameHands /\ SameEcho
      BY <2>1, Hands, Apart DEF Sync
    <2>3. fifo' = fifo
      BY <1>13 DEF ReadChar, device
    <2> QED
      BY <2>2, <2>3, QuietFitting
  <1>14. ASSUME NEW p \in Reader, ReadFails(p)
        PROVE  Fitting'
    <2>1. Others(p) /\ pc[p] = "read" /\ pc'[p] \in {"dead", "user"}
      BY <1>14, ReadFailsMoves
    <2>2. SameHands /\ SameEcho
      BY <2>1, Hands, Apart DEF Sync
    <2>3. fifo' = fifo
      BY <1>14 DEF ReadFails, device
    <2> QED
      BY <2>2, <2>3, QuietFitting
  <1>15. ASSUME NEW c \in Cpu, Get(c)
        PROVE  Fitting'
    <2>1. Others(c) /\ pc[c] = "get" /\ pc'[c] \in {"consspin", "txspin"}
      BY <1>15, GetMoves
    <2>2. SameHands /\ SameEcho
      BY <2>1, Hands, Apart DEF Sync
    <2>3. fifo' = fifo
      BY <1>15 DEF Get, device
    <2> QED
      BY <2>2, <2>3, QuietFitting
  <1>16. ASSUME NEW c \in Cpu, Erase(c)
        PROVE  Fitting'
    <2>1. Others(c) /\ pc[c] = "key" /\ pc'[c] = "erase"
      BY <1>16, EraseMoves
    <2>2. SameHands /\ SameEcho
      BY <2>1, Hands, Apart DEF Sync
    <2>3. fifo' = fifo
      BY <1>16 DEF Erase, device
    <2> QED
      BY <2>2, <2>3, QuietFitting
  <1>17. ASSUME NEW c \in Cpu, Ignore(c)
        PROVE  Fitting'
    <2>1. Others(c) /\ pc[c] = "key" /\ pc'[c] = "get"
      BY <1>17, IgnoreMoves
    <2>2. SameHands /\ SameEcho
      BY <2>1, Hands, Apart DEF Sync
    <2>3. fifo' = fifo
      BY <1>17 DEF Ignore, device, KeyDone
    <2> QED
      BY <2>2, <2>3, QuietFitting
  <1>18. ASSUME NEW c \in Cpu, Swallow(c)
        PROVE  Fitting'
    <2>1. Others(c) /\ pc[c] = "key" /\ pc'[c] = "get"
      BY <1>18, SwallowMoves
    <2>2. SameHands /\ SameEcho
      BY <2>1, Hands, Apart DEF Sync
    <2>3. fifo' = fifo
      BY <1>18 DEF Swallow, device, KeyDone
    <2> QED
      BY <2>2, <2>3, QuietFitting
  <1>19. ASSUME NEW c \in Cpu, Echo(c)
        PROVE  Fitting'
    <2>1. Others(c) /\ pc[c] = "key" /\ pc'[c] \in {"store", "echo"}
      BY <1>19, EchoMoves
    <2>2. SameHands /\ SameEcho
      BY <2>1, Hands, Apart DEF Sync
    <2>3. fifo' = fifo
      BY <1>19 DEF Echo, device
    <2> QED
      BY <2>2, <2>3, QuietFitting
  <1>20. ASSUME NEW c \in Cpu, SyncSpin(c)
        PROVE  Fitting'
    BY <1>20, SpinFitting
  <1>21. ASSUME NEW c \in Cpu, SyncWrite(c)
        PROVE  Fitting'
    BY <1>21, EchoFitting
  <1>22. ASSUME NEW c \in Cpu, Store(c)
        PROVE  Fitting'
    <2>1. Others(c) /\ pc[c] = "store" /\ pc'[c] = "get"
      BY <1>22, StoreMoves
    <2>2. SameHands /\ SameEcho
      BY <2>1, Hands, Apart DEF Sync
    <2>3. fifo' = fifo
      BY <1>22 DEF Store, device
    <2> QED
      BY <2>2, <2>3, QuietFitting
  <1>23. ASSUME NEW c \in Cpu, Complete(c)
        PROVE  Fitting'
    <2>1. Others(c) /\ pc[c] = "complete" /\ pc'[c] = "idle"
      BY <1>23, CompleteMoves
    <2>2. SameHands /\ SameEcho
      BY <2>1, Hands, Apart DEF Sync
    <2>3. fifo' = fifo
      BY <1>23 DEF Complete, device
    <2> QED
      BY <2>2, <2>3, QuietFitting
  <1>24. ASSUME NEW p \in Proc, Kill(p)
        PROVE  Fitting'
    <2>1. Others(p) /\ (pc'[p] = pc[p] \/ (pc[p] \in {"user", "rsleep", "wsleep"} /\ pc'[p] \in {"dead", "rwoken", "wwoken"}))
      BY <1>24, KillMoves
    <2>2. SameHands /\ SameEcho
      BY <2>1, Hands, Apart DEF Sync
    <2>3. fifo' = fifo
      BY <1>24 DEF Kill, device
    <2> QED
      BY <2>2, <2>3, QuietFitting
  <1>25. ASSUME NEW p \in Writer, WriteCall(p)
        PROVE  Fitting'
    <2>1. Others(p) /\ pc[p] = "user" /\ pc'[p] = "write"
      BY <1>25, WriteCallMoves
    <2>2. SameHands /\ SameEcho
      BY <2>1, Hands, Apart DEF Sync
    <2>3. fifo' = fifo
      BY <1>25 DEF WriteCall, device
    <2> QED
      BY <2>2, <2>3, QuietFitting
  <1>26. ASSUME NEW p \in Reader, ReadCall(p)
        PROVE  Fitting'
    <2>1. Others(p) /\ pc[p] = "user" /\ pc'[p] = "consspin"
      BY <1>26, ReadCallMoves
    <2>2. SameHands /\ SameEcho
      BY <2>1, Hands, Apart DEF Sync
    <2>3. fifo' = fifo
      BY <1>26 DEF ReadCall, device
    <2> QED
      BY <2>2, <2>3, QuietFitting
  <1>27. ASSUME NEW c \in Cpu, Interrupt(c)
        PROVE  Fitting'
    <2>1. Others(c) /\ pc[c] = "idle" /\ pc'[c] = "get"
      BY <1>27, InterruptMoves
    <2>2. SameHands /\ SameEcho
      BY <2>1, Hands, Apart DEF Sync
    <2>3. fifo' = fifo
      BY <1>27 DEF Interrupt, device
    <2> QED
      BY <2>2, <2>3, QuietFitting
  <1>28. ASSUME Transmit
        PROVE  Fitting'
    BY <1>28, TransmitFitting
  <1>29. ASSUME NEW k \in left.hits, Hit(k)
        PROVE  Fitting'
    BY <1>29, QuietFitting DEF Hit, SameHands, SameEcho
  <1>30. CASE UNCHANGED vars
    BY <1>30, QuietFitting DEF vars, device, SameHands, SameEcho
  <1> QED
    BY <1>1, <1>2, <1>3, <1>4, <1>5, <1>6, <1>7, <1>8, <1>9, <1>10, <1>11, <1>12, <1>13, <1>14,
       <1>15, <1>16, <1>17, <1>18, <1>19, <1>20, <1>21, <1>22, <1>23, <1>24, <1>25, <1>26, <1>27,
       <1>28, <1>29, <1>30 DEF Next, Step, Write, Read, Handler

-----------------------------------------------------------------------------
(* The ring of uart.c *)

\* The sizes are positive, and divide the range of the indices.
LEMMA Sizes ==
  /\ INPUT_BUF_SIZE \in Nat \ {0} /\ UART_TX_BUF_SIZE \in Nat \ {0} /\ UintMod \in Nat \ {0}
  /\ INPUT_BUF_SIZE < UintMod /\ UART_TX_BUF_SIZE < UintMod
  /\ UintMod % INPUT_BUF_SIZE = 0 /\ UintMod % UART_TX_BUF_SIZE = 0
  BY ConsoleAssumption DEF ConsoleAssumption

\* An index that wraps stays at its place of the buffers.
LEMMA Wraps ==
  /\ \A x \in Int : (x - UintMod) % INPUT_BUF_SIZE = x % INPUT_BUF_SIZE
  /\ \A x \in Int : (x - UintMod) % UART_TX_BUF_SIZE = x % UART_TX_BUF_SIZE
  BY Sizes, ModShift

\* Where the bytes of the ring lie.
LEMMA Ring ==
  ASSUME Numbered
  PROVE  /\ TxHeld \in 0 .. UART_TX_BUF_SIZE
         /\ TxEmpty <=> TxHeld = 0
         /\ TxFull <=> TxHeld = UART_TX_BUF_SIZE
         /\ txw % UART_TX_BUF_SIZE = (txr + TxHeld) % UART_TX_BUF_SIZE
         /\ \A k \in Nat : (((txr + 1) % UintMod) + k) % UART_TX_BUF_SIZE = (txr + (k + 1)) % UART_TX_BUF_SIZE
         /\ \A k \in Nat : (txr + k) % UART_TX_BUF_SIZE \in 0 .. UART_TX_BUF_SIZE - 1
  <1>1. txr \in 0 .. UintMod - 1 /\ txw \in 0 .. UintMod - 1 /\ TxHeld <= UART_TX_BUF_SIZE
    BY DEF Numbered
  <1>2. TxHeld \in 0 .. UART_TX_BUF_SIZE /\ (TxEmpty <=> TxHeld = 0)
    BY <1>1, Sizes, Distance DEF TxHeld, TxEmpty
  <1>3. txw = txr + TxHeld \/ txw = (txr + TxHeld) - UintMod
    <2>1. TxHeld = IF txr <= txw THEN txw - txr ELSE txw - txr + UintMod
      BY <1>1, Sizes, Counting DEF TxHeld
    <2> QED
      BY <1>1, <2>1, Sizes
  <1>4. TxFull <=> TxHeld = UART_TX_BUF_SIZE
    <2>1. (txr + UART_TX_BUF_SIZE) % UintMod
            = IF txr + UART_TX_BUF_SIZE < UintMod THEN txr + UART_TX_BUF_SIZE ELSE txr + UART_TX_BUF_SIZE - UintMod
      BY <1>1, Sizes
    <2> QED
      BY <1>1, <1>2, <1>3, <2>1, Sizes DEF TxFull
  <1>5. txw % UART_TX_BUF_SIZE = (txr + TxHeld) % UART_TX_BUF_SIZE
    <2>1. txr + TxHeld \in Int
      BY <1>1, <1>2, Sizes
    <2> QED
      BY <1>3, <2>1, Wraps
  <1>6. ASSUME NEW k \in Nat
        PROVE  (((txr + 1) % UintMod) + k) % UART_TX_BUF_SIZE = (txr + (k + 1)) % UART_TX_BUF_SIZE
    <2>1. (txr + 1) % UintMod = IF txr + 1 = UintMod THEN 0 ELSE txr + 1
      BY <1>1, Sizes, Counting
    <2>2. ((txr + 1) % UintMod) + k = txr + (k + 1) \/ ((txr + 1) % UintMod) + k = (txr + (k + 1)) - UintMod
      BY <1>1, <2>1, Sizes
    <2>3. txr + (k + 1) \in Int
      BY <1>1
    <2> QED
      BY <2>2, <2>3, Wraps
  <1>7. \A k \in Nat : (txr + k) % UART_TX_BUF_SIZE \in 0 .. UART_TX_BUF_SIZE - 1
    BY <1>1, Sizes
  <1> QED
    BY <1>2, <1>4, <1>5, <1>6, <1>7

\* Nothing is put, taken or sent.
LEMMA QuietNumbered ==
  ASSUME Numbered, UNCHANGED <<txbuf, txw, txr, written, sent, fifo>>, SameHands,
         \A u \in Thread : pc[u] = "thr" => reg'[u] = reg[u]
  PROVE  Numbered'
  <1>1. Pending' = Pending
    BY DEF Pending, SameHands
  <1>2. Gone' = Gone /\ TxHeld' = TxHeld
    BY <1>1 DEF Gone, TxHeld
  <1> QED
    BY <1>2 DEF Numbered, SameHands

\* A byte is put into the ring.
LEMMA PutNumbered ==
  ASSUME Numbered, NEW p \in Writer, Put(p), SameHands
  PROVE  Numbered'
  <1>1. /\ written' = written + 1 /\ txbuf' = [txbuf EXCEPT ![txw % UART_TX_BUF_SIZE] = written + 1]
        /\ txw' = (txw + 1) % UintMod /\ txr' = txr /\ sent' = sent /\ fifo' = fifo /\ reg' = reg
        /\ ~TxFull
    BY DEF Put, device
  <1>2. Pending' = Pending /\ Gone' = Gone
    <2>1. Pending' = Pending
      BY <1>1 DEF Pending, SameHands
    <2> QED
      BY <1>1, <2>1 DEF Gone
  <1>3. TxHeld \in 0 .. UART_TX_BUF_SIZE - 1
    <2>1. TxHeld \in 0 .. UART_TX_BUF_SIZE /\ TxHeld # UART_TX_BUF_SIZE
      BY <1>1, Ring
    <2> QED
      BY <2>1, Sizes
  <1>4. TxHeld' = TxHeld + 1 /\ txw' \in 0 .. UintMod - 1
    <2>1. txr \in 0 .. UintMod - 1 /\ txw \in 0 .. UintMod - 1 /\ TxHeld + 1 < UintMod
      BY <1>3, Sizes DEF Numbered
    <2>2. (((txw + 1) % UintMod) - txr) % UintMod = ((txw - txr) % UintMod) + 1
      BY <2>1, Sizes, GoesOnByOne DEF TxHeld
    <2>3. (txw + 1) % UintMod \in 0 .. UintMod - 1
      BY <2>1, Sizes
    <2> QED
      BY <1>1, <2>2, <2>3 DEF TxHeld
  <1>5. written \in Nat /\ Gone \in Nat /\ written = Gone + TxHeld
    BY DEF Numbered, Gone
  <1>6. txbuf' \in [0 .. UART_TX_BUF_SIZE - 1 -> Nat]
    <2>1. written + 1 \in Nat
      BY <1>5
    <2> QED
      BY <1>1, <2>1 DEF Numbered
  <1>7. ASSUME NEW k \in 0 .. TxHeld' - 1
        PROVE  txbuf'[(txr + k) % UART_TX_BUF_SIZE] = Gone + k + 1
    <2>1. k \in Nat /\ k <= TxHeld /\ txr \in Int
      BY <1>3, <1>4, <1>7 DEF Numbered
    <2>2. CASE k = TxHeld
      <3>1. txbuf'[txw % UART_TX_BUF_SIZE] = written + 1
        BY <1>1, <1>3, Ring DEF Numbered
      <3> QED
        BY <2>2, <3>1, <1>5, Ring
    <2>3. CASE k < TxHeld
      <3>1. (txr + k) % UART_TX_BUF_SIZE # (txr + TxHeld) % UART_TX_BUF_SIZE
        <4>1. txr + k \in Int /\ txr + TxHeld \in Int /\ txr + k < txr + TxHeld /\ txr + TxHeld < (txr + k) + UART_TX_BUF_SIZE
          BY <1>3, <2>1, <2>3, Sizes
        <4> QED
          BY <4>1, Sizes, ModApart
      <3>2. txbuf'[(txr + k) % UART_TX_BUF_SIZE] = txbuf[(txr + k) % UART_TX_BUF_SIZE]
        BY <1>1, <2>1, <3>1, Ring DEF Numbered
      <3> QED
        BY <1>3, <2>1, <2>3, <3>2 DEF Numbered
    <2> QED
      BY <1>3, <2>1, <2>2, <2>3
  <1>8. written' \in Nat /\ written' = Gone + TxHeld'
    BY <1>1, <1>3, <1>4, <1>5
  <1>9. TxHeld' <= UART_TX_BUF_SIZE
    BY <1>3, <1>4, Sizes
  <1> QED
    BY <1>1, <1>2, <1>4, <1>6, <1>7, <1>8, <1>9 DEF Numbered, SameHands

\* A byte is taken from it, for an idle device.
LEMMA NextNumbered ==
  ASSUME Sited, Kept, Placed, Locked, Numbered, NEW t \in Thread, StartNext(t)
  PROVE  Numbered'
  <1>1. /\ Others(t) /\ pc[t] = "start" /\ pc'[t] = "thr" /\ fifo = <<>> /\ fifo' = fifo /\ sent' = sent
        /\ txr' = (txr + 1) % UintMod /\ txw' = txw /\ txbuf' = txbuf /\ written' = written /\ ~TxEmpty
        /\ reg' = [reg EXCEPT ![t] = txbuf[txr % UART_TX_BUF_SIZE]]
    BY StartNextMoves DEF StartNext, Idle, device
  <1>2. \A u \in Thread : pc[u] # "thr"
    <2>1. pc[t] \in Places("tx") /\ \A u \in Thread : pc[u] = "thr" => pc[u] \in Places("tx")
      BY <1>1, Under DEF InTx
    <2> QED
      BY <1>1, <2>1, OneHolder
  <1>3. \A u \in Thread : pc'[u] = "thr" => u = t
    BY <1>1, <1>2 DEF Others
  <1>4. ~Pending /\ Pending' /\ Gone = Len(sent) /\ Gone' = Len(sent) + 1 /\ Len(sent) \in Nat
    <2>1. DOMAIN fifo = {}
      BY <1>1
    <2>2. ~Pending /\ Pending'
      BY <1>1, <1>2, <2>1 DEF Pending
    <2> QED
      BY <1>1, <2>2 DEF Gone, Numbered
  <1>5. TxHeld \in 1 .. UART_TX_BUF_SIZE
    <2>1. TxHeld \in 0 .. UART_TX_BUF_SIZE /\ TxHeld # 0
      BY <1>1, Ring
    <2> QED
      BY <2>1, Sizes
  <1>6. TxHeld' = TxHeld - 1 /\ txr' \in 0 .. UintMod - 1
    <2>1. txr \in 0 .. UintMod - 1 /\ txw \in 0 .. UintMod - 1 /\ txr # txw
      BY <1>1 DEF Numbered, TxEmpty
    <2>0. UintMod \in Nat \ {0}
      BY Sizes
    <2>2. (txw - ((txr + 1) % UintMod)) % UintMod = ((txw - txr) % UintMod) - 1
      BY <2>0, <2>1, Nearer
    <2>3. (txr + 1) % UintMod \in 0 .. UintMod - 1
      BY <2>1, Sizes
    <2> QED
      BY <1>1, <2>2, <2>3 DEF TxHeld
  <1>7. reg'[t] = Len(sent) + 1
    <2>1. 0 \in 0 .. TxHeld - 1 /\ txr + 0 = txr /\ Gone + 0 + 1 = Len(sent) + 1
      BY <1>4, <1>5 DEF Numbered
    <2>2. txbuf[(txr + 0) % UART_TX_BUF_SIZE] = Gone + 0 + 1
      BY <2>1 DEF Numbered
    <2> QED
      BY <1>1, <2>1, <2>2 DEF Kept
  <1>8. ASSUME NEW k \in 0 .. TxHeld' - 1
        PROVE  txbuf'[(txr' + k) % UART_TX_BUF_SIZE] = Gone' + k + 1
    <2>1. k \in Nat /\ k + 1 \in 0 .. TxHeld - 1
      BY <1>5, <1>6, <1>8
    <2>2. (txr' + k) % UART_TX_BUF_SIZE = (txr + (k + 1)) % UART_TX_BUF_SIZE
      BY <1>1, <2>1, Ring
    <2>3. txbuf[(txr + (k + 1)) % UART_TX_BUF_SIZE] = Gone + (k + 1) + 1
      BY <2>1 DEF Numbered
    <2> QED
      BY <1>1, <1>4, <2>1, <2>2, <2>3
  <1>9. written = Gone' + TxHeld' /\ TxHeld' <= UART_TX_BUF_SIZE
    <2>1. written = Gone + TxHeld /\ UART_TX_BUF_SIZE \in Nat
      BY Sizes DEF Numbered
    <2>2. Gone \in Nat /\ Gone' = Gone + 1 /\ TxHeld \in Nat /\ TxHeld' = TxHeld - 1 /\ TxHeld <= UART_TX_BUF_SIZE
      BY <1>4, <1>5, <1>6, <2>1
    <2> QED
      BY <1>1, <2>1, <2>2
  <1> QED
    BY <1>1, <1>3, <1>6, <1>7, <1>8, <1>9 DEF Numbered

\* The byte is written to the device.
LEMMA WriteNumbered ==
  ASSUME Sited, Placed, Locked, Fitting, Numbered, NEW t \in Thread, StartWrites(t)
  PROVE  Numbered'
  <1>1. reg[t] = Len(sent) + 1 /\ Len(sent) \in Nat /\ pc[t] = "thr"
    BY StartWritesMoves DEF Numbered
  <1>2. /\ fifo' = Append(fifo, reg[t]) /\ (\A u \in Thread : pc'[u] # "thr")
        /\ \A k \in DOMAIN fifo : fifo[k] = 0
    BY <1>1, WriteFitting DEF Fitting
  <1>3. UNCHANGED <<txbuf, txw, txr, written, sent>>
    BY DEF StartWrites, uart
  <1>4. /\ DOMAIN fifo' = 1 .. Len(fifo) + 1 /\ DOMAIN fifo = 1 .. Len(fifo) /\ Len(fifo) \in Nat
        /\ fifo'[Len(fifo) + 1] = reg[t] /\ \A k \in 1 .. Len(fifo) : fifo'[k] = fifo[k]
    BY <1>1, <1>2, Appending DEF Fitting
  <1>5. Pending /\ Pending'
    <2>1. Len(fifo) + 1 \in DOMAIN fifo' /\ fifo'[Len(fifo) + 1] # 0
      BY <1>1, <1>4
    <2> QED
      BY <1>1, <2>1 DEF Pending
  <1>6. Gone' = Gone /\ TxHeld' = TxHeld
    BY <1>3, <1>5 DEF Gone, TxHeld
  <1>7. \A k \in DOMAIN fifo' : fifo'[k] # 0 => fifo'[k] = Len(sent') + 1
    BY <1>1, <1>2, <1>3, <1>4
  <1> QED
    BY <1>2, <1>3, <1>6, <1>7 DEF Numbered

\* An echo is written to it.
LEMMA EchoNumbered ==
  ASSUME Sited, Placed, Locked, Fitting, Numbered, NEW c \in Cpu, SyncWrite(c)
  PROVE  Numbered'
  <1>1. fifo' = Append(fifo, 0) /\ SameHands /\ fifo \in Seq(Nat)
    BY EchoFitting DEF Fitting
  <1>2. UNCHANGED <<txbuf, txw, txr, written, sent, reg>>
    BY DEF SyncWrite, uart
  <1>3. /\ DOMAIN fifo' = 1 .. Len(fifo) + 1 /\ DOMAIN fifo = 1 .. Len(fifo) /\ Len(fifo) \in Nat
        /\ fifo'[Len(fifo) + 1] = 0 /\ \A k \in 1 .. Len(fifo) : fifo'[k] = fifo[k]
    BY <1>1, Appending
  <1>4. /\ \A k \in DOMAIN fifo' : fifo'[k] # 0 => k \in DOMAIN fifo /\ fifo'[k] = fifo[k]
        /\ \A k \in DOMAIN fifo : k \in DOMAIN fifo' /\ fifo'[k] = fifo[k]
    BY <1>3
  <1>5. Pending' = Pending
    BY <1>1, <1>4 DEF Pending, SameHands
  <1>6. Gone' = Gone /\ TxHeld' = TxHeld
    BY <1>2, <1>5 DEF Gone, TxHeld
  <1> QED
    BY <1>1, <1>2, <1>4, <1>6 DEF Numbered, SameHands

\* A byte leaves the device.
LEMMA TransmitNumbered ==
  ASSUME Fitting, Numbered, Transmit
  PROVE  Numbered'
  <1>1. /\ UNCHANGED <<txbuf, txw, txr, written, reg, pc>>
        /\ fifo \in Seq(Nat) /\ fifo # <<>> /\ fifo' = Tail(fifo)
        /\ sent' = IF Head(fifo) = 0 THEN sent ELSE Append(sent, Head(fifo))
    BY DEF Transmit, Fitting, uart
  <1>2. /\ Head(fifo) = fifo[1] /\ Head(fifo) \in Nat /\ 1 \in DOMAIN fifo
        /\ \A k \in DOMAIN fifo' : k + 1 \in DOMAIN fifo /\ fifo'[k] = fifo[k + 1] /\ k + 1 # 1
        /\ \A k \in DOMAIN fifo : k # 1 => k - 1 \in DOMAIN fifo' /\ fifo'[k - 1] = fifo[k]
    <2>1. /\ Head(fifo) = fifo[1] /\ Head(fifo) \in Nat /\ Len(fifo) >= 1 /\ Len(fifo) \in Nat
          /\ DOMAIN fifo' = 1 .. Len(fifo) - 1 /\ DOMAIN fifo = 1 .. Len(fifo)
          /\ \A k \in 1 .. Len(fifo) - 1 : fifo'[k] = fifo[k + 1]
      BY <1>1, Shifting
    <2> QED
      BY <2>1
  <1>3. TxHeld' = TxHeld /\ sent \in Seq(Nat) /\ Len(sent) \in Nat
    BY <1>1 DEF TxHeld, Numbered
  <1>4. CASE Head(fifo) = 0
    <2>1. sent' = sent
      BY <1>1, <1>4
    <2>2. Pending' <=> Pending
      <3>1. (\E k \in DOMAIN fifo : fifo[k] # 0) => \E k \in DOMAIN fifo' : fifo'[k] # 0
        <4>1. SUFFICES ASSUME NEW k \in DOMAIN fifo, fifo[k] # 0
                       PROVE  \E j \in DOMAIN fifo' : fifo'[j] # 0
          OBVIOUS
        <4>2. k # 1
          BY <1>2, <1>4, <4>1
        <4>3. k - 1 \in DOMAIN fifo' /\ fifo'[k - 1] = fifo[k]
          BY <1>2, <4>2
        <4> QED
          BY <4>1, <4>3
      <3>2. (\E k \in DOMAIN fifo' : fifo'[k] # 0) => \E k \in DOMAIN fifo : fifo[k] # 0
        BY <1>2
      <3> QED
        BY <1>1, <3>1, <3>2 DEF Pending
    <2>3. Gone' = Gone
      BY <2>1, <2>2 DEF Gone
    <2> QED
      BY <1>1, <1>2, <1>3, <2>1, <2>3 DEF Numbered
  <1>5. CASE Head(fifo) # 0
    <2>1. Head(fifo) = Len(sent) + 1
      BY <1>2, <1>5 DEF Numbered
    <2>2. sent' = Append(sent, Len(sent) + 1)
      BY <1>1, <1>5, <2>1
    <2>3. /\ sent' \in Seq(Nat) /\ Len(sent') = Len(sent) + 1
          /\ sent'[Len(sent) + 1] = Len(sent) + 1 /\ \A k \in 1 .. Len(sent) : sent'[k] = sent[k]
      BY <1>3, <2>2, Appending
    <2>4. \A k \in 1 .. Len(sent') : sent'[k] = k
      <3>1. \A k \in 1 .. Len(sent) : sent[k] = k
        BY DEF Numbered
      <3> QED
        BY <1>3, <2>3, <3>1
    <2>5. \A k \in DOMAIN fifo' : fifo'[k] = 0
      BY <1>2, <1>5 DEF Fitting
    <2>6. \A u \in Thread : pc[u] # "thr"
      BY <1>2, <1>5 DEF Fitting
    <2>7. Pending /\ ~Pending'
      BY <1>1, <1>2, <1>5, <2>5, <2>6 DEF Pending
    <2>8. Gone' = Gone
      BY <1>3, <2>3, <2>7 DEF Gone
    <2> QED
      BY <1>1, <1>3, <2>3, <2>4, <2>5, <2>6, <2>8 DEF Numbered
  <1> QED
    BY <1>4, <1>5
\* Bytes are sent in the order in which they were put.
LEMMA NumberedStep ==
  ASSUME Sited, Kept, Placed, Locked, Fitting, Numbered, [Next]_vars
  PROVE  Numbered'
  <1>1. ASSUME NEW t \in Thread, Acquire(t)
        PROVE  Numbered'
    <2>1. Others(t) /\ pc[t] \in {"consspin", "txspin"} /\ pc'[t] \in {"key", "read", "start", "put"}
      BY <1>1, AcquireMoves
    <2>2. SameHands
      BY <2>1, Hands
    <2>3. UNCHANGED <<txbuf, txw, txr, written, sent, fifo>>
      BY <1>1 DEF Acquire, device, uart
    <2>4. \A u \in Thread : pc[u] = "thr" => reg'[u] = reg[u]
      BY <1>1, <2>1 DEF Acquire, Kept
    <2> QED
      BY <2>2, <2>3, <2>4, QuietNumbered
  <1>2. ASSUME NEW t \in Thread, StartNext(t)
        PROVE  Numbered'
    BY <1>2, NextNumbered
  <1>3. ASSUME NEW t \in Thread, StartWrites(t)
        PROVE  Numbered'
    BY <1>3, WriteNumbered
  <1>4. ASSUME NEW t \in Thread, StartEnds(t)
        PROVE  Numbered'
    <2>1. Others(t) /\ pc[t] = "start" /\ pc'[t] \in {"complete", "write"}
      BY <1>4, StartEndsMoves
    <2>2. SameHands
      BY <2>1, Hands
    <2>3. UNCHANGED <<txbuf, txw, txr, written, sent, fifo>>
      BY <1>4 DEF StartEnds, device, uart
    <2>4. \A u \in Thread : pc[u] = "thr" => reg'[u] = reg[u]
      BY <1>4, <2>1 DEF StartEnds, Kept
    <2> QED
      BY <2>2, <2>3, <2>4, QuietNumbered
  <1>5. ASSUME NEW p \in Proc, Dispatch(p)
        PROVE  Numbered'
    <2>1. Others(p) /\ pc[p] \in {"rwoken", "wwoken"} /\ pc'[p] \in {"consspin", "txspin"}
      BY <1>5, DispatchMoves
    <2>2. SameHands
      BY <2>1, Hands, Apart
    <2>3. UNCHANGED <<txbuf, txw, txr, written, sent, fifo>>
      BY <1>5 DEF Dispatch, device, uart
    <2>4. \A u \in Thread : pc[u] = "thr" => reg'[u] = reg[u]
      BY <1>5, <2>1 DEF Dispatch, Kept
    <2> QED
      BY <2>2, <2>3, <2>4, QuietNumbered
  <1>6. ASSUME NEW p \in Writer, PutCall(p)
        PROVE  Numbered'
    <2>1. Others(p) /\ pc[p] = "write" /\ pc'[p] = "txspin"
      BY <1>6, PutCallMoves
    <2>2. SameHands
      BY <2>1, Hands, Apart
    <2>3. UNCHANGED <<txbuf, txw, txr, written, sent, fifo>>
      BY <1>6 DEF PutCall, device, uart
    <2>4. \A u \in Thread : pc[u] = "thr" => reg'[u] = reg[u]
      BY <1>6, <2>1 DEF PutCall, Kept
    <2> QED
      BY <2>2, <2>3, <2>4, QuietNumbered
  <1>7. ASSUME NEW p \in Writer, PutSleeps(p)
        PROVE  Numbered'
    <2>1. Others(p) /\ pc[p] = "put" /\ pc'[p] = "wsleep"
      BY <1>7, PutSleepsMoves
    <2>2. SameHands
      BY <2>1, Hands, Apart
    <2>3. UNCHANGED <<txbuf, txw, txr, written, sent, fifo>>
      BY <1>7 DEF PutSleeps, device, uart
    <2>4. \A u \in Thread : pc[u] = "thr" => reg'[u] = reg[u]
      BY <1>7, <2>1 DEF PutSleeps, Kept
    <2> QED
      BY <2>2, <2>3, <2>4, QuietNumbered
  <1>8. ASSUME NEW p \in Writer, Put(p)
        PROVE  Numbered'
    <2>1. Others(p) /\ pc[p] = "put" /\ pc'[p] = "start"
      BY <1>8, PutMoves
    <2>2. SameHands
      BY <2>1, Hands, Apart
    <2> QED
      BY <1>8, <2>2, PutNumbered
  <1>9. ASSUME NEW p \in Writer, WriteReturns(p)
        PROVE  Numbered'
    <2>1. Others(p) /\ pc[p] = "write" /\ pc'[p] \in {"dead", "user"}
      BY <1>9, WriteReturnsMoves
    <2>2. SameHands
      BY <2>1, Hands, Apart
    <2>3. UNCHANGED <<txbuf, txw, txr, written, sent, fifo>>
      BY <1>9 DEF WriteReturns, device, uart
    <2>4. \A u \in Thread : pc[u] = "thr" => reg'[u] = reg[u]
      BY <1>9, <2>1 DEF WriteReturns, Kept
    <2> QED
      BY <2>2, <2>3, <2>4, QuietNumbered
  <1>10. ASSUME NEW p \in Reader, ReadSleeps(p)
        PROVE  Numbered'
    <2>1. Others(p) /\ pc[p] = "read" /\ pc'[p] = "rsleep"
      BY <1>10, ReadSleepsMoves
    <2>2. SameHands
      BY <2>1, Hands, Apart
    <2>3. UNCHANGED <<txbuf, txw, txr, written, sent, fifo>>
      BY <1>10 DEF ReadSleeps, device, uart
    <2>4. \A u \in Thread : pc[u] = "thr" => reg'[u] = reg[u]
      BY <1>10, <2>1 DEF ReadSleeps, Kept
    <2> QED
      BY <2>2, <2>3, <2>4, QuietNumbered
  <1>11. ASSUME NEW p \in Reader, ReadStops(p)
        PROVE  Numbered'
    <2>1. Others(p) /\ pc[p] = "read" /\ pc'[p] \in {"dead", "user"}
      BY <1>11, ReadStopsMoves
    <2>2. SameHands
      BY <2>1, Hands, Apart
    <2>3. UNCHANGED <<txbuf, txw, txr, written, sent, fifo>>
      BY <1>11 DEF ReadStops, device, uart
    <2>4. \A u \in Thread : pc[u] = "thr" => reg'[u] = reg[u]
      BY <1>11, <2>1 DEF ReadStops, Kept
    <2> QED
      BY <2>2, <2>3, <2>4, QuietNumbered
  <1>12. ASSUME NEW p \in Reader, ReadEnd(p)
        PROVE  Numbered'
    <2>1. Others(p) /\ pc[p] = "read" /\ pc'[p] \in {"dead", "user"}
      BY <1>12, ReadEndMoves
    <2>2. SameHands
      BY <2>1, Hands, Apart
    <2>3. UNCHANGED <<txbuf, txw, txr, written, sent, fifo>>
      BY <1>12 DEF ReadEnd, device, uart
    <2>4. \A u \in Thread : pc[u] = "thr" => reg'[u] = reg[u]
      BY <1>12, <2>1 DEF ReadEnd, Kept
    <2> QED
      BY <2>2, <2>3, <2>4, QuietNumbered
  <1>13. ASSUME NEW p \in Reader, ReadChar(p)
        PROVE  Numbered'
    <2>1. Others(p) /\ pc[p] = "read" /\ pc'[p] = "read"
      BY <1>13, ReadCharMoves
    <2>2. SameHands
      BY <2>1, Hands, Apart
    <2>3. UNCHANGED <<txbuf, txw, txr, written, sent, fifo>>
      BY <1>13 DEF ReadChar, device, uart
    <2>4. \A u \in Thread : pc[u] = "thr" => reg'[u] = reg[u]
      BY <1>13, <2>1 DEF ReadChar, Kept
    <2> QED
      BY <2>2, <2>3, <2>4, QuietNumbered
  <1>14. ASSUME NEW p \in Reader, ReadFails(p)
        PROVE  Numbered'
    <2>1. Others(p) /\ pc[p] = "read" /\ pc'[p] \in {"dead", "user"}
      BY <1>14, ReadFailsMoves
    <2>2. SameHands
      BY <2>1, Hands, Apart
    <2>3. UNCHANGED <<txbuf, txw, txr, written, sent, fifo>>
      BY <1>14 DEF ReadFails, device, uart
    <2>4. \A u \in Thread : pc[u] = "thr" => reg'[u] = reg[u]
      BY <1>14, <2>1 DEF ReadFails, Kept
    <2> QED
      BY <2>2, <2>3, <2>4, QuietNumbered
  <1>15. ASSUME NEW c \in Cpu, Get(c)
        PROVE  Numbered'
    <2>1. Others(c) /\ pc[c] = "get" /\ pc'[c] \in {"consspin", "txspin"}
      BY <1>15, GetMoves
    <2>2. SameHands
      BY <2>1, Hands, Apart
    <2>3. UNCHANGED <<txbuf, txw, txr, written, sent, fifo>>
      BY <1>15 DEF Get, device, uart
    <2>4. \A u \in Thread : pc[u] = "thr" => reg'[u] = reg[u]
      BY <1>15, <2>1 DEF Get, Kept
    <2> QED
      BY <2>2, <2>3, <2>4, QuietNumbered
  <1>16. ASSUME NEW c \in Cpu, Erase(c)
        PROVE  Numbered'
    <2>1. Others(c) /\ pc[c] = "key" /\ pc'[c] = "erase"
      BY <1>16, EraseMoves
    <2>2. SameHands
      BY <2>1, Hands, Apart
    <2>3. UNCHANGED <<txbuf, txw, txr, written, sent, fifo>>
      BY <1>16 DEF Erase, device, uart
    <2>4. \A u \in Thread : pc[u] = "thr" => reg'[u] = reg[u]
      BY <1>16, <2>1 DEF Erase, Kept
    <2> QED
      BY <2>2, <2>3, <2>4, QuietNumbered
  <1>17. ASSUME NEW c \in Cpu, Ignore(c)
        PROVE  Numbered'
    <2>1. Others(c) /\ pc[c] = "key" /\ pc'[c] = "get"
      BY <1>17, IgnoreMoves
    <2>2. SameHands
      BY <2>1, Hands, Apart
    <2>3. UNCHANGED <<txbuf, txw, txr, written, sent, fifo>>
      BY <1>17 DEF Ignore, device, uart, KeyDone
    <2>4. \A u \in Thread : pc[u] = "thr" => reg'[u] = reg[u]
      BY <1>17, <2>1 DEF Ignore, Kept, KeyDone
    <2> QED
      BY <2>2, <2>3, <2>4, QuietNumbered
  <1>18. ASSUME NEW c \in Cpu, Swallow(c)
        PROVE  Numbered'
    <2>1. Others(c) /\ pc[c] = "key" /\ pc'[c] = "get"
      BY <1>18, SwallowMoves
    <2>2. SameHands
      BY <2>1, Hands, Apart
    <2>3. UNCHANGED <<txbuf, txw, txr, written, sent, fifo>>
      BY <1>18 DEF Swallow, device, uart, KeyDone
    <2>4. \A u \in Thread : pc[u] = "thr" => reg'[u] = reg[u]
      BY <1>18, <2>1 DEF Swallow, Kept, KeyDone
    <2> QED
      BY <2>2, <2>3, <2>4, QuietNumbered
  <1>19. ASSUME NEW c \in Cpu, Echo(c)
        PROVE  Numbered'
    <2>1. Others(c) /\ pc[c] = "key" /\ pc'[c] \in {"store", "echo"}
      BY <1>19, EchoMoves
    <2>2. SameHands
      BY <2>1, Hands, Apart
    <2>3. UNCHANGED <<txbuf, txw, txr, written, sent, fifo>>
      BY <1>19 DEF Echo, device, uart
    <2>4. \A u \in Thread : pc[u] = "thr" => reg'[u] = reg[u]
      BY <1>19, <2>1 DEF Echo, Kept
    <2> QED
      BY <2>2, <2>3, <2>4, QuietNumbered
  <1>20. ASSUME NEW c \in Cpu, SyncSpin(c)
        PROVE  Numbered'
    <2>1. Others(c) /\ pc[c] \in {"echo", "erase"} /\ pc'[c] \in Sync
      BY <1>20, SyncSpinMoves
    <2>2. SameHands
      BY <2>1, Hands, Apart DEF Sync
    <2>3. UNCHANGED <<txbuf, txw, txr, written, sent, fifo>>
      BY <1>20 DEF SyncSpin, device, uart
    <2>4. \A u \in Thread : pc[u] = "thr" => reg'[u] = reg[u]
      BY <1>20, <2>1 DEF SyncSpin, Kept
    <2> QED
      BY <2>2, <2>3, <2>4, QuietNumbered
  <1>21. ASSUME NEW c \in Cpu, SyncWrite(c)
        PROVE  Numbered'
    BY <1>21, EchoNumbered
  <1>22. ASSUME NEW c \in Cpu, Store(c)
        PROVE  Numbered'
    <2>1. Others(c) /\ pc[c] = "store" /\ pc'[c] = "get"
      BY <1>22, StoreMoves
    <2>2. SameHands
      BY <2>1, Hands, Apart
    <2>3. UNCHANGED <<txbuf, txw, txr, written, sent, fifo>>
      BY <1>22 DEF Store, device, uart
    <2>4. \A u \in Thread : pc[u] = "thr" => reg'[u] = reg[u]
      BY <1>22, <2>1 DEF Store, Kept
    <2> QED
      BY <2>2, <2>3, <2>4, QuietNumbered
  <1>23. ASSUME NEW c \in Cpu, Complete(c)
        PROVE  Numbered'
    <2>1. Others(c) /\ pc[c] = "complete" /\ pc'[c] = "idle"
      BY <1>23, CompleteMoves
    <2>2. SameHands
      BY <2>1, Hands, Apart
    <2>3. UNCHANGED <<txbuf, txw, txr, written, sent, fifo>>
      BY <1>23 DEF Complete, device, uart
    <2>4. \A u \in Thread : pc[u] = "thr" => reg'[u] = reg[u]
      BY <1>23, <2>1 DEF Complete, Kept
    <2> QED
      BY <2>2, <2>3, <2>4, QuietNumbered
  <1>24. ASSUME NEW p \in Proc, Kill(p)
        PROVE  Numbered'
    <2>1. Others(p) /\ (pc'[p] = pc[p] \/ (pc[p] \in {"user", "rsleep", "wsleep"} /\ pc'[p] \in {"dead", "rwoken", "wwoken"}))
      BY <1>24, KillMoves
    <2>2. SameHands
      BY <2>1, Hands, Apart
    <2>3. UNCHANGED <<txbuf, txw, txr, written, sent, fifo>>
      BY <1>24 DEF Kill, device, uart
    <2>4. \A u \in Thread : pc[u] = "thr" => reg'[u] = reg[u]
      BY <1>24, <2>1 DEF Kill, Kept
    <2> QED
      BY <2>2, <2>3, <2>4, QuietNumbered
  <1>25. ASSUME NEW p \in Writer, WriteCall(p)
        PROVE  Numbered'
    <2>1. Others(p) /\ pc[p] = "user" /\ pc'[p] = "write"
      BY <1>25, WriteCallMoves
    <2>2. SameHands
      BY <2>1, Hands, Apart
    <2>3. UNCHANGED <<txbuf, txw, txr, written, sent, fifo>>
      BY <1>25 DEF WriteCall, device, uart
    <2>4. \A u \in Thread : pc[u] = "thr" => reg'[u] = reg[u]
      BY <1>25, <2>1 DEF WriteCall, Kept
    <2> QED
      BY <2>2, <2>3, <2>4, QuietNumbered
  <1>26. ASSUME NEW p \in Reader, ReadCall(p)
        PROVE  Numbered'
    <2>1. Others(p) /\ pc[p] = "user" /\ pc'[p] = "consspin"
      BY <1>26, ReadCallMoves
    <2>2. SameHands
      BY <2>1, Hands, Apart
    <2>3. UNCHANGED <<txbuf, txw, txr, written, sent, fifo>>
      BY <1>26 DEF ReadCall, device, uart
    <2>4. \A u \in Thread : pc[u] = "thr" => reg'[u] = reg[u]
      BY <1>26, <2>1 DEF ReadCall, Kept
    <2> QED
      BY <2>2, <2>3, <2>4, QuietNumbered
  <1>27. ASSUME NEW c \in Cpu, Interrupt(c)
        PROVE  Numbered'
    <2>1. Others(c) /\ pc[c] = "idle" /\ pc'[c] = "get"
      BY <1>27, InterruptMoves
    <2>2. SameHands
      BY <2>1, Hands, Apart
    <2>3. UNCHANGED <<txbuf, txw, txr, written, sent, fifo>>
      BY <1>27 DEF Interrupt, device, uart
    <2>4. \A u \in Thread : pc[u] = "thr" => reg'[u] = reg[u]
      BY <1>27, <2>1 DEF Interrupt, Kept
    <2> QED
      BY <2>2, <2>3, <2>4, QuietNumbered
  <1>28. ASSUME Transmit
        PROVE  Numbered'
    BY <1>28, TransmitNumbered
  <1>29. ASSUME NEW k \in left.hits, Hit(k)
        PROVE  Numbered'
    BY <1>29, QuietNumbered DEF Hit, SameHands, uart
  <1>30. CASE UNCHANGED vars
    BY <1>30, QuietNumbered DEF vars, device, uart, SameHands
  <1> QED
    BY <1>1, <1>2, <1>3, <1>4, <1>5, <1>6, <1>7, <1>8, <1>9, <1>10, <1>11, <1>12, <1>13, <1>14,
       <1>15, <1>16, <1>17, <1>18, <1>19, <1>20, <1>21, <1>22, <1>23, <1>24, <1>25, <1>26, <1>27,
       <1>28, <1>29, <1>30 DEF Next, Step, Write, Read, Handler

-----------------------------------------------------------------------------
(* Who sleeps *)

\* Those on the way to the ring stay there, and nobody else goes to sleep.
LEMMA OnTheWay ==
  ASSUME NEW t \in Thread, Others(t)
  PROVE  /\ (/\ Emptying /\ (fifo' = fifo \/ fifo' # <<>>) /\ irq' = irq
             /\ (pc[t] \in {"start", "thr"} => pc'[t] \in {"start", "thr"})
             /\ (pc[t] \in {"idle", "complete"} \/ pc'[t] \notin {"idle", "complete"} \/ t \notin Cpu))
            => Emptying'
         /\ pc'[t] # "rsleep" => \A u \in Thread : pc'[u] = "rsleep" => pc[u] = "rsleep"
         /\ pc'[t] # "wsleep" => \A u \in Thread : pc'[u] = "wsleep" => pc[u] = "wsleep"
  <1>1. ASSUME Emptying, fifo' = fifo \/ fifo' # <<>>, irq' = irq,
               pc[t] \in {"start", "thr"} => pc'[t] \in {"start", "thr"},
               pc[t] \in {"idle", "complete"} \/ pc'[t] \notin {"idle", "complete"} \/ t \notin Cpu
        PROVE  Emptying'
    <2>1. CASE \E u \in Thread : pc[u] \in {"start", "thr"}
      <3>1. PICK u \in Thread : pc[u] \in {"start", "thr"}
        BY <2>1
      <3>2. pc'[u] \in {"start", "thr"}
        BY <1>1, <3>1 DEF Others
      <3> QED
        BY <3>2 DEF Emptying
    <2>2. CASE ~Idle \/ irq
      BY <1>1, <2>2 DEF Emptying, Idle
    <2>3. CASE \E c \in Cpu : pc[c] \notin {"idle", "complete"}
      <3>1. PICK c \in Cpu : pc[c] \notin {"idle", "complete"}
        BY <2>3
      <3>2. pc'[c] \notin {"idle", "complete"}
        BY <1>1, <3>1, Apart DEF Others
      <3> QED
        BY <3>2 DEF Emptying
    <2> QED
      BY <1>1, <2>1, <2>2, <2>3 DEF Emptying
  <1> QED
    BY <1>1 DEF Others
\* Nobody sleeps without a reason.
LEMMA ReliedStep ==
  ASSUME Sited, Fitting, Numbered, Relied, [Next]_vars
  PROVE  Relied'
  <1>1. ASSUME NEW t \in Thread, Acquire(t)
        PROVE  Relied'
    <2>1. t \in Thread /\ Others(t) /\ pc[t] \in {"consspin", "txspin"} /\ pc'[t] \in {"key", "read", "start", "put"}
      BY <1>1, AcquireMoves
    <2>2. irq' = irq /\ fifo' = fifo
      BY <1>1 DEF Acquire, device
    <2>3. Emptying => Emptying'
      BY <2>1, <2>2, OnTheWay
    <2>4. txw' = txw /\ txr' = txr
      BY <1>1 DEF Acquire, uart
    <2>5. r' = r /\ w' = w /\ \A u \in Thread : (pc'[u] = "wsleep" => pc[u] = "wsleep") /\ (pc'[u] = "rsleep" => pc[u] = "rsleep")
      BY <1>1, <2>1, OnTheWay DEF Acquire, cons
    <2> QED
      BY <2>2, <2>3, <2>4, <2>5, Apart DEF Relied, TxEmpty, TxFull
  <1>2. ASSUME NEW t \in Thread, StartNext(t)
        PROVE  Relied'
    <2>1. t \in Thread /\ Others(t) /\ pc[t] = "start" /\ pc'[t] = "thr"
      BY <1>2, StartNextMoves
    <2>2. Emptying' /\ irq' = irq
      BY <1>2, <2>1 DEF Emptying, StartNext, device
    <2>4. \A u \in Writer : pc'[u] # "wsleep"
      BY <1>2, <2>1, Wakes, Apart DEF StartNext
    <2>5. (\E u \in Reader : pc'[u] = "rsleep") => r' = w'
      BY <1>2, <2>1, OnTheWay, Apart DEF StartNext, Relied, cons
    <2> QED
      BY <2>2, <2>4, <2>5 DEF Relied
  <1>3. ASSUME NEW t \in Thread, StartWrites(t)
        PROVE  Relied'
    <2>1. t \in Thread /\ Others(t) /\ pc[t] = "thr" /\ pc'[t] = "start"
      BY <1>3, StartWritesMoves
    <2>2. irq' = irq /\ (fifo' = fifo \/ fifo' # <<>>)
      <3>1. irq' = irq /\ (fifo' = fifo \/ fifo' = Append(fifo, reg[t]))
        BY <1>3 DEF StartWrites, WriteTHR
      <3>2. fifo \in Seq(Nat) /\ reg[t] \in Nat
        BY <1>3, StartWritesMoves DEF Fitting, Numbered
      <3> QED
        BY <3>1, <3>2, Appending
    <2>3. Emptying => Emptying'
      BY <2>1, <2>2, OnTheWay
    <2>4. txw' = txw /\ txr' = txr
      BY <1>3 DEF StartWrites, uart
    <2>5. r' = r /\ w' = w /\ \A u \in Thread : (pc'[u] = "wsleep" => pc[u] = "wsleep") /\ (pc'[u] = "rsleep" => pc[u] = "rsleep")
      BY <1>3, <2>1, OnTheWay DEF StartWrites, cons
    <2> QED
      BY <2>2, <2>3, <2>4, <2>5, Apart DEF Relied, TxEmpty, TxFull
  <1>4. ASSUME NEW t \in Thread, StartEnds(t)
        PROVE  Relied'
    <2>1. t \in Thread /\ Others(t) /\ pc[t] = "start" /\ pc'[t] \in {"complete", "write"}
      BY <1>4, StartEndsMoves
    <2>2. (~TxEmpty => Emptying') /\ irq' = irq
      BY <1>4, <2>1 DEF Emptying, StartEnds, device, Idle
    <2>4. txw' = txw /\ txr' = txr
      BY <1>4 DEF StartEnds, uart
    <2>5. r' = r /\ w' = w /\ \A u \in Thread : (pc'[u] = "wsleep" => pc[u] = "wsleep") /\ (pc'[u] = "rsleep" => pc[u] = "rsleep")
      BY <1>4, <2>1, OnTheWay DEF StartEnds, cons
    <2> QED
      BY <2>2, <2>4, <2>5, Apart DEF Relied, TxEmpty, TxFull
  <1>5. ASSUME NEW p \in Proc, Dispatch(p)
        PROVE  Relied'
    <2>1. p \in Thread /\ Others(p) /\ pc[p] \in {"rwoken", "wwoken"} /\ pc'[p] \in {"consspin", "txspin"}
      BY <1>5, DispatchMoves, Apart
    <2>2. irq' = irq /\ fifo' = fifo
      BY <1>5 DEF Dispatch, device
    <2>3. Emptying => Emptying'
      BY <2>1, <2>2, OnTheWay, Apart
    <2>4. txw' = txw /\ txr' = txr
      BY <1>5 DEF Dispatch, uart
    <2>5. r' = r /\ w' = w /\ \A u \in Thread : (pc'[u] = "wsleep" => pc[u] = "wsleep") /\ (pc'[u] = "rsleep" => pc[u] = "rsleep")
      BY <1>5, <2>1, OnTheWay DEF Dispatch, cons
    <2> QED
      BY <2>2, <2>3, <2>4, <2>5, Apart DEF Relied, TxEmpty, TxFull
  <1>6. ASSUME NEW p \in Writer, PutCall(p)
        PROVE  Relied'
    <2>1. p \in Thread /\ Others(p) /\ pc[p] = "write" /\ pc'[p] = "txspin"
      BY <1>6, PutCallMoves, Apart
    <2>2. irq' = irq /\ fifo' = fifo
      BY <1>6 DEF PutCall, device
    <2>3. Emptying => Emptying'
      BY <2>1, <2>2, OnTheWay, Apart
    <2>4. txw' = txw /\ txr' = txr
      BY <1>6 DEF PutCall, uart
    <2>5. r' = r /\ w' = w /\ \A u \in Thread : (pc'[u] = "wsleep" => pc[u] = "wsleep") /\ (pc'[u] = "rsleep" => pc[u] = "rsleep")
      BY <1>6, <2>1, OnTheWay DEF PutCall, cons
    <2> QED
      BY <2>2, <2>3, <2>4, <2>5, Apart DEF Relied, TxEmpty, TxFull
  <1>7. ASSUME NEW p \in Writer, PutSleeps(p)
        PROVE  Relied'
    <2>1. p \in Thread /\ Others(p) /\ pc[p] = "put" /\ pc'[p] = "wsleep"
      BY <1>7, PutSleepsMoves, Apart
    <2>2. irq' = irq /\ fifo' = fifo
      BY <1>7 DEF PutSleeps, device
    <2>3. Emptying => Emptying'
      BY <2>1, <2>2, OnTheWay, Apart
    <2>4. txw' = txw /\ txr' = txr
      BY <1>7 DEF PutSleeps, uart
    <2>5. TxFull /\ r' = r /\ w' = w /\ \A u \in Thread : pc'[u] = "rsleep" => pc[u] = "rsleep"
      BY <1>7, <2>1, OnTheWay DEF PutSleeps, cons
    <2> QED
      BY <2>2, <2>3, <2>4, <2>5, Apart DEF Relied, TxEmpty, TxFull
  <1>8. ASSUME NEW p \in Writer, Put(p)
        PROVE  Relied'
    <2>1. p \in Thread /\ Others(p) /\ pc[p] = "put" /\ pc'[p] = "start"
      BY <1>8, PutMoves, Apart
    <2>2. Emptying' /\ irq' = irq
      BY <1>8, <2>1 DEF Emptying, Put, device
    <2>4. \A u \in Writer : pc'[u] # "wsleep"
      BY <1>8, <2>1, OnTheWay, Apart DEF Put, Relied
    <2>5. (\E u \in Reader : pc'[u] = "rsleep") => r' = w'
      BY <1>8, <2>1, OnTheWay, Apart DEF Put, Relied, cons
    <2> QED
      BY <2>2, <2>4, <2>5 DEF Relied
  <1>9. ASSUME NEW p \in Writer, WriteReturns(p)
        PROVE  Relied'
    <2>1. p \in Thread /\ Others(p) /\ pc[p] = "write" /\ pc'[p] \in {"dead", "user"}
      BY <1>9, WriteReturnsMoves, Apart
    <2>2. irq' = irq /\ fifo' = fifo
      BY <1>9 DEF WriteReturns, device
    <2>3. Emptying => Emptying'
      BY <2>1, <2>2, OnTheWay, Apart
    <2>4. txw' = txw /\ txr' = txr
      BY <1>9 DEF WriteReturns, uart
    <2>5. r' = r /\ w' = w /\ \A u \in Thread : (pc'[u] = "wsleep" => pc[u] = "wsleep") /\ (pc'[u] = "rsleep" => pc[u] = "rsleep")
      BY <1>9, <2>1, OnTheWay DEF WriteReturns, cons
    <2> QED
      BY <2>2, <2>3, <2>4, <2>5, Apart DEF Relied, TxEmpty, TxFull
  <1>10. ASSUME NEW p \in Reader, ReadSleeps(p)
        PROVE  Relied'
    <2>1. p \in Thread /\ Others(p) /\ pc[p] = "read" /\ pc'[p] = "rsleep"
      BY <1>10, ReadSleepsMoves, Apart
    <2>2. irq' = irq /\ fifo' = fifo
      BY <1>10 DEF ReadSleeps, device
    <2>3. Emptying => Emptying'
      BY <2>1, <2>2, OnTheWay, Apart
    <2>4. txw' = txw /\ txr' = txr
      BY <1>10 DEF ReadSleeps, uart
    <2>5. r' = w' /\ \A u \in Thread : pc'[u] = "wsleep" => pc[u] = "wsleep"
      BY <1>10, <2>1, OnTheWay DEF ReadSleeps, cons
    <2> QED
      BY <2>2, <2>3, <2>4, <2>5, Apart DEF Relied, TxEmpty, TxFull
  <1>11. ASSUME NEW p \in Reader, ReadStops(p)
        PROVE  Relied'
    <2>1. p \in Thread /\ Others(p) /\ pc[p] = "read" /\ pc'[p] \in {"dead", "user"}
      BY <1>11, ReadStopsMoves, Apart
    <2>2. irq' = irq /\ fifo' = fifo
      BY <1>11 DEF ReadStops, device
    <2>3. Emptying => Emptying'
      BY <2>1, <2>2, OnTheWay, Apart
    <2>4. txw' = txw /\ txr' = txr
      BY <1>11 DEF ReadStops, uart
    <2>5. r' = r /\ w' = w /\ \A u \in Thread : (pc'[u] = "wsleep" => pc[u] = "wsleep") /\ (pc'[u] = "rsleep" => pc[u] = "rsleep")
      BY <1>11, <2>1, OnTheWay DEF ReadStops, cons
    <2> QED
      BY <2>2, <2>3, <2>4, <2>5, Apart DEF Relied, TxEmpty, TxFull
  <1>12. ASSUME NEW p \in Reader, ReadEnd(p)
        PROVE  Relied'
    <2>1. p \in Thread /\ Others(p) /\ pc[p] = "read" /\ pc'[p] \in {"dead", "user"}
      BY <1>12, ReadEndMoves, Apart
    <2>2. irq' = irq /\ fifo' = fifo
      BY <1>12 DEF ReadEnd, device
    <2>3. Emptying => Emptying'
      BY <2>1, <2>2, OnTheWay, Apart
    <2>4. txw' = txw /\ txr' = txr
      BY <1>12 DEF ReadEnd, uart
    <2>5. r # w /\ \A u \in Thread : (pc'[u] = "wsleep" => pc[u] = "wsleep") /\ (pc'[u] = "rsleep" => pc[u] = "rsleep")
      BY <1>12, <2>1, OnTheWay DEF ReadEnd, Reads
    <2> QED
      BY <2>2, <2>3, <2>4, <2>5, Apart DEF Relied, TxEmpty, TxFull
  <1>13. ASSUME NEW p \in Reader, ReadChar(p)
        PROVE  Relied'
    <2>1. p \in Thread /\ Others(p) /\ pc[p] = "read" /\ pc'[p] = "read"
      BY <1>13, ReadCharMoves, Apart
    <2>2. irq' = irq /\ fifo' = fifo
      BY <1>13 DEF ReadChar, device
    <2>3. Emptying => Emptying'
      BY <2>1, <2>2, OnTheWay, Apart
    <2>4. txw' = txw /\ txr' = txr
      BY <1>13 DEF ReadChar, uart
    <2>5. r # w /\ \A u \in Thread : (pc'[u] = "wsleep" => pc[u] = "wsleep") /\ (pc'[u] = "rsleep" => pc[u] = "rsleep")
      BY <1>13, <2>1, OnTheWay DEF ReadChar, Reads
    <2> QED
      BY <2>2, <2>3, <2>4, <2>5, Apart DEF Relied, TxEmpty, TxFull
  <1>14. ASSUME NEW p \in Reader, ReadFails(p)
        PROVE  Relied'
    <2>1. p \in Thread /\ Others(p) /\ pc[p] = "read" /\ pc'[p] \in {"dead", "user"}
      BY <1>14, ReadFailsMoves, Apart
    <2>2. irq' = irq /\ fifo' = fifo
      BY <1>14 DEF ReadFails, device
    <2>3. Emptying => Emptying'
      BY <2>1, <2>2, OnTheWay, Apart
    <2>4. txw' = txw /\ txr' = txr
      BY <1>14 DEF ReadFails, uart
    <2>5. r # w /\ \A u \in Thread : (pc'[u] = "wsleep" => pc[u] = "wsleep") /\ (pc'[u] = "rsleep" => pc[u] = "rsleep")
      BY <1>14, <2>1, OnTheWay DEF ReadFails, Reads
    <2> QED
      BY <2>2, <2>3, <2>4, <2>5, Apart DEF Relied, TxEmpty, TxFull
  <1>15. ASSUME NEW c \in Cpu, Get(c)
        PROVE  Relied'
    <2>1. c \in Thread /\ Others(c) /\ pc[c] = "get" /\ pc'[c] \in {"consspin", "txspin"}
      BY <1>15, GetMoves, Apart
    <2>2. irq' = irq /\ fifo' = fifo
      BY <1>15 DEF Get, device
    <2>3. Emptying => Emptying'
      BY <2>1, <2>2, OnTheWay, Apart
    <2>4. txw' = txw /\ txr' = txr
      BY <1>15 DEF Get, uart
    <2>5. r' = r /\ w' = w /\ \A u \in Thread : (pc'[u] = "wsleep" => pc[u] = "wsleep") /\ (pc'[u] = "rsleep" => pc[u] = "rsleep")
      BY <1>15, <2>1, OnTheWay DEF Get, cons
    <2> QED
      BY <2>2, <2>3, <2>4, <2>5, Apart DEF Relied, TxEmpty, TxFull
  <1>16. ASSUME NEW c \in Cpu, Erase(c)
        PROVE  Relied'
    <2>1. c \in Thread /\ Others(c) /\ pc[c] = "key" /\ pc'[c] = "erase"
      BY <1>16, EraseMoves, Apart
    <2>2. irq' = irq /\ fifo' = fifo
      BY <1>16 DEF Erase, device
    <2>3. Emptying => Emptying'
      BY <2>1, <2>2, OnTheWay, Apart
    <2>4. txw' = txw /\ txr' = txr
      BY <1>16 DEF Erase, uart
    <2>5. r' = r /\ w' = w /\ \A u \in Thread : (pc'[u] = "wsleep" => pc[u] = "wsleep") /\ (pc'[u] = "rsleep" => pc[u] = "rsleep")
      BY <1>16, <2>1, OnTheWay DEF Erase, cons
    <2> QED
      BY <2>2, <2>3, <2>4, <2>5, Apart DEF Relied, TxEmpty, TxFull
  <1>17. ASSUME NEW c \in Cpu, Ignore(c)
        PROVE  Relied'
    <2>1. c \in Thread /\ Others(c) /\ pc[c] = "key" /\ pc'[c] = "get"
      BY <1>17, IgnoreMoves, Apart
    <2>2. irq' = irq /\ fifo' = fifo
      BY <1>17 DEF Ignore, device, KeyDone
    <2>3. Emptying => Emptying'
      BY <2>1, <2>2, OnTheWay, Apart
    <2>4. txw' = txw /\ txr' = txr
      BY <1>17 DEF Ignore, uart, KeyDone
    <2>5. r' = r /\ w' = w /\ \A u \in Thread : (pc'[u] = "wsleep" => pc[u] = "wsleep") /\ (pc'[u] = "rsleep" => pc[u] = "rsleep")
      BY <1>17, <2>1, OnTheWay DEF Ignore, cons, KeyDone
    <2> QED
      BY <2>2, <2>3, <2>4, <2>5, Apart DEF Relied, TxEmpty, TxFull
  <1>18. ASSUME NEW c \in Cpu, Swallow(c)
        PROVE  Relied'
    <2>1. c \in Thread /\ Others(c) /\ pc[c] = "key" /\ pc'[c] = "get"
      BY <1>18, SwallowMoves, Apart
    <2>2. irq' = irq /\ fifo' = fifo
      BY <1>18 DEF Swallow, device, KeyDone
    <2>3. Emptying => Emptying'
      BY <2>1, <2>2, OnTheWay, Apart
    <2>4. txw' = txw /\ txr' = txr
      BY <1>18 DEF Swallow, uart, KeyDone
    <2>5. r' = r /\ w' = w /\ \A u \in Thread : (pc'[u] = "wsleep" => pc[u] = "wsleep") /\ (pc'[u] = "rsleep" => pc[u] = "rsleep")
      BY <1>18, <2>1, OnTheWay DEF Swallow, cons, KeyDone
    <2> QED
      BY <2>2, <2>3, <2>4, <2>5, Apart DEF Relied, TxEmpty, TxFull
  <1>19. ASSUME NEW c \in Cpu, Echo(c)
        PROVE  Relied'
    <2>1. c \in Thread /\ Others(c) /\ pc[c] = "key" /\ pc'[c] \in {"store", "echo"}
      BY <1>19, EchoMoves, Apart
    <2>2. irq' = irq /\ fifo' = fifo
      BY <1>19 DEF Echo, device
    <2>3. Emptying => Emptying'
      BY <2>1, <2>2, OnTheWay, Apart
    <2>4. txw' = txw /\ txr' = txr
      BY <1>19 DEF Echo, uart
    <2>5. r' = r /\ w' = w /\ \A u \in Thread : (pc'[u] = "wsleep" => pc[u] = "wsleep") /\ (pc'[u] = "rsleep" => pc[u] = "rsleep")
      BY <1>19, <2>1, OnTheWay DEF Echo, cons
    <2> QED
      BY <2>2, <2>3, <2>4, <2>5, Apart DEF Relied, TxEmpty, TxFull
  <1>20. ASSUME NEW c \in Cpu, SyncSpin(c)
        PROVE  Relied'
    <2>1. c \in Thread /\ Others(c) /\ pc[c] \in {"echo", "erase"} /\ pc'[c] \in Sync
      BY <1>20, SyncSpinMoves, Apart
    <2>2. irq' = irq /\ fifo' = fifo
      BY <1>20 DEF SyncSpin, device
    <2>3. Emptying => Emptying'
      BY <2>1, <2>2, OnTheWay, Apart DEF Sync
    <2>4. txw' = txw /\ txr' = txr
      BY <1>20 DEF SyncSpin, uart
    <2>5. r' = r /\ w' = w /\ \A u \in Thread : (pc'[u] = "wsleep" => pc[u] = "wsleep") /\ (pc'[u] = "rsleep" => pc[u] = "rsleep")
      BY <1>20, <2>1, OnTheWay DEF SyncSpin, cons, Sync
    <2> QED
      BY <2>2, <2>3, <2>4, <2>5, Apart DEF Relied, TxEmpty, TxFull
  <1>21. ASSUME NEW c \in Cpu, SyncWrite(c)
        PROVE  Relied'
    <2>1. c \in Thread /\ Others(c) /\ pc[c] \in Sync /\ pc'[c] \in {"store", "key"}
      BY <1>21, SyncWriteMoves, Apart
    <2>2. irq' = irq /\ (fifo' = fifo \/ fifo' # <<>>)
      <3>1. irq' = irq /\ (fifo' = fifo \/ fifo' = Append(fifo, 0))
        BY <1>21 DEF SyncWrite, WriteTHR
      <3>2. fifo \in Seq(Nat) /\ 0 \in Nat
        BY DEF Fitting
      <3> QED
        BY <3>1, <3>2, Appending
    <2>3. Emptying => Emptying'
      BY <2>1, <2>2, OnTheWay DEF Sync
    <2>4. txw' = txw /\ txr' = txr
      BY <1>21 DEF SyncWrite, uart
    <2>5. r' = r /\ w' = w /\ \A u \in Thread : (pc'[u] = "wsleep" => pc[u] = "wsleep") /\ (pc'[u] = "rsleep" => pc[u] = "rsleep")
      BY <1>21, <2>1, OnTheWay DEF SyncWrite, cons
    <2> QED
      BY <2>2, <2>3, <2>4, <2>5, Apart DEF Relied, TxEmpty, TxFull
  <1>22. ASSUME NEW c \in Cpu, Store(c)
        PROVE  Relied'
    <2>1. c \in Thread /\ Others(c) /\ pc[c] = "store" /\ pc'[c] = "get"
      BY <1>22, StoreMoves, Apart
    <2>2. irq' = irq /\ fifo' = fifo
      BY <1>22 DEF Store, device
    <2>3. Emptying => Emptying'
      BY <2>1, <2>2, OnTheWay, Apart
    <2>4. txw' = txw /\ txr' = txr
      BY <1>22 DEF Store, uart
    <2>5. \A u \in Thread : (pc'[u] = "wsleep" => pc[u] = "wsleep") /\ (pc'[u] = "rsleep" => pc[u] = "rsleep")
      BY <2>1, OnTheWay
    <2>6. (w' = w /\ r' = r) \/ \A u \in Reader : pc'[u] # "rsleep"
      BY <1>22, <2>1, Wakes, Apart DEF Store
    <2> QED
      BY <2>2, <2>3, <2>4, <2>5, <2>6, Apart DEF Relied, TxEmpty, TxFull
  <1>23. ASSUME NEW c \in Cpu, Complete(c)
        PROVE  Relied'
    <2>1. c \in Thread /\ Others(c) /\ pc[c] = "complete" /\ pc'[c] = "idle"
      BY <1>23, CompleteMoves, Apart
    <2>2. irq' = irq /\ fifo' = fifo
      BY <1>23 DEF Complete, device
    <2>3. Emptying => Emptying'
      BY <2>1, <2>2, OnTheWay, Apart
    <2>4. txw' = txw /\ txr' = txr
      BY <1>23 DEF Complete, uart
    <2>5. r' = r /\ w' = w /\ \A u \in Thread : (pc'[u] = "wsleep" => pc[u] = "wsleep") /\ (pc'[u] = "rsleep" => pc[u] = "rsleep")
      BY <1>23, <2>1, OnTheWay DEF Complete, cons
    <2> QED
      BY <2>2, <2>3, <2>4, <2>5, Apart DEF Relied, TxEmpty, TxFull
  <1>24. ASSUME NEW p \in Proc, Kill(p)
        PROVE  Relied'
    <2>1. p \in Thread /\ Others(p) /\ (pc'[p] = pc[p] \/ (pc[p] \in {"user", "rsleep", "wsleep"} /\ pc'[p] \in {"dead", "rwoken", "wwoken"}))
      BY <1>24, KillMoves, Apart
    <2>2. irq' = irq /\ fifo' = fifo
      BY <1>24 DEF Kill, device
    <2>3. Emptying => Emptying'
      BY <2>1, <2>2, OnTheWay, Apart
    <2>4. txw' = txw /\ txr' = txr
      BY <1>24 DEF Kill, uart
    <2>5. r' = r /\ w' = w /\ \A u \in Thread : (pc'[u] = "wsleep" => pc[u] = "wsleep") /\ (pc'[u] = "rsleep" => pc[u] = "rsleep")
      BY <1>24, <2>1 DEF Kill, cons, Others
    <2> QED
      BY <2>2, <2>3, <2>4, <2>5, Apart DEF Relied, TxEmpty, TxFull
  <1>25. ASSUME NEW p \in Writer, WriteCall(p)
        PROVE  Relied'
    <2>1. p \in Thread /\ Others(p) /\ pc[p] = "user" /\ pc'[p] = "write"
      BY <1>25, WriteCallMoves, Apart
    <2>2. irq' = irq /\ fifo' = fifo
      BY <1>25 DEF WriteCall, device
    <2>3. Emptying => Emptying'
      BY <2>1, <2>2, OnTheWay, Apart
    <2>4. txw' = txw /\ txr' = txr
      BY <1>25 DEF WriteCall, uart
    <2>5. r' = r /\ w' = w /\ \A u \in Thread : (pc'[u] = "wsleep" => pc[u] = "wsleep") /\ (pc'[u] = "rsleep" => pc[u] = "rsleep")
      BY <1>25, <2>1, OnTheWay DEF WriteCall, cons
    <2> QED
      BY <2>2, <2>3, <2>4, <2>5, Apart DEF Relied, TxEmpty, TxFull
  <1>26. ASSUME NEW p \in Reader, ReadCall(p)
        PROVE  Relied'
    <2>1. p \in Thread /\ Others(p) /\ pc[p] = "user" /\ pc'[p] = "consspin"
      BY <1>26, ReadCallMoves, Apart
    <2>2. irq' = irq /\ fifo' = fifo
      BY <1>26 DEF ReadCall, device
    <2>3. Emptying => Emptying'
      BY <2>1, <2>2, OnTheWay, Apart
    <2>4. txw' = txw /\ txr' = txr
      BY <1>26 DEF ReadCall, uart
    <2>5. r' = r /\ w' = w /\ \A u \in Thread : (pc'[u] = "wsleep" => pc[u] = "wsleep") /\ (pc'[u] = "rsleep" => pc[u] = "rsleep")
      BY <1>26, <2>1, OnTheWay DEF ReadCall, cons
    <2> QED
      BY <2>2, <2>3, <2>4, <2>5, Apart DEF Relied, TxEmpty, TxFull
  <1>27. ASSUME NEW c \in Cpu, Interrupt(c)
        PROVE  Relied'
    <2>1. c \in Thread /\ Others(c) /\ pc[c] = "idle" /\ pc'[c] = "get"
      BY <1>27, InterruptMoves, Apart
    <2>2. Emptying' /\ irq' \in BOOLEAN
      BY <1>27, <2>1 DEF Emptying, Interrupt
    <2>4. txw' = txw /\ txr' = txr
      BY <1>27 DEF Interrupt, uart
    <2>5. r' = r /\ w' = w /\ \A u \in Thread : (pc'[u] = "wsleep" => pc[u] = "wsleep") /\ (pc'[u] = "rsleep" => pc[u] = "rsleep")
      BY <1>27, <2>1, OnTheWay DEF Interrupt, cons
    <2> QED
      BY <2>2, <2>4, <2>5, Apart DEF Relied, TxEmpty, TxFull
  <1>28. ASSUME Transmit
        PROVE  Relied'
    <2>1. Emptying' /\ irq' \in BOOLEAN
      BY <1>28 DEF Transmit, Emptying, Idle, Relied
    <2> QED
      BY <1>28, <2>1 DEF Transmit, Relied, TxEmpty, TxFull, cons, uart
  <1>29. ASSUME NEW k \in left.hits, Hit(k)
        PROVE  Relied'
    BY <1>29 DEF Hit, Relied, Emptying, cons, uart, TxEmpty, TxFull
  <1>30. CASE UNCHANGED vars
    BY <1>30 DEF vars, device, uart, cons, Relied, Emptying, Idle, TxEmpty, TxFull
  <1> QED
    BY <1>1, <1>2, <1>3, <1>4, <1>5, <1>6, <1>7, <1>8, <1>9, <1>10, <1>11, <1>12, <1>13, <1>14,
       <1>15, <1>16, <1>17, <1>18, <1>19, <1>20, <1>21, <1>22, <1>23, <1>24, <1>25, <1>26, <1>27,
       <1>28, <1>29, <1>30 DEF Next, Step, Write, Read, Handler

-----------------------------------------------------------------------------
(* The edited line *)

InHandEcho == {"echo", "echothr", "store"}

\* How much is finished and unread, and how much is being edited.
LEMMA LineLengths ==
  ASSUME Editing
  PROVE  /\ (w - r) % UintMod \in Nat /\ (e - w) % UintMod \in Nat
         /\ (e - r) % UintMod = ((w - r) % UintMod) + ((e - w) % UintMod)
         /\ (e - r) % UintMod \in 0 .. INPUT_BUF_SIZE
         /\ (w - r) % UintMod = 0 <=> r = w
         /\ (e - w) % UintMod = 0 <=> e = w
  <1>1. r \in 0 .. UintMod - 1 /\ w \in 0 .. UintMod - 1 /\ e \in 0 .. UintMod - 1 /\ UintMod \in Nat \ {0}
        /\ INPUT_BUF_SIZE \in Nat /\ INPUT_BUF_SIZE < UintMod
    BY Sizes DEF Editing
  <1>2. (w - r) % UintMod \in Nat /\ (e - w) % UintMod \in Nat /\ ((w - r) % UintMod = 0 <=> r = w) /\ ((e - w) % UintMod = 0 <=> e = w)
    <2>1. (w - r) % UintMod \in 0 .. UintMod - 1 /\ ((w - r) % UintMod = 0 <=> r = w)
      <3>1. (w - r) % UintMod = IF r <= w THEN w - r ELSE w - r + UintMod
        BY <1>1, Counting
      <3> QED
        BY <1>1, <3>1
    <2>2. (e - w) % UintMod \in 0 .. UintMod - 1 /\ ((e - w) % UintMod = 0 <=> w = e)
      <3>1. (e - w) % UintMod = IF w <= e THEN e - w ELSE e - w + UintMod
        BY <1>1, Counting
      <3> QED
        BY <1>1, <3>1
    <2> QED
      BY <2>1, <2>2
  <1>3. ((w - r) % UintMod) + ((e - w) % UintMod) <= INPUT_BUF_SIZE
    BY <1>1, <1>2 DEF Editing
  <1>4. (e - r) % UintMod = ((w - r) % UintMod) + ((e - w) % UintMod)
    <2>1. ((w - r) % UintMod) + ((e - w) % UintMod) < UintMod
      BY <1>1, <1>2, <1>3
    <2> QED
      BY <1>1, <2>1, Sum
  <1> QED
    BY <1>1, <1>2, <1>3, <1>4

\* The indices stay, and nobody sets out to echo.
LEMMA QuietEditing ==
  ASSUME Editing, r' = r, w' = w, e' = e,
         Room \/ \A c \in Cpu : pc'[c] \in InHandEcho => pc[c] \in InHandEcho
  PROVE  Editing'
  <1>1. Room' = Room
    BY DEF Room
  <1>2. (\E c \in Cpu : pc'[c] \in InHandEcho) => Room
    BY DEF Editing, InHandEcho
  <1> QED
    BY <1>1, <1>2 DEF Editing, InHandEcho

\* Others do not set out to echo.
LEMMA OthersEcho ==
  ASSUME Sited, NEW t \in Thread, Others(t), t \in Cpu /\ pc'[t] \in InHandEcho => pc[t] \in InHandEcho
  PROVE  \A c \in Cpu : pc'[c] \in InHandEcho => pc[c] \in InHandEcho
  BY Apart DEF Others, InHandEcho

\* Who holds cons.lock is alone with the line.
LEMMA Alone ==
  ASSUME Sited, Placed, Locked, NEW t \in Thread, Others(t), pc[t] \in InCons, t \in Cpu => pc'[t] \notin InHandEcho
  PROVE  \A c \in Cpu : pc'[c] \notin InHandEcho
  <1>1. \A u \in Thread : pc[u] \in InCons => u = t
    BY OneHolder, Under
  <1>2. \A c \in Cpu : c # t => pc[c] \notin InHandEcho
    BY <1>1, Apart DEF InCons, InHandEcho
  <1> QED
    BY <1>2, Apart DEF Others, InHandEcho

\* A character is read.
LEMMA ReadEditing ==
  ASSUME Editing, r' = (r + 1) % UintMod, w' = w, e' = e, r # w, \A c \in Cpu : pc'[c] \notin InHandEcho
  PROVE  Editing' /\ (w' - r') % UintMod = ((w - r) % UintMod) - 1
  <1>1. r \in 0 .. UintMod - 1 /\ w \in 0 .. UintMod - 1 /\ UintMod \in Nat \ {0}
    BY Sizes DEF Editing
  <1>2. (w - ((r + 1) % UintMod)) % UintMod = ((w - r) % UintMod) - 1
    BY <1>1, Nearer
  <1>3. r' \in 0 .. UintMod - 1
    BY <1>1
  <1>4. (w - r) % UintMod \in Nat /\ (e - w) % UintMod \in Nat
    BY LineLengths
  <1>5. ((e' - w') % UintMod) + ((w' - r') % UintMod) <= INPUT_BUF_SIZE
    BY <1>2, <1>4, Sizes DEF Editing
  <1> QED
    BY <1>2, <1>3, <1>5 DEF Editing, InHandEcho

\* One is taken back.
LEMMA EraseEditing ==
  ASSUME Editing, e' = (e - 1) % UintMod, w' = w, r' = r, e # w, \A c \in Cpu : pc'[c] \notin InHandEcho
  PROVE  Editing' /\ (e' - w') % UintMod = ((e - w) % UintMod) - 1
  <1>1. e \in 0 .. UintMod - 1 /\ w \in 0 .. UintMod - 1 /\ UintMod \in Nat \ {0}
    BY Sizes DEF Editing
  <1>2. (((e - 1) % UintMod) - w) % UintMod = ((e - w) % UintMod) - 1
    BY <1>1, TakenBack
  <1>3. e' \in 0 .. UintMod - 1
    BY <1>1
  <1>4. (w - r) % UintMod \in Nat /\ (e - w) % UintMod \in Nat
    BY LineLengths
  <1>5. ((e' - w') % UintMod) + ((w' - r') % UintMod) <= INPUT_BUF_SIZE
    BY <1>2, <1>4, Sizes DEF Editing
  <1> QED
    BY <1>2, <1>3, <1>5 DEF Editing, InHandEcho

\* One is stored, and may finish the line.
LEMMA StoreEditing ==
  ASSUME Editing, Room, e' = (e + 1) % UintMod, w' \in {w, e'}, r' = r, \A c \in Cpu : pc'[c] \notin InHandEcho
  PROVE  /\ Editing'
         /\ (e' - w) % UintMod = ((e - w) % UintMod) + 1
         /\ (e' - r) % UintMod = ((e - r) % UintMod) + 1
  <1>1. e \in 0 .. UintMod - 1 /\ w \in 0 .. UintMod - 1 /\ r \in 0 .. UintMod - 1 /\ UintMod \in Nat \ {0}
        /\ INPUT_BUF_SIZE \in Nat /\ INPUT_BUF_SIZE < UintMod
    BY Sizes DEF Editing
  <1>2. /\ (w - r) % UintMod \in Nat /\ (e - w) % UintMod \in Nat
        /\ (e - r) % UintMod = ((w - r) % UintMod) + ((e - w) % UintMod)
        /\ (e - r) % UintMod < INPUT_BUF_SIZE
    BY LineLengths DEF Room
  <1>3. ((e - r) % UintMod) + 1 < UintMod /\ ((e - w) % UintMod) + 1 < UintMod
    BY <1>1, <1>2
  <1>4. (((e + 1) % UintMod) - r) % UintMod = ((e - r) % UintMod) + 1
    BY <1>1, <1>3, GoesOnByOne
  <1>5. (((e + 1) % UintMod) - w) % UintMod = ((e - w) % UintMod) + 1
    BY <1>1, <1>3, GoesOnByOne
  <1>6. e' \in 0 .. UintMod - 1 /\ w' \in 0 .. UintMod - 1
    BY <1>1
  <1>7. ((e' - w') % UintMod) + ((w' - r') % UintMod) <= INPUT_BUF_SIZE
    <2>1. CASE w' = w
      BY <2>1, <1>1, <1>2, <1>5
    <2>2. CASE w' = e'
      <3>1. (e' - e') % UintMod = 0
        BY <1>1, <1>6
      <3> QED
        BY <2>2, <3>1, <1>1, <1>2, <1>4
    <2> QED
      BY <2>1, <2>2
  <1> QED
    BY <1>1, <1>4, <1>5, <1>6, <1>7 DEF Editing, InHandEcho
\* The indices keep their distances.
LEMMA EditingStep ==
  ASSUME Sited, Placed, Locked, Editing, [Next]_vars
  PROVE  Editing'
  <1>1. ASSUME NEW t \in Thread, Acquire(t)
        PROVE  Editing'
    <2>1. t \in Thread /\ Others(t) /\ pc[t] \in {"consspin", "txspin"} /\ pc'[t] \in {"key", "read", "start", "put"}
      BY <1>1, AcquireMoves
    <2>2. r' = r /\ w' = w /\ e' = e
      BY <1>1 DEF Acquire, cons
    <2>3. \A c \in Cpu : pc'[c] \in InHandEcho => pc[c] \in InHandEcho
      BY <2>1, OthersEcho, Apart DEF InHandEcho
    <2> QED
      BY <2>2, <2>3, QuietEditing
  <1>2. ASSUME NEW t \in Thread, StartNext(t)
        PROVE  Editing'
    <2>1. t \in Thread /\ Others(t) /\ pc[t] = "start" /\ pc'[t] = "thr"
      BY <1>2, StartNextMoves
    <2>2. r' = r /\ w' = w /\ e' = e
      BY <1>2 DEF StartNext, cons
    <2>3. \A c \in Cpu : pc'[c] \in InHandEcho => pc[c] \in InHandEcho
      BY <2>1, OthersEcho, Apart DEF InHandEcho
    <2> QED
      BY <2>2, <2>3, QuietEditing
  <1>3. ASSUME NEW t \in Thread, StartWrites(t)
        PROVE  Editing'
    <2>1. t \in Thread /\ Others(t) /\ pc[t] = "thr" /\ pc'[t] = "start"
      BY <1>3, StartWritesMoves
    <2>2. r' = r /\ w' = w /\ e' = e
      BY <1>3 DEF StartWrites, cons
    <2>3. \A c \in Cpu : pc'[c] \in InHandEcho => pc[c] \in InHandEcho
      BY <2>1, OthersEcho, Apart DEF InHandEcho
    <2> QED
      BY <2>2, <2>3, QuietEditing
  <1>4. ASSUME NEW t \in Thread, StartEnds(t)
        PROVE  Editing'
    <2>1. t \in Thread /\ Others(t) /\ pc[t] = "start" /\ pc'[t] \in {"complete", "write"}
      BY <1>4, StartEndsMoves
    <2>2. r' = r /\ w' = w /\ e' = e
      BY <1>4 DEF StartEnds, cons
    <2>3. \A c \in Cpu : pc'[c] \in InHandEcho => pc[c] \in InHandEcho
      BY <2>1, OthersEcho, Apart DEF InHandEcho
    <2> QED
      BY <2>2, <2>3, QuietEditing
  <1>5. ASSUME NEW p \in Proc, Dispatch(p)
        PROVE  Editing'
    <2>1. p \in Thread /\ Others(p) /\ pc[p] \in {"rwoken", "wwoken"} /\ pc'[p] \in {"consspin", "txspin"}
      BY <1>5, DispatchMoves, Apart
    <2>2. r' = r /\ w' = w /\ e' = e
      BY <1>5 DEF Dispatch, cons
    <2>3. \A c \in Cpu : pc'[c] \in InHandEcho => pc[c] \in InHandEcho
      BY <2>1, OthersEcho, Apart DEF InHandEcho
    <2> QED
      BY <2>2, <2>3, QuietEditing
  <1>6. ASSUME NEW p \in Writer, PutCall(p)
        PROVE  Editing'
    <2>1. p \in Thread /\ Others(p) /\ pc[p] = "write" /\ pc'[p] = "txspin"
      BY <1>6, PutCallMoves, Apart
    <2>2. r' = r /\ w' = w /\ e' = e
      BY <1>6 DEF PutCall, cons
    <2>3. \A c \in Cpu : pc'[c] \in InHandEcho => pc[c] \in InHandEcho
      BY <2>1, OthersEcho, Apart DEF InHandEcho
    <2> QED
      BY <2>2, <2>3, QuietEditing
  <1>7. ASSUME NEW p \in Writer, PutSleeps(p)
        PROVE  Editing'
    <2>1. p \in Thread /\ Others(p) /\ pc[p] = "put" /\ pc'[p] = "wsleep"
      BY <1>7, PutSleepsMoves, Apart
    <2>2. r' = r /\ w' = w /\ e' = e
      BY <1>7 DEF PutSleeps, cons
    <2>3. \A c \in Cpu : pc'[c] \in InHandEcho => pc[c] \in InHandEcho
      BY <2>1, OthersEcho, Apart DEF InHandEcho
    <2> QED
      BY <2>2, <2>3, QuietEditing
  <1>8. ASSUME NEW p \in Writer, Put(p)
        PROVE  Editing'
    <2>1. p \in Thread /\ Others(p) /\ pc[p] = "put" /\ pc'[p] = "start"
      BY <1>8, PutMoves, Apart
    <2>2. r' = r /\ w' = w /\ e' = e
      BY <1>8 DEF Put, cons
    <2>3. \A c \in Cpu : pc'[c] \in InHandEcho => pc[c] \in InHandEcho
      BY <2>1, OthersEcho, Apart DEF InHandEcho
    <2> QED
      BY <2>2, <2>3, QuietEditing
  <1>9. ASSUME NEW p \in Writer, WriteReturns(p)
        PROVE  Editing'
    <2>1. p \in Thread /\ Others(p) /\ pc[p] = "write" /\ pc'[p] \in {"dead", "user"}
      BY <1>9, WriteReturnsMoves, Apart
    <2>2. r' = r /\ w' = w /\ e' = e
      BY <1>9 DEF WriteReturns, cons
    <2>3. \A c \in Cpu : pc'[c] \in InHandEcho => pc[c] \in InHandEcho
      BY <2>1, OthersEcho, Apart DEF InHandEcho
    <2> QED
      BY <2>2, <2>3, QuietEditing
  <1>10. ASSUME NEW p \in Reader, ReadSleeps(p)
        PROVE  Editing'
    <2>1. p \in Thread /\ Others(p) /\ pc[p] = "read" /\ pc'[p] = "rsleep"
      BY <1>10, ReadSleepsMoves, Apart
    <2>2. r' = r /\ w' = w /\ e' = e
      BY <1>10 DEF ReadSleeps, cons
    <2>3. \A c \in Cpu : pc'[c] \in InHandEcho => pc[c] \in InHandEcho
      BY <2>1, OthersEcho, Apart DEF InHandEcho
    <2> QED
      BY <2>2, <2>3, QuietEditing
  <1>11. ASSUME NEW p \in Reader, ReadStops(p)
        PROVE  Editing'
    <2>1. p \in Thread /\ Others(p) /\ pc[p] = "read" /\ pc'[p] \in {"dead", "user"}
      BY <1>11, ReadStopsMoves, Apart
    <2>2. r' = r /\ w' = w /\ e' = e
      BY <1>11 DEF ReadStops, cons
    <2>3. \A c \in Cpu : pc'[c] \in InHandEcho => pc[c] \in InHandEcho
      BY <2>1, OthersEcho, Apart DEF InHandEcho
    <2> QED
      BY <2>2, <2>3, QuietEditing
  <1>12. ASSUME NEW p \in Reader, ReadEnd(p)
        PROVE  Editing'
    <2>1. p \in Thread /\ Others(p) /\ pc[p] = "read" /\ pc'[p] \in {"dead", "user"}
      BY <1>12, ReadEndMoves, Apart
    <2>2. \A c \in Cpu : pc'[c] \notin InHandEcho
      BY <2>1, Alone, Apart DEF InCons, InHandEcho
    <2>3. r' \in {r, (r + 1) % UintMod} /\ w' = w /\ e' = e /\ r # w
      BY <1>12 DEF ReadEnd, Reads
    <2> QED
      BY <2>2, <2>3, ReadEditing, QuietEditing
  <1>13. ASSUME NEW p \in Reader, ReadChar(p)
        PROVE  Editing'
    <2>1. p \in Thread /\ Others(p) /\ pc[p] = "read" /\ pc'[p] = "read"
      BY <1>13, ReadCharMoves, Apart
    <2>2. \A c \in Cpu : pc'[c] \notin InHandEcho
      BY <2>1, Alone, Apart DEF InCons, InHandEcho
    <2>3. r' = (r + 1) % UintMod /\ w' = w /\ e' = e /\ r # w
      BY <1>13 DEF ReadChar, Reads
    <2> QED
      BY <2>2, <2>3, ReadEditing
  <1>14. ASSUME NEW p \in Reader, ReadFails(p)
        PROVE  Editing'
    <2>1. p \in Thread /\ Others(p) /\ pc[p] = "read" /\ pc'[p] \in {"dead", "user"}
      BY <1>14, ReadFailsMoves, Apart
    <2>2. \A c \in Cpu : pc'[c] \notin InHandEcho
      BY <2>1, Alone, Apart DEF InCons, InHandEcho
    <2>3. r' = (r + 1) % UintMod /\ w' = w /\ e' = e /\ r # w
      BY <1>14 DEF ReadFails, Reads
    <2> QED
      BY <2>2, <2>3, ReadEditing
  <1>15. ASSUME NEW c \in Cpu, Get(c)
        PROVE  Editing'
    <2>1. c \in Thread /\ Others(c) /\ pc[c] = "get" /\ pc'[c] \in {"consspin", "txspin"}
      BY <1>15, GetMoves, Apart
    <2>2. r' = r /\ w' = w /\ e' = e
      BY <1>15 DEF Get, cons
    <2>3. \A d \in Cpu : pc'[d] \in InHandEcho => pc[d] \in InHandEcho
      BY <2>1, OthersEcho, Apart DEF InHandEcho
    <2> QED
      BY <2>2, <2>3, QuietEditing
  <1>16. ASSUME NEW c \in Cpu, Erase(c)
        PROVE  Editing'
    <2>1. c \in Thread /\ Others(c) /\ pc[c] = "key" /\ pc'[c] = "erase"
      BY <1>16, EraseMoves, Apart
    <2>2. \A c1 \in Cpu : pc'[c1] \notin InHandEcho
      BY <2>1, Alone, Apart DEF InCons, InHandEcho
    <2>3. e' = (e - 1) % UintMod /\ w' = w /\ r' = r /\ e # w
      BY <1>16 DEF Erase, MayErase, Edited
    <2> QED
      BY <2>2, <2>3, EraseEditing
  <1>17. ASSUME NEW c \in Cpu, Ignore(c)
        PROVE  Editing'
    <2>1. c \in Thread /\ Others(c) /\ pc[c] = "key" /\ pc'[c] = "get"
      BY <1>17, IgnoreMoves, Apart
    <2>2. r' = r /\ w' = w /\ e' = e
      BY <1>17 DEF Ignore, cons, KeyDone
    <2>3. \A d \in Cpu : pc'[d] \in InHandEcho => pc[d] \in InHandEcho
      BY <2>1, OthersEcho, Apart DEF InHandEcho
    <2> QED
      BY <2>2, <2>3, QuietEditing
  <1>18. ASSUME NEW c \in Cpu, Swallow(c)
        PROVE  Editing'
    <2>1. c \in Thread /\ Others(c) /\ pc[c] = "key" /\ pc'[c] = "get"
      BY <1>18, SwallowMoves, Apart
    <2>2. r' = r /\ w' = w /\ e' = e
      BY <1>18 DEF Swallow, cons, KeyDone
    <2>3. \A d \in Cpu : pc'[d] \in InHandEcho => pc[d] \in InHandEcho
      BY <2>1, OthersEcho, Apart DEF InHandEcho
    <2> QED
      BY <2>2, <2>3, QuietEditing
  <1>19. ASSUME NEW c \in Cpu, Echo(c)
        PROVE  Editing'
    <2>1. c \in Thread /\ Others(c) /\ pc[c] = "key" /\ pc'[c] \in {"store", "echo"}
      BY <1>19, EchoMoves, Apart
    <2>2. Room /\ r' = r /\ w' = w /\ e' = e
      BY <1>19 DEF Echo
    <2> QED
      BY <2>2, QuietEditing
  <1>20. ASSUME NEW c \in Cpu, SyncSpin(c)
        PROVE  Editing'
    <2>1. c \in Thread /\ Others(c) /\ pc[c] \in {"echo", "erase"} /\ pc'[c] \in Sync
      BY <1>20, SyncSpinMoves, Apart
    <2>2. r' = r /\ w' = w /\ e' = e
      BY <1>20 DEF SyncSpin, cons
    <2>3. pc'[c] \in InHandEcho => pc[c] \in InHandEcho
      BY <1>20, Goes, Apart DEF SyncSpin, InHandEcho
    <2>4. \A d \in Cpu : pc'[d] \in InHandEcho => pc[d] \in InHandEcho
      BY <2>1, <2>3, OthersEcho
    <2> QED
      BY <2>2, <2>4, QuietEditing
  <1>21. ASSUME NEW c \in Cpu, SyncWrite(c)
        PROVE  Editing'
    <2>1. c \in Thread /\ Others(c) /\ pc[c] \in Sync /\ pc'[c] \in {"store", "key"}
      BY <1>21, SyncWriteMoves, Apart
    <2>2. r' = r /\ w' = w /\ e' = e
      BY <1>21 DEF SyncWrite, cons
    <2>3. pc'[c] \in InHandEcho => pc[c] \in InHandEcho
      BY <1>21, Goes, Apart DEF SyncWrite, InHandEcho
    <2>4. \A d \in Cpu : pc'[d] \in InHandEcho => pc[d] \in InHandEcho
      BY <2>1, <2>3, OthersEcho
    <2> QED
      BY <2>2, <2>4, QuietEditing
  <1>22. ASSUME NEW c \in Cpu, Store(c)
        PROVE  Editing'
    <2>1. c \in Thread /\ Others(c) /\ pc[c] = "store" /\ pc'[c] = "get"
      BY <1>22, StoreMoves, Apart
    <2>2. \A c1 \in Cpu : pc'[c1] \notin InHandEcho
      BY <2>1, Alone, Apart DEF InCons, InHandEcho
    <2>3. e' = (e + 1) % UintMod /\ w' \in {w, e'} /\ r' = r
      BY <1>22 DEF Store
    <2>4. Room
      BY <2>1 DEF Editing
    <2> QED
      BY <2>2, <2>3, <2>4, StoreEditing
  <1>23. ASSUME NEW c \in Cpu, Complete(c)
        PROVE  Editing'
    <2>1. c \in Thread /\ Others(c) /\ pc[c] = "complete" /\ pc'[c] = "idle"
      BY <1>23, CompleteMoves, Apart
    <2>2. r' = r /\ w' = w /\ e' = e
      BY <1>23 DEF Complete, cons
    <2>3. \A d \in Cpu : pc'[d] \in InHandEcho => pc[d] \in InHandEcho
      BY <2>1, OthersEcho, Apart DEF InHandEcho
    <2> QED
      BY <2>2, <2>3, QuietEditing
  <1>24. ASSUME NEW p \in Proc, Kill(p)
        PROVE  Editing'
    <2>1. p \in Thread /\ Others(p) /\ (pc'[p] = pc[p] \/ (pc[p] \in {"user", "rsleep", "wsleep"} /\ pc'[p] \in {"dead", "rwoken", "wwoken"}))
      BY <1>24, KillMoves, Apart
    <2>2. r' = r /\ w' = w /\ e' = e
      BY <1>24 DEF Kill, cons
    <2>3. \A c \in Cpu : pc'[c] \in InHandEcho => pc[c] \in InHandEcho
      BY <2>1, OthersEcho, Apart DEF InHandEcho
    <2> QED
      BY <2>2, <2>3, QuietEditing
  <1>25. ASSUME NEW p \in Writer, WriteCall(p)
        PROVE  Editing'
    <2>1. p \in Thread /\ Others(p) /\ pc[p] = "user" /\ pc'[p] = "write"
      BY <1>25, WriteCallMoves, Apart
    <2>2. r' = r /\ w' = w /\ e' = e
      BY <1>25 DEF WriteCall, cons
    <2>3. \A c \in Cpu : pc'[c] \in InHandEcho => pc[c] \in InHandEcho
      BY <2>1, OthersEcho, Apart DEF InHandEcho
    <2> QED
      BY <2>2, <2>3, QuietEditing
  <1>26. ASSUME NEW p \in Reader, ReadCall(p)
        PROVE  Editing'
    <2>1. p \in Thread /\ Others(p) /\ pc[p] = "user" /\ pc'[p] = "consspin"
      BY <1>26, ReadCallMoves, Apart
    <2>2. r' = r /\ w' = w /\ e' = e
      BY <1>26 DEF ReadCall, cons
    <2>3. \A c \in Cpu : pc'[c] \in InHandEcho => pc[c] \in InHandEcho
      BY <2>1, OthersEcho, Apart DEF InHandEcho
    <2> QED
      BY <2>2, <2>3, QuietEditing
  <1>27. ASSUME NEW c \in Cpu, Interrupt(c)
        PROVE  Editing'
    <2>1. c \in Thread /\ Others(c) /\ pc[c] = "idle" /\ pc'[c] = "get"
      BY <1>27, InterruptMoves, Apart
    <2>2. r' = r /\ w' = w /\ e' = e
      BY <1>27 DEF Interrupt, cons
    <2>3. \A d \in Cpu : pc'[d] \in InHandEcho => pc[d] \in InHandEcho
      BY <2>1, OthersEcho, Apart DEF InHandEcho
    <2> QED
      BY <2>2, <2>3, QuietEditing
  <1>28. ASSUME Transmit
        PROVE  Editing'
    BY <1>28, QuietEditing DEF Transmit, cons
  <1>29. ASSUME NEW k \in left.hits, Hit(k)
        PROVE  Editing'
    BY <1>29, QuietEditing DEF Hit, cons
  <1>30. CASE UNCHANGED vars
    BY <1>30, QuietEditing DEF vars, cons
  <1> QED
    BY <1>1, <1>2, <1>3, <1>4, <1>5, <1>6, <1>7, <1>8, <1>9, <1>10, <1>11, <1>12, <1>13, <1>14,
       <1>15, <1>16, <1>17, <1>18, <1>19, <1>20, <1>21, <1>22, <1>23, <1>24, <1>25, <1>26, <1>27,
       <1>28, <1>29, <1>30 DEF Next, Step, Write, Read, Handler

-----------------------------------------------------------------------------
(* The invariant holds *)

\* At the start nobody is in the kernel and nothing is in the buffers.
LEMMA Initially ==
  ASSUME Init
  PROVE  IInv
  <1>1. /\ DOMAIN pc = Thread /\ (\A p \in Proc : pc[p] = "user") /\ (\A c \in Cpu : pc[c] = "idle")
        /\ \A t \in Thread : pc[t] \in {"user", "idle"}
    BY Apart DEF Init, Thread
  <1>2. \A p \in Reader \cup Writer : p \in Proc
    BY DEF Proc
  <1>3. Sited
    BY <1>1, <1>2 DEF Sited, ReaderPlaces, WriterPlaces, HandlerPlaces
  <1>4. Kept
    <2>1. cpu \in [Cpu -> States] /\ lock \in [{"cons", "tx"} -> Cpu \cup {None}]
      BY DEF Init, States
    <2>2. left \in Stages
      BY ConsoleAssumption DEF ConsoleAssumption, Stages, Init
    <2>3. DOMAIN reg = Thread /\ n \in [Proc -> Int]
      BY DEF Init
    <2> QED
      BY <2>1, <2>2, <2>3 DEF Kept
  <1>5. at \in [Proc -> Cpu \cup {None}] /\ \A p \in Proc : at[p] = None
    BY DEF Init
  <1>6. Placed
    BY <1>1, <1>5 DEF Placed, Away
  <1>7. Counted
    <2>1. \A t \in Thread : ~Runs(t)
      BY <1>1, <1>5 DEF Runs, Thread
    <2>2. \A c \in Cpu : cpu[c].noff = 0 /\ cpu[c].intr
      BY DEF Init
    <2> QED
      BY <1>1, <2>1, <2>2 DEF Counted
  <1>8. Locked
    BY <1>1 DEF Locked, Init, Places, InCons, InTx
  <1>9. fifo = <<>> /\ sent = <<>> /\ DOMAIN fifo = {} /\ Len(fifo) = 0 /\ Len(sent) = 0
        /\ fifo \in Seq(Nat) /\ sent \in Seq(Nat) /\ \A t \in Thread : pc[t] # "thr"
    <2>1. fifo = <<>> /\ sent = <<>>
      BY DEF Init
    <2>2. fifo \in Seq(Nat) /\ sent \in Seq(Nat)
      BY <2>1, EmptySeq
    <2>3. DOMAIN fifo = {} /\ Len(fifo) = 0 /\ Len(sent) = 0
      BY <2>1
    <2> QED
      BY <1>1, <2>1, <2>2, <2>3
  <1>10. Fitting
    <2>1. Coming = 0 /\ Echoing = 0
      BY <1>1 DEF Coming, Echoing, Sync
    <2> QED
      BY <1>9, <2>1, DeviceSize DEF Fitting
  <1>11. Start \in 0 .. UintMod - 1 /\ (Start - Start) % UintMod = 0
    BY Sizes, ConsoleAssumption DEF ConsoleAssumption
  <1>12. Numbered
    <2>1. TxHeld = 0
      BY <1>11 DEF TxHeld, Init
    <2>2. ~Pending /\ Gone = 0
      BY <1>9 DEF Pending, Gone
    <2>3. txbuf \in [0 .. UART_TX_BUF_SIZE - 1 -> Nat] /\ written = 0
      BY DEF Init
    <2>4. txw \in 0 .. UintMod - 1 /\ txr \in 0 .. UintMod - 1
      BY <1>11 DEF Init
    <2> QED
      BY <1>9, <2>1, <2>2, <2>3, <2>4, Sizes DEF Numbered
  <1>13. Relied
    BY <1>1, Apart DEF Relied, Init, TxEmpty
  <1>14. Editing
    <2>1. r \in 0 .. UintMod - 1 /\ w \in 0 .. UintMod - 1 /\ e \in 0 .. UintMod - 1
          /\ (e - w) % UintMod = 0 /\ (w - r) % UintMod = 0
      BY <1>11 DEF Init
    <2>2. \A c \in Cpu : pc[c] \notin {"echo", "echothr", "store"}
      BY <1>1
    <2>3. ((e - w) % UintMod) + ((w - r) % UintMod) <= INPUT_BUF_SIZE
      BY <2>1, Sizes
    <2> QED
      BY <2>1, <2>2, <2>3 DEF Editing
  <1> QED
    BY <1>3, <1>4, <1>6, <1>7, <1>8, <1>10, <1>12, <1>13, <1>14 DEF IInv

\* Every step keeps it.
LEMMA Inductively ==
  ASSUME IInv, [Next]_vars
  PROVE  IInv'
  <1>1. Sited' /\ Kept'
    BY SitedStep, KeptStep DEF IInv
  <1>2. Placed' /\ Counted'
    BY KindOf, KindPlaced DEF IInv
  <1>3. Locked' /\ Fitting' /\ Numbered'
    BY LockedStep, FittingStep, NumberedStep DEF IInv
  <1>4. Relied' /\ Editing'
    BY ReliedStep, EditingStep DEF IInv
  <1> QED
    BY <1>1, <1>2, <1>3, <1>4 DEF IInv

\* The console's inductive invariant: where its threads are, what CPUs and locks count
\* of them, and what lies in the two buffers and the device.
THEOREM Invariance == Spec => []IInv
  <1>1. Init => IInv
    BY Initially
  <1>2. IInv /\ [Next]_vars => IInv'
    BY Inductively
  <1> QED
    BY <1>1, <1>2, PTL DEF Spec
-----------------------------------------------------------------------------
(* What it says *)

\* A thread at work under a lock has interrupts off.
LEMMA OffUnderLock ==
  ASSUME IInv, NEW l \in {"cons", "tx"}, NEW c \in Cpu, lock[l] = c
  PROVE  \E t \in Thread : pc[t] \in Places(l) /\ Runs(t) /\ CpuOf(t) = c /\ cpu[c].noff \in {1, 2} /\ ~cpu[c].intr
  <1>1. PICK t \in Thread : pc[t] \in Places(l)
    BY Apart DEF IInv, Locked
  <1>2. Runs(t) /\ CpuOf(t) = c
    BY <1>1, OneHolder DEF IInv
  <1>3. Depth(t) \in {1, 2}
    BY <1>1, Under DEF Depth
  <1>4. cpu[c].noff = Depth(t)
    BY <1>2 DEF IInv, Counted
  <1>5. ~cpu[c].intr
    BY <1>3, <1>4 DEF IInv, Counted
  <1> QED
    BY <1>1, <1>2, <1>3, <1>4, <1>5

\* An interrupt never comes in where its handler would wait for what it interrupted,
\* and a CPU out of all locks takes interrupts: nested push_off() and pop_off() match.
THEOREM HandlersNeverSelfDeadlock == Spec => []InterruptsMatchLocks
  <1>1. IInv => InterruptsMatchLocks
    <2>1. SUFFICES ASSUME IInv, NEW c \in Cpu
                   PROVE  /\ \A l \in {"cons", "tx"} : lock[l] = c => ~cpu[c].intr
                          /\ \A t \in Thread : Runs(t) /\ CpuOf(t) = c /\ Spinning(t) # None => lock[Spinning(t)] # c
                          /\ pc[c] = "idle" => (cpu[c].intr <=> cpu[c].noff = 0)
                          /\ cpu[c].noff = 0 => \A l \in {"cons", "tx"} : lock[l] # c
      BY DEF InterruptsMatchLocks
    <2>2. \A l \in {"cons", "tx"} : lock[l] = c => ~cpu[c].intr /\ cpu[c].noff # 0
      BY <2>1, OffUnderLock
    <2>3. ASSUME NEW t \in Thread, Runs(t), CpuOf(t) = c, Spinning(t) # None, lock[Spinning(t)] = c
          PROVE  FALSE
      <3>1. Spinning(t) \in {"cons", "tx"} /\ pc[t] \in {"consspin", "txspin"}
        BY <2>3 DEF Spinning
      <3>2. PICK u \in Thread : pc[u] \in Places(Spinning(t)) /\ Runs(u) /\ CpuOf(u) = c
        BY <2>1, <2>3, <3>1, OffUnderLock
      <3>3. u = t
        BY <2>1, <2>3, <3>2, Running DEF IInv
      <3> QED
        BY <3>1, <3>2, <3>3, Under
    <2>4. pc[c] = "idle" => (cpu[c].intr <=> cpu[c].noff = 0)
      BY <2>1 DEF IInv, Counted
    <2> QED
      BY <2>2, <2>3, <2>4
  <1> QED
    BY <1>1, Invariance, PTL

\* One sequence of numbers goes on where another has ended.
LEMMA GoesOn ==
  ASSUME NEW s \in Seq(Nat), NEW q \in Seq(Nat), \A k \in 1 .. Len(s) : s[k] = k,
         \A k \in 1 .. Len(q) : q[k] = Len(s) + k
  PROVE  s \o q \in Seq(Nat) /\ Len(s \o q) = Len(s) + Len(q) /\ \A k \in 1 .. Len(s \o q) : (s \o q)[k] = k
  <1>1. s \o q \in Seq(Nat) /\ Len(s \o q) = Len(s) + Len(q) /\ Len(s) \in Nat /\ Len(q) \in Nat
    OBVIOUS
  <1>2. ASSUME NEW k \in 1 .. Len(s) + Len(q)
        PROVE  (s \o q)[k] = k
    <2>1. (s \o q)[k] = IF k <= Len(s) THEN s[k] ELSE q[k - Len(s)]
      OBVIOUS
    <2>2. CASE k <= Len(s)
      BY <2>1, <2>2, <1>1
    <2>3. CASE ~(k <= Len(s))
      <3>1. k - Len(s) \in 1 .. Len(q)
        BY <1>1, <2>3
      <3>2. q[k - Len(s)] = Len(s) + (k - Len(s))
        BY <3>1
      <3> QED
        BY <1>1, <2>1, <2>3, <3>2
    <2> QED
      BY <2>2, <2>3
  <1> QED
    BY <1>1, <1>2

\* The numbers from one on, as a sequence.
LEMMA NumbersFrom ==
  ASSUME NEW g \in Nat, NEW m \in Nat
  PROVE  LET q == [k \in 1 .. m |-> g + k]
         IN  q \in Seq(Nat) /\ Len(q) = m /\ \A k \in 1 .. m : q[k] = g + k
  <1> DEFINE q == [k \in 1 .. m |-> g + k]
  <1>1. \A k \in 1 .. m : g + k \in Nat
    OBVIOUS
  <1>2. q \in Seq(Nat) /\ Len(q) = m
    BY <1>1, SMTT(30)
  <1> QED
    BY <1>2

\* The sequence with the one member of a set.
LEMMA OfOne ==
  /\ TheOne({}) = <<>>
  /\ \A x : TheOne({x}) = <<x>>
  BY DEF TheOne

\* What write() put is sent once and in order; echoes never cost it a byte.
THEOREM OutputIsInOrder == Spec => []SendsInOrder
  <1>1. IInv => TypeOK
    <2>1. SUFFICES ASSUME IInv
                   PROVE  TypeOK
      OBVIOUS
    <2>2. \A c \in Cpu : cpu[c].noff \in 0 .. 2
      <3>1. SUFFICES ASSUME NEW c \in Cpu
                     PROVE  cpu[c].noff \in 0 .. 2
        OBVIOUS
      <3>2. CASE \E t \in Thread : Runs(t) /\ CpuOf(t) = c
        BY <2>1, <3>2 DEF IInv, Counted, Depth
      <3>3. CASE ~\E t \in Thread : Runs(t) /\ CpuOf(t) = c
        BY <2>1, <3>3 DEF IInv, Counted
      <3> QED
        BY <3>2, <3>3
    <2>3. \A k \in {r, w, e, txr, txw} : k \in 0 .. UintMod - 1
      BY <2>1 DEF IInv, Editing, Numbered
    <2>4. ((e - w) % UintMod) + ((w - r) % UintMod) <= INPUT_BUF_SIZE /\ (txw - txr) % UintMod <= UART_TX_BUF_SIZE
      BY <2>1 DEF IInv, Editing, Numbered, TxHeld
    <2>5. at \in [Proc -> Cpu \cup {None}] /\ \A p, q \in Proc : at[p] = at[q] /\ p # q => at[p] = None
      BY <2>1 DEF IInv, Placed
    <2> QED
      BY <2>2, <2>3, <2>4, <2>5 DEF TypeOK
  <1>2. IInv => OnTheirWay = [k \in 1 .. written |-> k]
    <2>1. SUFFICES ASSUME IInv
                   PROVE  OnTheirWay = [k \in 1 .. written |-> k]
      OBVIOUS
    <2> DEFINE middle == IF Pending THEN <<Len(sent) + 1>> ELSE <<>>
               ring == [k \in 1 .. (txw - txr) % UintMod |-> txbuf[(txr + k - 1) % UART_TX_BUF_SIZE]]
    <2>2. sent \in Seq(Nat) /\ Len(sent) \in Nat /\ \A k \in 1 .. Len(sent) : sent[k] = k
      BY <2>1 DEF IInv, Numbered
    <2>3. \/ ~Pending /\ InFifo = {} /\ InHand = {}
          \/ Pending /\ InFifo = {Len(sent) + 1} /\ InHand = {}
          \/ Pending /\ InFifo = {} /\ InHand = {Len(sent) + 1}
      <3>1. CASE \E k \in DOMAIN fifo : fifo[k] # 0
        <4>1. InFifo = {Len(sent) + 1}
          BY <2>1, <2>2, <3>1 DEF IInv, Numbered, InFifo
        <4>2. \A t \in Thread : pc[t] # "thr"
          BY <2>1, <3>1 DEF IInv, Fitting
        <4> QED
          BY <3>1, <4>1, <4>2 DEF Pending, InHand
      <3>2. CASE \E t \in Thread : pc[t] = "thr"
        <4>1. InHand = {Len(sent) + 1}
          BY <2>1, <3>2 DEF IInv, Numbered, InHand
        <4>2. \A k \in DOMAIN fifo : fifo[k] = 0
          BY <2>1, <3>2 DEF IInv, Fitting
        <4> QED
          BY <3>2, <4>1, <4>2 DEF Pending, InFifo
      <3> QED
        BY <3>1, <3>2 DEF Pending, InFifo, InHand
    <2>4. (sent \o TheOne(InFifo)) \o TheOne(InHand) = sent \o middle
      <3>1. sent \o <<>> = sent /\ sent \o <<Len(sent) + 1>> \in Seq(Nat)
        BY <2>2
      <3>2. (sent \o <<Len(sent) + 1>>) \o <<>> = sent \o <<Len(sent) + 1>>
        BY <3>1
      <3> QED
        BY <2>3, <3>1, <3>2, OfOne
    <2>5. /\ sent \o middle \in Seq(Nat) /\ Len(sent \o middle) = Gone
          /\ \A k \in 1 .. Len(sent \o middle) : (sent \o middle)[k] = k
      <3>1. middle \in Seq(Nat) /\ Len(middle) = (IF Pending THEN 1 ELSE 0) /\ \A k \in 1 .. Len(middle) : middle[k] = Len(sent) + k
        BY <2>2
      <3>2. sent \o middle \in Seq(Nat) /\ Len(sent \o middle) = Len(sent) + Len(middle)
            /\ \A k \in 1 .. Len(sent \o middle) : (sent \o middle)[k] = k
        BY <2>2, <3>1, GoesOn
      <3> QED
        BY <2>2, <3>1, <3>2 DEF Gone
    <2>6. ring \in Seq(Nat) /\ Len(ring) = TxHeld /\ \A k \in 1 .. Len(ring) : ring[k] = Gone + k
      <3>1. TxHeld \in Nat /\ Gone \in Nat /\ txr \in Nat
        BY <2>1, <2>2, Ring, Sizes DEF IInv, Numbered, Gone
      <3>2. ASSUME NEW k \in 1 .. TxHeld
            PROVE  txbuf[(txr + k - 1) % UART_TX_BUF_SIZE] = Gone + k
        <4>1. k - 1 \in 0 .. TxHeld - 1 /\ txr + (k - 1) = txr + k - 1 /\ Gone + (k - 1) + 1 = Gone + k
          BY <3>1, <3>2
        <4>2. txbuf[(txr + (k - 1)) % UART_TX_BUF_SIZE] = Gone + (k - 1) + 1
          BY <2>1, <4>1 DEF IInv, Numbered
        <4> QED
          BY <4>1, <4>2
      <3>3. ring = [k \in 1 .. TxHeld |-> Gone + k]
        BY <3>1, <3>2 DEF TxHeld
      <3> HIDE DEF ring
      <3> QED
        BY <3>1, <3>3, NumbersFrom
    <2>7. OnTheirWay = (sent \o middle) \o ring
      BY <2>4 DEF OnTheirWay
    <2> HIDE DEF middle, ring
    <2>8. OnTheirWay \in Seq(Nat) /\ Len(OnTheirWay) = Gone + TxHeld /\ \A k \in 1 .. Len(OnTheirWay) : OnTheirWay[k] = k
      BY <2>5, <2>6, <2>7, GoesOn
    <2>9. written \in Nat /\ written = Gone + TxHeld
      BY <2>1 DEF IInv, Numbered
    <2> QED
      BY <2>8, <2>9
  <1>3. IInv => \A j, k \in DOMAIN fifo : fifo[j] # 0 /\ fifo[k] # 0 => j = k
    BY DEF IInv, Fitting
  <1>4. IInv => SendsInOrder
    BY <1>1, <1>2, <1>3 DEF SendsInOrder
  <1> QED
    BY <1>4, Invariance, PTL

\* Readers sleep only on nothing to read, writers only on a full ring, and nothing lies
\* in the ring without somebody to send it: no wakeup is lost.
THEOREM NobodySleepsInVain == Spec => []SleepersHaveReason
  <1>1. IInv => SleepersHaveReason
    <2>1. SUFFICES ASSUME IInv
                   PROVE  SleepersHaveReason
      OBVIOUS
    <2>2. (\E t \in Thread : pc[t] \in {"start", "thr"}) => lock["tx"] # None
      BY <2>1, OneHolder, Under, Apart DEF IInv, InTx
    <2>3. OutputIsUnderWay
      BY <2>1, <2>2 DEF IInv, Relied, Emptying, OutputIsUnderWay
    <2> QED
      BY <2>1, <2>3 DEF IInv, Relied, SleepersHaveReason
  <1> QED
    BY <1>1, Invariance, PTL
-----------------------------------------------------------------------------
(* What the buffer contains *)

\* Buffers with such contents.
Buffers(D) == [0 .. INPUT_BUF_SIZE - 1 -> D]

\* The m characters from place a on of a buffer f, which Chars() gives.
Text(f, a, m) == [k \in 1 .. m |-> f[(a + k - 1) % INPUT_BUF_SIZE]]

\* It is a sequence.
LEMMA TextIs ==
  ASSUME NEW D, NEW f \in Buffers(D), NEW a \in Nat, NEW m \in Nat
  PROVE  /\ Text(f, a, m) \in Seq(D) /\ Len(Text(f, a, m)) = m
         /\ \A k \in 1 .. m : Text(f, a, m)[k] = f[(a + k - 1) % INPUT_BUF_SIZE]
         /\ Text(f, a, m) = <<>> <=> m = 0
  <1>1. ASSUME NEW k \in 1 .. m
        PROVE  f[(a + k - 1) % INPUT_BUF_SIZE] \in D
    <2>1. (a + k - 1) % INPUT_BUF_SIZE \in 0 .. INPUT_BUF_SIZE - 1
      BY Sizes
    <2> QED
      BY <2>1 DEF Buffers
  <1>2. Text(f, a, m) \in Seq(D) /\ Len(Text(f, a, m)) = m
    BY <1>1 DEF Text
  <1> QED
    BY <1>2, EmptySeq DEF Text

\* Two that have the same characters are the same.
LEMMA TextSame ==
  ASSUME NEW f, NEW g, NEW a \in Nat, NEW m \in Nat,
         \A k \in 0 .. m - 1 : f[(a + k) % INPUT_BUF_SIZE] = g[(a + k) % INPUT_BUF_SIZE]
  PROVE  Text(f, a, m) = Text(g, a, m)
  <1>1. ASSUME NEW k \in 1 .. m
        PROVE  f[(a + k - 1) % INPUT_BUF_SIZE] = g[(a + k - 1) % INPUT_BUF_SIZE]
    <2>1. k - 1 \in 0 .. m - 1 /\ a + (k - 1) = a + k - 1
      OBVIOUS
    <2> QED
      BY <2>1
  <1> QED
    BY <1>1 DEF Text

\* The first character is read.
LEMMA TextTail ==
  ASSUME NEW D, NEW f \in Buffers(D), NEW a \in 0 .. UintMod - 1, NEW m \in Nat \ {0}
  PROVE  /\ Text(f, (a + 1) % UintMod, m - 1) = Tail(Text(f, a, m))
         /\ Head(Text(f, a, m)) = f[a % INPUT_BUF_SIZE] /\ Text(f, a, m) # <<>>
  <1> DEFINE s == Text(f, a, m)
             b == (a + 1) % UintMod
             t == Text(f, b, m - 1)
  <1>1. b \in Nat /\ (b = a + 1 \/ b = (a + 1) - UintMod) /\ m - 1 \in Nat
    BY Sizes, Counting
  <1>2. s \in Seq(D) /\ Len(s) = m /\ s # <<>> /\ \A k \in 1 .. m : s[k] = f[(a + k - 1) % INPUT_BUF_SIZE]
    BY TextIs
  <1>3. t \in Seq(D) /\ Len(t) = m - 1 /\ \A k \in 1 .. m - 1 : t[k] = f[(b + k - 1) % INPUT_BUF_SIZE]
    <2> DEFINE i == m - 1
    <2>1. i \in Nat
      OBVIOUS
    <2> HIDE DEF i, b
    <2>2. /\ Text(f, b, i) \in Seq(D) /\ Len(Text(f, b, i)) = i
          /\ \A k \in 1 .. i : Text(f, b, i)[k] = f[(b + k - 1) % INPUT_BUF_SIZE]
      BY <1>1, <2>1, TextIs
    <2> QED
      BY <2>2 DEF i
  <1>4. ASSUME NEW k \in 1 .. m - 1
        PROVE  t[k] = s[k + 1]
    <2>1. k + 1 \in 1 .. m /\ a + (k + 1) - 1 \in Int
      BY <1>1
    <2>2. b + k - 1 = a + (k + 1) - 1 \/ b + k - 1 = (a + (k + 1) - 1) - UintMod
      BY <1>1, Sizes
    <2>3. (b + k - 1) % INPUT_BUF_SIZE = (a + (k + 1) - 1) % INPUT_BUF_SIZE
      BY <2>1, <2>2, Wraps
    <2> HIDE DEF s, t, b
    <2> QED
      BY <1>2, <1>3, <2>1, <2>3
  <1>5. Tail(s) \in Seq(D) /\ Len(Tail(s)) = m - 1 /\ \A k \in 1 .. m - 1 : Tail(s)[k] = s[k + 1]
    <2> HIDE DEF s
    <2> QED
      BY <1>2, HeadTailProperties
  <1>6. t = Tail(s)
    <2> HIDE DEF s, t, b
    <2> QED
      BY <1>3, <1>4, <1>5, SeqEqual
  <1>7. Head(s) = s[1] /\ a + 1 - 1 = a
    <2> HIDE DEF s
    <2> QED
      BY <1>2
  <1> QED
    BY <1>2, <1>6, <1>7

\* The last one is taken back.
LEMMA TextFront ==
  ASSUME NEW D, NEW f \in Buffers(D), NEW a \in Nat, NEW m \in Nat \ {0}
  PROVE  Text(f, a, m - 1) = SubSeq(Text(f, a, m), 1, m - 1)
  <1> DEFINE s == Text(f, a, m)
             t == Text(f, a, m - 1)
  <1>1. s \in Seq(D) /\ Len(s) = m /\ \A k \in 1 .. m : s[k] = f[(a + k - 1) % INPUT_BUF_SIZE]
    BY TextIs
  <1>2. t \in Seq(D) /\ Len(t) = m - 1 /\ \A k \in 1 .. m - 1 : t[k] = f[(a + k - 1) % INPUT_BUF_SIZE]
    BY TextIs
  <1> HIDE DEF s, t
  <1>3. \A k \in 1 .. m - 1 : s[k] \in D /\ t[k] = s[k]
    <2>1. SUFFICES ASSUME NEW k \in 1 .. m - 1
                   PROVE  s[k] \in D /\ t[k] = s[k]
      OBVIOUS
    <2>2. k \in 1 .. m
      OBVIOUS
    <2>3. s \in Seq(D) /\ k \in 1 .. Len(s)
      BY <1>1, <2>2
    <2>4. s[k] \in D
      BY <2>3, ElementOfSeq
    <2>5. t[k] = s[k]
      BY <1>1, <1>2, <2>2
    <2> QED
      BY <2>4, <2>5
  <1>4. SubSeq(s, 1, m - 1) \in Seq(D) /\ Len(SubSeq(s, 1, m - 1)) = m - 1
        /\ \A k \in 1 .. m - 1 : SubSeq(s, 1, m - 1)[k] = s[k]
    BY <1>1
  <1>5. t = SubSeq(s, 1, m - 1)
    BY <1>2, <1>3, <1>4, SeqEqual
  <1> QED
    BY <1>5 DEF s, t

\* Buffer g is f with x at place k.
Puts(f, g, k, x) == g[k] = x /\ \A i \in 0 .. INPUT_BUF_SIZE - 1 : i # k => g[i] = f[i]

\* One is added behind it; the places before it keep theirs.
LEMMA TextAppend ==
  ASSUME NEW D, NEW f \in Buffers(D), NEW a \in Nat, NEW m \in 0 .. INPUT_BUF_SIZE - 1,
         NEW x \in D, NEW g \in Buffers(D), Puts(f, g, (a + m) % INPUT_BUF_SIZE, x)
  PROVE  /\ Text(g, a, m + 1) = Append(Text(f, a, m), x)
         /\ \A j \in 0 .. m : Text(g, a, j) = Text(f, a, j)
  <1>1. m \in Nat
    BY Sizes
  <1>2. g[(a + m) % INPUT_BUF_SIZE] = x
    BY DEF Puts
  <1>3. ASSUME NEW k \in 0 .. m - 1
        PROVE  g[(a + k) % INPUT_BUF_SIZE] = f[(a + k) % INPUT_BUF_SIZE]
    <2>1. a + k \in Int /\ a + m \in Int /\ a + k < a + m /\ a + m < (a + k) + INPUT_BUF_SIZE
          /\ INPUT_BUF_SIZE \in Nat \ {0} /\ (a + k) % INPUT_BUF_SIZE \in 0 .. INPUT_BUF_SIZE - 1
      BY Sizes
    <2>2. (a + k) % INPUT_BUF_SIZE # (a + m) % INPUT_BUF_SIZE
      BY <2>1, ModApart
    <2> QED
      BY <2>1, <2>2 DEF Puts
  <1>4. ASSUME NEW j \in 0 .. m
        PROVE  Text(g, a, j) = Text(f, a, j)
    <2>1. \A k \in 0 .. j - 1 : g[(a + k) % INPUT_BUF_SIZE] = f[(a + k) % INPUT_BUF_SIZE]
      BY <1>3
    <2>2. a \in Nat /\ j \in Nat
      OBVIOUS
    <2> QED
      BY <2>1, <2>2, TextSame
  <1> DEFINE s == Text(f, a, m)
             t == Text(g, a, m + 1)
  <1>5. s \in Seq(D) /\ Len(s) = m /\ \A k \in 1 .. m : s[k] = f[(a + k - 1) % INPUT_BUF_SIZE]
    BY <1>1, TextIs
  <1>6. t \in Seq(D) /\ Len(t) = m + 1 /\ \A k \in 1 .. m + 1 : t[k] = g[(a + k - 1) % INPUT_BUF_SIZE]
    <2> DEFINE i == m + 1
    <2>1. i \in Nat
      OBVIOUS
    <2> HIDE DEF i
    <2>2. \A h \in Buffers(D) : /\ Text(h, a, i) \in Seq(D) /\ Len(Text(h, a, i)) = i
                               /\ \A k \in 1 .. i : Text(h, a, i)[k] = h[(a + k - 1) % INPUT_BUF_SIZE]
      BY <2>1, TextIs
    <2> QED
      BY <2>2 DEF i
  <1>7. t[m + 1] = x /\ \A k \in 1 .. m : t[k] = s[k]
    <2>1. m + 1 \in 1 .. m + 1 /\ a + (m + 1) - 1 = a + m
      OBVIOUS
    <2>2. t[m + 1] = x
      <3> HIDE DEF s, t
      <3> QED
        BY <1>2, <1>6, <2>1
    <2>3. ASSUME NEW k \in 1 .. m
          PROVE  t[k] = s[k]
      <3>1. k - 1 \in 0 .. m - 1 /\ a + (k - 1) = a + k - 1 /\ k \in 1 .. m + 1
        OBVIOUS
      <3>2. g[(a + k - 1) % INPUT_BUF_SIZE] = f[(a + k - 1) % INPUT_BUF_SIZE]
        BY <1>3, <3>1
      <3> HIDE DEF s, t
      <3> QED
        BY <1>5, <1>6, <3>1, <3>2
    <2> QED
      BY <2>2, <2>3
  <1>8. t = Append(s, x)
    <2> HIDE DEF s, t
    <2>1. Append(s, x) \in Seq(D) /\ Len(Append(s, x)) = m + 1 /\ Append(s, x)[m + 1] = x
          /\ \A k \in 1 .. m : Append(s, x)[k] = s[k]
      BY <1>5
    <2>2. \A k \in 1 .. m + 1 : t[k] = Append(s, x)[k]
      BY <1>7, <2>1
    <2> QED
      BY <1>6, <2>1, <2>2, SeqEqual
  <1> QED
    BY <1>4, <1>8

\* One goes on where another ends.
LEMMA TextJoins ==
  ASSUME NEW D, NEW f \in Buffers(D), NEW a \in Nat, NEW m \in Nat, NEW b \in Nat, NEW j \in Nat,
         b = a + m \/ b = a + m - UintMod
  PROVE  Text(f, a, m + j) = Text(f, a, m) \o Text(f, b, j)
  <1> DEFINE s == Text(f, a, m)
             t == Text(f, b, j)
             u == Text(f, a, m + j)
  <1>1. s \in Seq(D) /\ Len(s) = m /\ \A k \in 1 .. m : s[k] = f[(a + k - 1) % INPUT_BUF_SIZE]
    BY TextIs
  <1>2. t \in Seq(D) /\ Len(t) = j /\ \A k \in 1 .. j : t[k] = f[(b + k - 1) % INPUT_BUF_SIZE]
    BY TextIs
  <1>3. u \in Seq(D) /\ Len(u) = m + j /\ \A k \in 1 .. m + j : u[k] = f[(a + k - 1) % INPUT_BUF_SIZE]
    BY TextIs
  <1>4. ASSUME NEW k \in 1 .. m + j, k > m
        PROVE  f[(a + k - 1) % INPUT_BUF_SIZE] = f[(b + (k - m) - 1) % INPUT_BUF_SIZE]
    <2>1. a + k - 1 \in Int
      OBVIOUS
    <2>2. b + (k - m) - 1 = a + k - 1 \/ b + (k - m) - 1 = (a + k - 1) - UintMod
      BY <1>4, Sizes
    <2>3. (a + k - 1) % INPUT_BUF_SIZE = (b + (k - m) - 1) % INPUT_BUF_SIZE
      <3>1. ((a + k - 1) - UintMod) % INPUT_BUF_SIZE = (a + k - 1) % INPUT_BUF_SIZE
        BY <2>1, Wraps
      <3> QED
        BY <2>2, <3>1
    <2> QED
      BY <2>3
  <1> DEFINE v == s \o t
  <1>5. v \in Seq(D) /\ Len(v) = m + j
        /\ \A k \in 1 .. m + j : v[k] = IF k <= m THEN s[k] ELSE t[k - m]
    <2> HIDE DEF s, t
    <2>1. s \in Seq(D) /\ t \in Seq(D) /\ Len(s) = m /\ Len(t) = j
      BY <1>1, <1>2
    <2>2. /\ v \in Seq(D) /\ Len(v) = Len(s) + Len(t)
          /\ \A k \in 1 .. Len(s) + Len(t) : v[k] = IF k <= Len(s) THEN s[k] ELSE t[k - Len(s)]
      BY <2>1, ConcatProperties
    <2> QED
      BY <2>1, <2>2
  <1>6. ASSUME NEW k \in 1 .. m + j
        PROVE  u[k] = v[k]
    <2>1. CASE k <= m
      <3> HIDE DEF s, t, u, v
      <3>1. k \in 1 .. m
        BY <2>1
      <3> QED
        BY <1>1, <1>3, <1>5, <2>1, <3>1
    <2>2. CASE k > m
      <3>1. k - m \in 1 .. j
        BY <2>2
      <3>2. t[k - m] = f[(b + (k - m) - 1) % INPUT_BUF_SIZE]
        BY <1>2, <3>1
      <3>3. f[(a + k - 1) % INPUT_BUF_SIZE] = f[(b + (k - m) - 1) % INPUT_BUF_SIZE]
        BY <1>4, <2>2
      <3> HIDE DEF s, t, u, v
      <3> QED
        BY <1>3, <1>5, <2>2, <3>2, <3>3
    <2>3. k <= m \/ k > m
      OBVIOUS
    <2> QED
      BY <2>1, <2>2, <2>3
  <1> HIDE DEF s, t, u, v
  <1>7. u = v
    BY <1>3, <1>5, <1>6, SeqEqual
  <1> QED
    BY <1>7 DEF s, t, u, v

\* What Chars() gives is such a text.
LEMMA CharsAreText ==
  /\ \A a, b : Chars(a, b) = Text(buf, a, (b - a) % UintMod)
  /\ Chars(r, w)' = Text(buf', r', (w' - r') % UintMod)
  /\ Chars(w, e)' = Text(buf', w', (e' - w') % UintMod)
  /\ Chars(r, e)' = Text(buf', r', (e' - r') % UintMod)
  BY DEF Chars, CharAt, Text

Letters == Characters \cup {NoChar}

\* What has been typed comes from the keys.
Lined == buf \in Buffers(Letters) /\ Chars(r, e) \in Seq(Characters)

\* Nothing moves.
LEMMA LineStays ==
  ASSUME UNCHANGED <<buf, r, w, e>>
  PROVE  Chars(r, w)' = Chars(r, w) /\ Chars(w, e)' = Chars(w, e) /\ Chars(r, e)' = Chars(r, e)
  BY CharsAreText

\* What readers and editors see, and where.
LEMMA LineSeen ==
  ASSUME Editing, Lined
  PROVE  /\ Chars(r, w) \in Seq(Letters) /\ Len(Chars(r, w)) = (w - r) % UintMod /\ (Chars(r, w) = <<>> <=> r = w)
         /\ Chars(w, e) \in Seq(Letters) /\ Len(Chars(w, e)) = (e - w) % UintMod /\ (Chars(w, e) = <<>> <=> e = w)
         /\ Chars(r, e) \in Seq(Letters) /\ Len(Chars(r, e)) = (e - r) % UintMod
         /\ r \in Nat /\ w \in Nat /\ e \in Nat /\ (w - r) % UintMod \in Nat /\ (e - w) % UintMod \in Nat /\ (e - r) % UintMod \in Nat
  <1>1. r \in Nat /\ w \in Nat /\ e \in Nat
    BY Sizes DEF Editing
  <1>2. /\ (w - r) % UintMod \in Nat /\ (e - w) % UintMod \in Nat /\ (e - r) % UintMod \in Nat
        /\ (w - r) % UintMod = 0 <=> r = w
        /\ (e - w) % UintMod = 0 <=> e = w
    BY LineLengths
  <1>3. \A a, m \in Nat : /\ Text(buf, a, m) \in Seq(Letters) /\ Len(Text(buf, a, m)) = m
                          /\ Text(buf, a, m) = <<>> <=> m = 0
    BY TextIs DEF Lined
  <1> QED
    BY <1>1, <1>2, <1>3, CharsAreText

\* A character is read.
LEMMA LineRead ==
  ASSUME Editing, Lined, r # w, r' = (r + 1) % UintMod, UNCHANGED <<buf, w, e>>, \A c \in Cpu : pc'[c] \notin InHandEcho
  PROVE  /\ Chars(r, w)' = Tail(Chars(r, w)) /\ Chars(w, e)' = Chars(w, e) /\ Chars(r, e)' = Tail(Chars(r, e))
         /\ Chars(r, w) # <<>> /\ Head(Chars(r, w)) = NextChar
         /\ Chars(r, e) # <<>> /\ NextChar \in Characters
  <1>1. r \in 0 .. UintMod - 1 /\ w \in 0 .. UintMod - 1 /\ e \in 0 .. UintMod - 1 /\ UintMod \in Nat \ {0}
    BY Sizes DEF Editing
  <1>2. (w - r) % UintMod \in Nat \ {0} /\ (e - r) % UintMod \in Nat \ {0} /\ r # e
    <2>1. (w - r) % UintMod \in Nat \ {0} /\ (e - r) % UintMod \in Nat \ {0}
      BY LineLengths
    <2>2. (r - r) % UintMod = 0
      BY <1>1
    <2> QED
      BY <2>1, <2>2
  <1>3. (w - r') % UintMod = ((w - r) % UintMod) - 1 /\ (e - r') % UintMod = ((e - r) % UintMod) - 1
    BY <1>1, <1>2, Nearer
  <1>4. \A m \in Nat \ {0} : /\ Text(buf, (r + 1) % UintMod, m - 1) = Tail(Text(buf, r, m))
                            /\ Head(Text(buf, r, m)) = buf[r % INPUT_BUF_SIZE] /\ Text(buf, r, m) # <<>>
    BY <1>1, TextTail DEF Lined
  <1>5. /\ Text(buf, r', (w - r') % UintMod) = Tail(Chars(r, w)) /\ Head(Chars(r, w)) = NextChar /\ Chars(r, w) # <<>>
        /\ Text(buf, r', (e - r') % UintMod) = Tail(Chars(r, e)) /\ Head(Chars(r, e)) = NextChar /\ Chars(r, e) # <<>>
    BY <1>2, <1>3, <1>4, CharsAreText DEF NextChar
  <1>6. Chars(r, w)' = Tail(Chars(r, w)) /\ Chars(w, e)' = Chars(w, e) /\ Chars(r, e)' = Tail(Chars(r, e))
    BY <1>5, CharsAreText
  <1>7. NextChar \in Characters
    BY <1>5, HeadTailProperties DEF Lined
  <1> QED
    BY <1>5, <1>6, <1>7

\* One is taken back.
LEMMA LineErase ==
  ASSUME Editing, Lined, e # w, e' = (e - 1) % UintMod, UNCHANGED <<buf, r, w>>, \A c \in Cpu : pc'[c] \notin InHandEcho
  PROVE  /\ Chars(w, e)' = SubSeq(Chars(w, e), 1, Len(Chars(w, e)) - 1) /\ Chars(w, e) # <<>>
         /\ Chars(r, w)' = Chars(r, w)
         /\ Chars(r, e)' = SubSeq(Chars(r, e), 1, Len(Chars(r, e)) - 1) /\ Chars(r, e) # <<>>
  <1>1. r \in 0 .. UintMod - 1 /\ w \in 0 .. UintMod - 1 /\ e \in 0 .. UintMod - 1 /\ UintMod \in Nat \ {0} /\ r \in Nat /\ w \in Nat
    BY Sizes DEF Editing
  <1>2. (e - w) % UintMod \in Nat \ {0} /\ (e - r) % UintMod \in Nat \ {0} /\ r # e
    <2>1. (e - w) % UintMod \in Nat \ {0} /\ (e - r) % UintMod \in Nat \ {0}
      BY LineLengths
    <2>2. (r - r) % UintMod = 0
      BY <1>1
    <2> QED
      BY <2>1, <2>2
  <1>3. (e' - w) % UintMod = ((e - w) % UintMod) - 1 /\ (e' - r) % UintMod = ((e - r) % UintMod) - 1
    <2>1. (((e - 1) % UintMod) - w) % UintMod = ((e - w) % UintMod) - 1
      BY <1>1, TakenBack
    <2>2. (((e - 1) % UintMod) - r) % UintMod = ((e - r) % UintMod) - 1
      <3>1. r # e /\ r \in 0 .. UintMod - 1 /\ e \in 0 .. UintMod - 1 /\ UintMod \in Nat \ {0}
        BY <1>1, <1>2
      <3> QED
        BY <3>1, TakenBack
    <2> QED
      BY <2>1, <2>2
  <1>4. \A a \in Nat : \A m \in Nat \ {0} : Text(buf, a, m - 1) = SubSeq(Text(buf, a, m), 1, m - 1)
    BY TextFront DEF Lined
  <1>5. /\ Len(Chars(w, e)) = (e - w) % UintMod /\ Len(Chars(r, e)) = (e - r) % UintMod
        /\ Chars(w, e) # <<>> /\ Chars(r, e) \in Seq(Letters)
    BY LineSeen
  <1>6. Chars(r, e) # <<>>
    BY <1>2, <1>5
  <1>7. /\ Text(buf, w, (e' - w) % UintMod) = SubSeq(Chars(w, e), 1, Len(Chars(w, e)) - 1)
        /\ Text(buf, r, (e' - r) % UintMod) = SubSeq(Chars(r, e), 1, Len(Chars(r, e)) - 1)
    <2>1. Chars(w, e) = Text(buf, w, (e - w) % UintMod) /\ Chars(r, e) = Text(buf, r, (e - r) % UintMod)
      BY CharsAreText
    <2>2. Text(buf, w, ((e - w) % UintMod) - 1) = SubSeq(Chars(w, e), 1, ((e - w) % UintMod) - 1)
      BY <1>1, <1>2, <1>4, <2>1
    <2>3. Text(buf, r, ((e - r) % UintMod) - 1) = SubSeq(Chars(r, e), 1, ((e - r) % UintMod) - 1)
      BY <1>1, <1>2, <1>4, <2>1
    <2> QED
      BY <1>3, <1>5, <2>2, <2>3
  <1> QED
    BY <1>5, <1>6, <1>7, CharsAreText

\* One is stored, and may finish the line.
LEMMA LineStore ==
  ASSUME Editing, Lined, Room, NEW x \in Letters, buf' = [buf EXCEPT ![e % INPUT_BUF_SIZE] = x],
         e' = (e + 1) % UintMod, w' \in {w, e'}, r' = r, \A c \in Cpu : pc'[c] \notin InHandEcho
  PROVE  /\ buf' \in Buffers(Letters) /\ Chars(r, e)' = Append(Chars(r, e), x)
         /\ Len(Chars(r, w)) + Len(Chars(w, e)) < INPUT_BUF_SIZE
         /\ (e' - r) % UintMod = Len(Chars(r, w)) + Len(Chars(w, e)) + 1
         /\ w' = w => Chars(r, w)' = Chars(r, w) /\ Chars(w, e)' = Append(Chars(w, e), x)
         /\ w' = e' => Chars(r, w)' = Chars(r, w) \o Append(Chars(w, e), x) /\ Chars(w, e)' = <<>>
  <1> DEFINE m == (w - r) % UintMod
             j == (e - w) % UintMod
             g == [buf EXCEPT ![e % INPUT_BUF_SIZE] = x]
  <1>1. /\ r \in Nat /\ w \in Nat /\ e \in Nat /\ m \in Nat /\ j \in Nat /\ UintMod \in Nat \ {0}
        /\ w \in 0 .. UintMod - 1 /\ r \in 0 .. UintMod - 1 /\ e \in 0 .. UintMod - 1
    BY LineSeen, Sizes DEF Editing
  <1>2. (e - r) % UintMod = m + j /\ m + j < INPUT_BUF_SIZE
    BY LineLengths DEF Room
  <1>3. (e' - w) % UintMod = j + 1 /\ (e' - r) % UintMod = m + j + 1
    BY <1>2, StoreEditing
  <1>4. e % INPUT_BUF_SIZE = (w + j) % INPUT_BUF_SIZE /\ e % INPUT_BUF_SIZE = (r + (m + j)) % INPUT_BUF_SIZE
    <2>1. e = w + j \/ e = (w + j) - UintMod
      BY <1>1, Distance
    <2>2. e = r + (m + j) \/ e = (r + (m + j)) - UintMod
      <3>1. e = r + ((e - r) % UintMod) \/ e = r + ((e - r) % UintMod) - UintMod
        BY <1>1, Distance
      <3> HIDE DEF m, j
      <3> QED
        BY <1>1, <1>2, <3>1
    <2> HIDE DEF m, j
    <2>3. w + j \in Int /\ r + (m + j) \in Int
      BY <1>1
    <2> QED
      BY <2>1, <2>2, <2>3, Wraps
  <1>5. w = r + m \/ w = r + m - UintMod
    BY <1>1, Distance
  <1>6. Chars(r, w) = Text(buf, r, m) /\ Chars(w, e) = Text(buf, w, j) /\ Chars(r, e) = Text(buf, r, m + j)
    BY <1>2, CharsAreText
  <1>7. j \in 0 .. INPUT_BUF_SIZE - 1 /\ m + j \in 0 .. INPUT_BUF_SIZE - 1 /\ m \in 0 .. m + j
    <2> HIDE DEF m, j
    <2> QED
      BY <1>1, <1>2, Sizes
  <1> HIDE DEF m, j
  <1> DEFINE D == Letters
  <1> HIDE DEF D
  <1>8. buf \in Buffers(D) /\ x \in D
    BY DEF Lined, D
  <1>9. e % INPUT_BUF_SIZE \in 0 .. INPUT_BUF_SIZE - 1
    BY <1>1, Sizes
  <1>10. g \in Buffers(D) /\ Puts(buf, g, e % INPUT_BUF_SIZE, x)
    BY <1>8, <1>9 DEF Buffers, Puts
  <1> HIDE DEF g
  <1>11. Text(g, r, m + j + 1) = Append(Text(buf, r, m + j), x) /\ Text(g, r, m) = Text(buf, r, m)
    <2> DEFINE d == m + j
    <2>1. Puts(buf, g, (r + d) % INPUT_BUF_SIZE, x) /\ d \in 0 .. INPUT_BUF_SIZE - 1 /\ m \in 0 .. d
      BY <1>4, <1>7, <1>10
    <2> HIDE DEF d
    <2>2. /\ Text(g, r, d + 1) = Append(Text(buf, r, d), x)
          /\ \A i \in 0 .. d : Text(g, r, i) = Text(buf, r, i)
      BY <1>1, <1>10, <1>8, <2>1, TextAppend
    <2> QED
      BY <2>1, <2>2 DEF d
  <1>12. Text(g, w, j + 1) = Append(Text(buf, w, j), x)
    <2>1. Puts(buf, g, (w + j) % INPUT_BUF_SIZE, x)
      BY <1>4, <1>10
    <2> QED
      BY <1>1, <1>7, <1>10, <1>8, <2>1, TextAppend
  <1>13. buf' = g
    BY DEF g
  <1>14. Chars(r, e)' = Append(Chars(r, e), x)
    BY <1>3, <1>6, <1>11, <1>13, CharsAreText
  <1>15. ASSUME w' = w
         PROVE  Chars(r, w)' = Chars(r, w) /\ Chars(w, e)' = Append(Chars(w, e), x)
    BY <1>3, <1>6, <1>11, <1>12, <1>13, <1>15, CharsAreText DEF m
  <1>16. ASSUME w' = e'
         PROVE  Chars(r, w)' = Chars(r, w) \o Append(Chars(w, e), x) /\ Chars(w, e)' = <<>>
    <2>1. Text(g, r, m + (j + 1)) = Text(g, r, m) \o Text(g, w, j + 1)
      <3> DEFINE i == j + 1
      <3>1. i \in Nat
        BY <1>1
      <3> HIDE DEF i
      <3>2. Text(g, r, m + i) = Text(g, r, m) \o Text(g, w, i)
        BY <1>1, <1>5, <1>10, <3>1, TextJoins
      <3> QED
        BY <3>2 DEF i
    <2>2. m + (j + 1) = m + j + 1
      BY <1>1
    <2>3. Chars(r, w)' = Text(g, r, m + j + 1)
      BY <1>3, <1>13, <1>16, CharsAreText
    <2>4. Chars(w, e)' = <<>>
      <3>1. (e' - e') % UintMod = 0
        <4>1. e' \in Int
          BY <1>1
        <4> QED
          BY <4>1, <1>1
      <3>2. Chars(w, e)' = Text(buf', e', 0)
        BY <1>16, <3>1, CharsAreText
      <3> QED
        BY <3>2 DEF Text
    <2> QED
      BY <1>6, <1>11, <1>12, <2>1, <2>2, <2>3, <2>4
  <1>17. Len(Chars(r, w)) = m /\ Len(Chars(w, e)) = j
    BY LineSeen DEF m, j
  <1> QED
    BY <1>1, <1>2, <1>3, <1>10, <1>13, <1>14, <1>15, <1>16, <1>17 DEF D
-----------------------------------------------------------------------------
(* What is typed *)

\* The scene is one of those given, and its keys are what is typed.
Fetched ==
  /\ \E s \in Scenes : left.kernel = s.kernel /\ left.hits = s.hits /\ left.keys <= s.keys
  /\ rx \in Seq(Characters)

\* A backspace that took a character goes on as a ^P, which has done its work.
Printed == [key |-> "^P", no |-> 0]
Carrying == {"consspin", "key", "erase", "erasethr"}
Carried ==
  /\ \A c \in Cpu : pc[c] \in Carrying => reg[c] \in Characters \cup {Printed}
  /\ \A c \in Cpu : pc[c] \in InHandEcho => reg[c] \in Characters

\* A read that goes on has not got the end of a line.
Gotten ==
  /\ got \in [Reader -> Seq(Characters)]
  /\ \A p \in Reader : pc[p] = "user" => got[p] = <<>>
  /\ \A p \in Reader : n[p] > 0 => \A k \in DOMAIN got[p] : got[p][k].key \notin LineEnds

\* What becomes of a character between the keyboard and the line.
LEMMA Alphabet ==
  /\ \A k \in EnderKeys : [key |-> k, no |-> 0] \in Characters
  /\ \A x \in Characters : x.key = "bs" => [x EXCEPT !.key = "^P"] = Printed
  /\ \A x \in Characters : Meant(x) \in Characters
  /\ LineEnds \in SUBSET {x.key : x \in Characters}
  <1>1. ASSUME NEW k \in EnderKeys
        PROVE  [key |-> k, no |-> 0] \in Characters
    <2>1. k # "x"
      BY DEF EnderKeys
    <2> QED
      BY <2>1 DEF Characters
  <1>2. ASSUME NEW x \in Characters, x.key = "bs"
        PROVE  [x EXCEPT !.key = "^P"] = Printed
    BY <1>2 DEF Characters, Printed
  <1>3. ASSUME NEW x \in Characters
        PROVE  Meant(x) \in Characters
    <2>1. \A k \in {"up", "down", "right", "left"} : [key |-> k, no |-> 0] \in Characters
      BY <1>1 DEF EnderKeys
    <2> QED
      BY <2>1 DEF Meant
  <1>4. LineEnds \in SUBSET {x.key : x \in Characters}
    <2>1. LineEnds \subseteq EnderKeys
      BY DEF LineEnds, EnderKeys
    <2>2. ASSUME NEW k \in EnderKeys
          PROVE  k \in {x.key : x \in Characters}
      <3>1. k = [key |-> k, no |-> 0].key
        OBVIOUS
      <3> QED
        BY <1>1, <3>1
    <2> QED
      BY <2>1, <2>2
  <1> QED
    BY <1>1, <1>2, <1>3, <1>4

\* A key that is hit.
LEMMA HitTyped ==
  ASSUME Kept, Fetched, NEW k \in left.hits, left.keys > 0
  PROVE  [key |-> k, no |-> IF k = "x" THEN left.keys ELSE 0] \in Characters
  <1>1. PICK s \in Scenes : left.kernel = s.kernel /\ left.hits = s.hits /\ left.keys <= s.keys
    BY DEF Fetched
  <1>2. left.keys \in Nat
    BY DEF Kept, Stages
  <1>3. s.keys \in Nat
    BY ConsoleAssumption DEF ConsoleAssumption
  <1>4. CASE k = "x"
    <2>1. left.keys \in 1 .. s.keys
      BY <1>1, <1>2, <1>3
    <2> QED
      BY <1>4, <2>1 DEF Characters
  <1>5. CASE k # "x"
    BY <1>1, <1>5 DEF Characters, KeysHit
  <1> QED
    BY <1>4, <1>5

\* The others carry what they carried.
LEMMA QuietCarried ==
  ASSUME Carried, NEW t \in Thread, Others(t), \A c \in Cpu : c # t => reg'[c] = reg[c],
         t \in Cpu => /\ pc'[t] \in Carrying => reg'[t] \in Characters \cup {Printed}
                      /\ pc'[t] \in InHandEcho => reg'[t] \in Characters
  PROVE  Carried'
  <1>1. \A c \in Cpu : c # t /\ pc'[c] \in Carrying \cup InHandEcho => pc'[c] = pc[c]
    BY Apart DEF Others, Carrying, InHandEcho
  <1> QED
    BY <1>1 DEF Carried

\* Reads go on as they were.
LEMMA QuietGotten ==
  ASSUME Gotten, got' = got, left'.kernel = left.kernel, \A p \in Reader : n'[p] = n[p],
         \A p \in Reader : pc'[p] = "user" => pc[p] = "user"
  PROVE  Gotten'
  <1>1. LineEnds' = LineEnds
    BY DEF LineEnds
  <1> QED
    BY <1>1 DEF Gotten

\* A read is over.
LEMMA LeaveGotten ==
  ASSUME Gotten, NEW p \in Reader, got' = [got EXCEPT ![p] = <<>>], left' = left, n' = [n EXCEPT ![p] = 0],
         DOMAIN n = Proc, Others(p)
  PROVE  Gotten'
  <1>1. LineEnds' = LineEnds
    BY DEF LineEnds
  <1>2. got' \in [Reader -> Seq(Characters)] /\ got'[p] = <<>> /\ \A q \in Reader : q # p => got'[q] = got[q]
    BY DEF Gotten
  <1>3. n'[p] = 0 /\ \A q \in Reader : q # p => n'[q] = n[q] /\ (pc'[q] = "user" => pc[q] = "user")
    BY Apart DEF Others
  <1> QED
    BY <1>1, <1>2, <1>3 DEF Gotten

\* A read gets one more.
LEMMA ReadGotten ==
  ASSUME Kept, Gotten, NEW p \in Reader, NextChar \in Characters, got' = [got EXCEPT ![p] = Append(@, NextChar)],
         left' = left, pc' = pc, pc[p] # "user", n[p] > 0,
         n' = [n EXCEPT ![p] = IF NextChar.key \in LineEnds THEN 0 ELSE @ - 1]
  PROVE  Gotten'
  <1>1. LineEnds' = LineEnds
    BY DEF LineEnds
  <1>2. got[p] \in Seq(Characters)
    BY DEF Gotten
  <1>3. got' \in [Reader -> Seq(Characters)] /\ got'[p] = Append(got[p], NextChar) /\ \A q \in Reader : q # p => got'[q] = got[q]
    BY <1>2 DEF Gotten
  <1>4. n[p] \in Int /\ (\A q \in Reader : q # p => n'[q] = n[q]) /\ n'[p] = IF NextChar.key \in LineEnds THEN 0 ELSE n[p] - 1
    BY Apart DEF Kept
  <1>5. n'[p] > 0 => \A k \in DOMAIN got'[p] : got'[p][k].key \notin LineEnds
    <2>1. SUFFICES ASSUME n'[p] > 0, NEW k \in DOMAIN Append(got[p], NextChar)
                   PROVE  Append(got[p], NextChar)[k].key \notin LineEnds
      BY <1>3
    <2>2. NextChar.key \notin LineEnds /\ \A i \in DOMAIN got[p] : got[p][i].key \notin LineEnds
      BY <1>4, <2>1 DEF Gotten
    <2> QED
      BY <1>3, <2>1, <2>2 DEF Gotten
  <1>6. \A q \in Reader : pc'[q] = "user" => got'[q] = <<>>
    BY <1>3 DEF Gotten
  <1>7. \A q \in Reader : n'[q] > 0 => \A k \in DOMAIN got'[q] : got'[q][k].key \notin LineEnds
    BY <1>3, <1>4, <1>5 DEF Gotten
  <1> QED
    BY <1>1, <1>3, <1>6, <1>7 DEF Gotten

\* What is fetched are characters.
LEMMA FetchedStep ==
  ASSUME Kept, Fetched, [Next]_vars
  PROVE  Fetched'
  <1>1. ASSUME NEW t \in Thread, Acquire(t)
        PROVE  Fetched'
    BY <1>1 DEF Acquire, Fetched, device
  <1>2. ASSUME NEW t \in Thread, StartNext(t)
        PROVE  Fetched'
    BY <1>2 DEF StartNext, Fetched, device
  <1>3. ASSUME NEW t \in Thread, StartWrites(t)
        PROVE  Fetched'
    BY <1>3 DEF StartWrites, Fetched
  <1>4. ASSUME NEW t \in Thread, StartEnds(t)
        PROVE  Fetched'
    BY <1>4 DEF StartEnds, Fetched, device
  <1>5. ASSUME NEW p \in Proc, Dispatch(p)
        PROVE  Fetched'
    BY <1>5 DEF Dispatch, Fetched, device
  <1>6. ASSUME NEW p \in Writer, PutCall(p)
        PROVE  Fetched'
    BY <1>6 DEF PutCall, Fetched, device
  <1>7. ASSUME NEW p \in Writer, PutSleeps(p)
        PROVE  Fetched'
    BY <1>7 DEF PutSleeps, Fetched, device
  <1>8. ASSUME NEW p \in Writer, Put(p)
        PROVE  Fetched'
    BY <1>8 DEF Put, Fetched, device
  <1>9. ASSUME NEW p \in Writer, WriteReturns(p)
        PROVE  Fetched'
    BY <1>9 DEF WriteReturns, Fetched, device
  <1>10. ASSUME NEW p \in Reader, ReadSleeps(p)
        PROVE  Fetched'
    BY <1>10 DEF ReadSleeps, Fetched, device
  <1>11. ASSUME NEW p \in Reader, ReadStops(p)
        PROVE  Fetched'
    BY <1>11 DEF ReadStops, Fetched, device
  <1>12. ASSUME NEW p \in Reader, ReadEnd(p)
        PROVE  Fetched'
    BY <1>12 DEF ReadEnd, Fetched, device
  <1>13. ASSUME NEW p \in Reader, ReadChar(p)
        PROVE  Fetched'
    BY <1>13 DEF ReadChar, Fetched, device
  <1>14. ASSUME NEW p \in Reader, ReadFails(p)
        PROVE  Fetched'
    BY <1>14 DEF ReadFails, Fetched, device
  <1>15. ASSUME NEW c \in Cpu, Get(c)
        PROVE  Fetched'
    <2>1. left' = left /\ (rx' = rx \/ (rx # <<>> /\ rx' = Tail(rx)))
      BY <1>15 DEF Get
    <2>2. rx' \in Seq(Characters)
      BY <2>1, HeadTailProperties DEF Fetched
    <2> QED
      BY <2>1, <2>2 DEF Fetched
  <1>16. ASSUME NEW c \in Cpu, Erase(c)
        PROVE  Fetched'
    BY <1>16 DEF Erase, Fetched, device
  <1>17. ASSUME NEW c \in Cpu, Ignore(c)
        PROVE  Fetched'
    BY <1>17 DEF Ignore, Fetched, device, KeyDone
  <1>18. ASSUME NEW c \in Cpu, Swallow(c)
        PROVE  Fetched'
    BY <1>18 DEF Swallow, Fetched, device, KeyDone
  <1>19. ASSUME NEW c \in Cpu, Echo(c)
        PROVE  Fetched'
    BY <1>19 DEF Echo, Fetched, device
  <1>20. ASSUME NEW c \in Cpu, SyncSpin(c)
        PROVE  Fetched'
    BY <1>20 DEF SyncSpin, Fetched, device
  <1>21. ASSUME NEW c \in Cpu, SyncWrite(c)
        PROVE  Fetched'
    BY <1>21 DEF SyncWrite, Fetched
  <1>22. ASSUME NEW c \in Cpu, Store(c)
        PROVE  Fetched'
    BY <1>22 DEF Store, Fetched, device
  <1>23. ASSUME NEW c \in Cpu, Complete(c)
        PROVE  Fetched'
    BY <1>23 DEF Complete, Fetched
  <1>24. ASSUME NEW p \in Proc, Kill(p)
        PROVE  Fetched'
    <2>1. rx' = rx /\ left'.kernel = left.kernel /\ left'.hits = left.hits /\ left'.keys = left.keys
      BY <1>24 DEF Kill, Kept, Stages
    <2> QED
      BY <2>1 DEF Fetched
  <1>25. ASSUME NEW p \in Writer, WriteCall(p)
        PROVE  Fetched'
    <2>1. rx' = rx /\ left'.kernel = left.kernel /\ left'.hits = left.hits /\ left'.keys = left.keys
      BY <1>25 DEF WriteCall, Kept, Stages
    <2> QED
      BY <2>1 DEF Fetched
  <1>26. ASSUME NEW p \in Reader, ReadCall(p)
        PROVE  Fetched'
    BY <1>26 DEF ReadCall, Fetched, device
  <1>27. ASSUME NEW c \in Cpu, Interrupt(c)
        PROVE  Fetched'
    BY <1>27 DEF Interrupt, Fetched
  <1>28. ASSUME Transmit
        PROVE  Fetched'
    BY <1>28 DEF Transmit, Fetched
  <1>29. ASSUME NEW k \in left.hits, Hit(k)
        PROVE  Fetched'
    <2>1. [key |-> k, no |-> IF k = "x" THEN left.keys ELSE 0] \in Characters
      BY <1>29, HitTyped DEF Hit
    <2>2. rx' \in Seq(Characters)
      BY <1>29, <2>1 DEF Hit, Fetched
    <2>3. left'.kernel = left.kernel /\ left'.hits = left.hits /\ left'.keys = left.keys - 1 /\ left.keys \in Nat
      BY <1>29 DEF Hit, Kept, Stages
    <2>4. PICK s \in Scenes : left.kernel = s.kernel /\ left.hits = s.hits /\ left.keys <= s.keys
      BY  DEF Fetched
    <2>5. s.keys \in Nat
      BY ConsoleAssumption DEF ConsoleAssumption
    <2>6. left'.keys <= s.keys
      BY <2>3, <2>4, <2>5
    <2> QED
      BY <2>2, <2>3, <2>4, <2>6 DEF Fetched
  <1>30. CASE UNCHANGED vars
    BY <1>30 DEF vars, device, Fetched
  <1> QED
    BY <1>1, <1>2, <1>3, <1>4, <1>5, <1>6, <1>7, <1>8, <1>9, <1>10, <1>11, <1>12, <1>13, <1>14,
       <1>15, <1>16, <1>17, <1>18, <1>19, <1>20, <1>21, <1>22, <1>23, <1>24, <1>25, <1>26, <1>27,
       <1>28, <1>29, <1>30 DEF Next, Step, Write, Read, Handler

\* What handlers carry are characters.
LEMMA CarriedStep ==
  ASSUME Sited, Kept, Fetched, Carried, [Next]_vars
  PROVE  Carried'
  <1>1. ASSUME NEW t \in Thread, Acquire(t)
        PROVE  Carried'
    <2>1. t \in Thread /\ Others(t) /\ pc[t] \in {"consspin", "txspin"} /\ pc'[t] \in {"key", "read", "start", "put"}
      BY <1>1, AcquireMoves
    <2>2. \A c \in Cpu : c # t => reg'[c] = reg[c]
      BY <1>1, Apart DEF Acquire, Kept
    <2>3. t \in Cpu => (pc'[t] \in Carrying => reg'[t] \in Characters \cup {Printed})
                      /\ (pc'[t] \in InHandEcho => reg'[t] \in Characters)
      <3>1. reg' = reg
        BY <1>1 DEF Acquire
      <3> QED
        BY <1>1, <2>1, <3>1, Goes, Apart DEF Acquire, Carried, Carrying, InHandEcho, Spinning
    <2> QED
      BY <2>1, <2>2, <2>3, QuietCarried
  <1>2. ASSUME NEW t \in Thread, StartNext(t)
        PROVE  Carried'
    <2>1. t \in Thread /\ Others(t) /\ pc[t] = "start" /\ pc'[t] = "thr"
      BY <1>2, StartNextMoves
    <2>2. \A c \in Cpu : c # t => reg'[c] = reg[c]
      BY <1>2, Apart DEF StartNext, Kept
    <2>3. t \in Cpu => (pc'[t] \in Carrying => reg'[t] \in Characters \cup {Printed})
                      /\ (pc'[t] \in InHandEcho => reg'[t] \in Characters)
      BY <2>1 DEF Carrying, InHandEcho, Carried
    <2> QED
      BY <2>1, <2>2, <2>3, QuietCarried
  <1>3. ASSUME NEW t \in Thread, StartWrites(t)
        PROVE  Carried'
    <2>1. t \in Thread /\ Others(t) /\ pc[t] = "thr" /\ pc'[t] = "start"
      BY <1>3, StartWritesMoves
    <2>2. \A c \in Cpu : c # t => reg'[c] = reg[c]
      BY <1>3, Apart DEF StartWrites, Kept
    <2>3. t \in Cpu => (pc'[t] \in Carrying => reg'[t] \in Characters \cup {Printed})
                      /\ (pc'[t] \in InHandEcho => reg'[t] \in Characters)
      BY <2>1 DEF Carrying, InHandEcho, Carried
    <2> QED
      BY <2>1, <2>2, <2>3, QuietCarried
  <1>4. ASSUME NEW t \in Thread, StartEnds(t)
        PROVE  Carried'
    <2>1. t \in Thread /\ Others(t) /\ pc[t] = "start" /\ pc'[t] \in {"complete", "write"}
      BY <1>4, StartEndsMoves
    <2>2. \A c \in Cpu : c # t => reg'[c] = reg[c]
      BY <1>4, Apart DEF StartEnds, Kept
    <2>3. t \in Cpu => (pc'[t] \in Carrying => reg'[t] \in Characters \cup {Printed})
                      /\ (pc'[t] \in InHandEcho => reg'[t] \in Characters)
      BY <2>1 DEF Carrying, InHandEcho, Carried
    <2> QED
      BY <2>1, <2>2, <2>3, QuietCarried
  <1>5. ASSUME NEW p \in Proc, Dispatch(p)
        PROVE  Carried'
    <2>1. p \in Thread /\ Others(p) /\ pc[p] \in {"rwoken", "wwoken"} /\ pc'[p] \in {"consspin", "txspin"}
      BY <1>5, DispatchMoves, Apart
    <2>2. \A c \in Cpu : c # p => reg'[c] = reg[c]
      BY <1>5, Apart DEF Dispatch, Kept
    <2> QED
      BY <2>1, <2>2, QuietCarried, Apart
  <1>6. ASSUME NEW p \in Writer, PutCall(p)
        PROVE  Carried'
    <2>1. p \in Thread /\ Others(p) /\ pc[p] = "write" /\ pc'[p] = "txspin"
      BY <1>6, PutCallMoves, Apart
    <2>2. \A c \in Cpu : c # p => reg'[c] = reg[c]
      BY <1>6, Apart DEF PutCall, Kept
    <2> QED
      BY <2>1, <2>2, QuietCarried, Apart
  <1>7. ASSUME NEW p \in Writer, PutSleeps(p)
        PROVE  Carried'
    <2>1. p \in Thread /\ Others(p) /\ pc[p] = "put" /\ pc'[p] = "wsleep"
      BY <1>7, PutSleepsMoves, Apart
    <2>2. \A c \in Cpu : c # p => reg'[c] = reg[c]
      BY <1>7, Apart DEF PutSleeps, Kept
    <2> QED
      BY <2>1, <2>2, QuietCarried, Apart
  <1>8. ASSUME NEW p \in Writer, Put(p)
        PROVE  Carried'
    <2>1. p \in Thread /\ Others(p) /\ pc[p] = "put" /\ pc'[p] = "start"
      BY <1>8, PutMoves, Apart
    <2>2. \A c \in Cpu : c # p => reg'[c] = reg[c]
      BY <1>8, Apart DEF Put, Kept
    <2> QED
      BY <2>1, <2>2, QuietCarried, Apart
  <1>9. ASSUME NEW p \in Writer, WriteReturns(p)
        PROVE  Carried'
    <2>1. p \in Thread /\ Others(p) /\ pc[p] = "write" /\ pc'[p] \in {"dead", "user"}
      BY <1>9, WriteReturnsMoves, Apart
    <2>2. \A c \in Cpu : c # p => reg'[c] = reg[c]
      BY <1>9, Apart DEF WriteReturns, Kept
    <2> QED
      BY <2>1, <2>2, QuietCarried, Apart
  <1>10. ASSUME NEW p \in Reader, ReadSleeps(p)
        PROVE  Carried'
    <2>1. p \in Thread /\ Others(p) /\ pc[p] = "read" /\ pc'[p] = "rsleep"
      BY <1>10, ReadSleepsMoves, Apart
    <2>2. \A c \in Cpu : c # p => reg'[c] = reg[c]
      BY <1>10, Apart DEF ReadSleeps, Kept
    <2> QED
      BY <2>1, <2>2, QuietCarried, Apart
  <1>11. ASSUME NEW p \in Reader, ReadStops(p)
        PROVE  Carried'
    <2>1. p \in Thread /\ Others(p) /\ pc[p] = "read" /\ pc'[p] \in {"dead", "user"}
      BY <1>11, ReadStopsMoves, Apart
    <2>2. \A c \in Cpu : c # p => reg'[c] = reg[c]
      BY <1>11, Apart DEF ReadStops, Kept
    <2> QED
      BY <2>1, <2>2, QuietCarried, Apart
  <1>12. ASSUME NEW p \in Reader, ReadEnd(p)
        PROVE  Carried'
    <2>1. p \in Thread /\ Others(p) /\ pc[p] = "read" /\ pc'[p] \in {"dead", "user"}
      BY <1>12, ReadEndMoves, Apart
    <2>2. \A c \in Cpu : c # p => reg'[c] = reg[c]
      BY <1>12, Apart DEF ReadEnd, Kept
    <2> QED
      BY <2>1, <2>2, QuietCarried, Apart
  <1>13. ASSUME NEW p \in Reader, ReadChar(p)
        PROVE  Carried'
    <2>1. p \in Thread /\ Others(p) /\ pc[p] = "read" /\ pc'[p] = "read"
      BY <1>13, ReadCharMoves, Apart
    <2>2. \A c \in Cpu : c # p => reg'[c] = reg[c]
      BY <1>13, Apart DEF ReadChar, Kept
    <2> QED
      BY <2>1, <2>2, QuietCarried, Apart
  <1>14. ASSUME NEW p \in Reader, ReadFails(p)
        PROVE  Carried'
    <2>1. p \in Thread /\ Others(p) /\ pc[p] = "read" /\ pc'[p] \in {"dead", "user"}
      BY <1>14, ReadFailsMoves, Apart
    <2>2. \A c \in Cpu : c # p => reg'[c] = reg[c]
      BY <1>14, Apart DEF ReadFails, Kept
    <2> QED
      BY <2>1, <2>2, QuietCarried, Apart
  <1>15. ASSUME NEW c \in Cpu, Get(c)
        PROVE  Carried'
    <2>1. c \in Thread /\ Others(c) /\ pc[c] = "get" /\ pc'[c] \in {"consspin", "txspin"}
      BY <1>15, GetMoves, Apart
    <2>2. \A d \in Cpu : d # c => reg'[d] = reg[d]
      BY <1>15, Apart DEF Get, Kept
    <2>3. c \in Cpu => (pc'[c] \in Carrying => reg'[c] \in Characters \cup {Printed})
                      /\ (pc'[c] \in InHandEcho => reg'[c] \in Characters)
      <3>1. CASE rx = <<>>
        BY <1>15, <3>1, <2>1, Goes, Apart DEF Get, Carrying, InHandEcho
      <3>2. CASE rx # <<>>
        <4>1. Head(rx) \in Characters
          BY <3>2, HeadTailProperties DEF Fetched
        <4>2. reg'[c] = Head(rx)
          BY <1>15, <3>2, Apart DEF Get, Kept
        <4> QED
          BY <4>1, <4>2, <2>1 DEF InHandEcho
      <3> QED
        BY <3>1, <3>2
    <2> QED
      BY <2>1, <2>2, <2>3, QuietCarried
  <1>16. ASSUME NEW c \in Cpu, Erase(c)
        PROVE  Carried'
    <2>1. c \in Thread /\ Others(c) /\ pc[c] = "key" /\ pc'[c] = "erase"
      BY <1>16, EraseMoves, Apart
    <2>2. \A d \in Cpu : d # c => reg'[d] = reg[d]
      BY <1>16, Apart DEF Erase, Kept
    <2>3. c \in Cpu => (pc'[c] \in Carrying => reg'[c] \in Characters \cup {Printed})
                      /\ (pc'[c] \in InHandEcho => reg'[c] \in Characters)
      <3>1. reg[c] \in Characters \cup {Printed}
        BY <2>1 DEF Carried, Carrying
      <3>2. reg'[c] = IF reg[c].key = "bs" THEN [reg[c] EXCEPT !.key = "^P"] ELSE reg[c]
        BY <1>16, <2>1 DEF Erase, Kept
      <3>3. reg[c].key = "bs" => reg[c] \in Characters
        BY <3>1 DEF Printed
      <3> QED
        BY <2>1, <3>1, <3>2, <3>3, Alphabet DEF InHandEcho
    <2> QED
      BY <2>1, <2>2, <2>3, QuietCarried
  <1>17. ASSUME NEW c \in Cpu, Ignore(c)
        PROVE  Carried'
    <2>1. c \in Thread /\ Others(c) /\ pc[c] = "key" /\ pc'[c] = "get"
      BY <1>17, IgnoreMoves, Apart
    <2>2. \A d \in Cpu : d # c => reg'[d] = reg[d]
      BY <1>17, Apart DEF Ignore, Kept, KeyDone
    <2>3. c \in Cpu => (pc'[c] \in Carrying => reg'[c] \in Characters \cup {Printed})
                      /\ (pc'[c] \in InHandEcho => reg'[c] \in Characters)
      BY <2>1 DEF Carrying, InHandEcho, Carried
    <2> QED
      BY <2>1, <2>2, <2>3, QuietCarried
  <1>18. ASSUME NEW c \in Cpu, Swallow(c)
        PROVE  Carried'
    <2>1. c \in Thread /\ Others(c) /\ pc[c] = "key" /\ pc'[c] = "get"
      BY <1>18, SwallowMoves, Apart
    <2>2. \A d \in Cpu : d # c => reg'[d] = reg[d]
      BY <1>18, Apart DEF Swallow, Kept, KeyDone
    <2>3. c \in Cpu => (pc'[c] \in Carrying => reg'[c] \in Characters \cup {Printed})
                      /\ (pc'[c] \in InHandEcho => reg'[c] \in Characters)
      BY <2>1 DEF Carrying, InHandEcho, Carried
    <2> QED
      BY <2>1, <2>2, <2>3, QuietCarried
  <1>19. ASSUME NEW c \in Cpu, Echo(c)
        PROVE  Carried'
    <2>1. c \in Thread /\ Others(c) /\ pc[c] = "key" /\ pc'[c] \in {"store", "echo"}
      BY <1>19, EchoMoves, Apart
    <2>2. \A d \in Cpu : d # c => reg'[d] = reg[d]
      BY <1>19, Apart DEF Echo, Kept
    <2>3. c \in Cpu => (pc'[c] \in Carrying => reg'[c] \in Characters \cup {Printed})
                      /\ (pc'[c] \in InHandEcho => reg'[c] \in Characters)
      <3>1. reg[c] \in Characters \cup {Printed} /\ reg[c].key \notin Control
        BY <1>19, <2>1 DEF Carried, Carrying, Echo
      <3>2. reg[c] \in Characters
        BY <3>1 DEF Printed, Control
      <3>3. reg'[c] = Meant(reg[c])
        BY <1>19, <2>1 DEF Echo, Kept
      <3> QED
        BY <2>1, <3>2, <3>3, Alphabet DEF Carrying
    <2> QED
      BY <2>1, <2>2, <2>3, QuietCarried
  <1>20. ASSUME NEW c \in Cpu, SyncSpin(c)
        PROVE  Carried'
    <2>1. c \in Thread /\ Others(c) /\ pc[c] \in {"echo", "erase"} /\ pc'[c] \in Sync
      BY <1>20, SyncSpinMoves, Apart
    <2>2. \A d \in Cpu : d # c => reg'[d] = reg[d]
      BY <1>20, Apart DEF SyncSpin, Kept
    <2>3. c \in Cpu => (pc'[c] \in Carrying => reg'[c] \in Characters \cup {Printed})
                      /\ (pc'[c] \in InHandEcho => reg'[c] \in Characters)
      <3>1. reg' = reg
        BY <1>20 DEF SyncSpin
      <3> QED
        BY <1>20, <2>1, <3>1, Goes, Apart DEF SyncSpin, Carried, Carrying, InHandEcho, Sync,
           Spinning
    <2> QED
      BY <2>1, <2>2, <2>3, QuietCarried
  <1>21. ASSUME NEW c \in Cpu, SyncWrite(c)
        PROVE  Carried'
    <2>1. c \in Thread /\ Others(c) /\ pc[c] \in Sync /\ pc'[c] \in {"store", "key"}
      BY <1>21, SyncWriteMoves, Apart
    <2>2. \A d \in Cpu : d # c => reg'[d] = reg[d]
      BY <1>21, Apart DEF SyncWrite, Kept
    <2>3. c \in Cpu => (pc'[c] \in Carrying => reg'[c] \in Characters \cup {Printed})
                      /\ (pc'[c] \in InHandEcho => reg'[c] \in Characters)
      <3>1. reg' = reg
        BY <1>21 DEF SyncWrite
      <3> QED
        BY <1>21, <2>1, <3>1, Goes, Apart DEF SyncWrite, Carried, Carrying, InHandEcho, Sync,
           Spinning
    <2> QED
      BY <2>1, <2>2, <2>3, QuietCarried
  <1>22. ASSUME NEW c \in Cpu, Store(c)
        PROVE  Carried'
    <2>1. c \in Thread /\ Others(c) /\ pc[c] = "store" /\ pc'[c] = "get"
      BY <1>22, StoreMoves, Apart
    <2>2. \A d \in Cpu : d # c => reg'[d] = reg[d]
      BY <1>22, Apart DEF Store, Kept
    <2>3. c \in Cpu => (pc'[c] \in Carrying => reg'[c] \in Characters \cup {Printed})
                      /\ (pc'[c] \in InHandEcho => reg'[c] \in Characters)
      BY <2>1 DEF Carrying, InHandEcho, Carried
    <2> QED
      BY <2>1, <2>2, <2>3, QuietCarried
  <1>23. ASSUME NEW c \in Cpu, Complete(c)
        PROVE  Carried'
    <2>1. c \in Thread /\ Others(c) /\ pc[c] = "complete" /\ pc'[c] = "idle"
      BY <1>23, CompleteMoves, Apart
    <2>2. \A d \in Cpu : d # c => reg'[d] = reg[d]
      BY <1>23, Apart DEF Complete, Kept
    <2>3. c \in Cpu => (pc'[c] \in Carrying => reg'[c] \in Characters \cup {Printed})
                      /\ (pc'[c] \in InHandEcho => reg'[c] \in Characters)
      BY <2>1 DEF Carrying, InHandEcho, Carried
    <2> QED
      BY <2>1, <2>2, <2>3, QuietCarried
  <1>24. ASSUME NEW p \in Proc, Kill(p)
        PROVE  Carried'
    <2>1. p \in Thread /\ Others(p) /\ (pc'[p] = pc[p] \/ (pc[p] \in {"user", "rsleep", "wsleep"} /\ pc'[p] \in {"dead", "rwoken", "wwoken"}))
      BY <1>24, KillMoves, Apart
    <2>2. \A c \in Cpu : c # p => reg'[c] = reg[c]
      BY <1>24, Apart DEF Kill, Kept
    <2> QED
      BY <2>1, <2>2, QuietCarried, Apart
  <1>25. ASSUME NEW p \in Writer, WriteCall(p)
        PROVE  Carried'
    <2>1. p \in Thread /\ Others(p) /\ pc[p] = "user" /\ pc'[p] = "write"
      BY <1>25, WriteCallMoves, Apart
    <2>2. \A c \in Cpu : c # p => reg'[c] = reg[c]
      BY <1>25, Apart DEF WriteCall, Kept
    <2> QED
      BY <2>1, <2>2, QuietCarried, Apart
  <1>26. ASSUME NEW p \in Reader, ReadCall(p)
        PROVE  Carried'
    <2>1. p \in Thread /\ Others(p) /\ pc[p] = "user" /\ pc'[p] = "consspin"
      BY <1>26, ReadCallMoves, Apart
    <2>2. \A c \in Cpu : c # p => reg'[c] = reg[c]
      BY <1>26, Apart DEF ReadCall, Kept
    <2> QED
      BY <2>1, <2>2, QuietCarried, Apart
  <1>27. ASSUME NEW c \in Cpu, Interrupt(c)
        PROVE  Carried'
    <2>1. c \in Thread /\ Others(c) /\ pc[c] = "idle" /\ pc'[c] = "get"
      BY <1>27, InterruptMoves, Apart
    <2>2. \A d \in Cpu : d # c => reg'[d] = reg[d]
      BY <1>27, Apart DEF Interrupt, Kept
    <2>3. c \in Cpu => (pc'[c] \in Carrying => reg'[c] \in Characters \cup {Printed})
                      /\ (pc'[c] \in InHandEcho => reg'[c] \in Characters)
      BY <2>1 DEF Carrying, InHandEcho, Carried
    <2> QED
      BY <2>1, <2>2, <2>3, QuietCarried
  <1>28. ASSUME Transmit
        PROVE  Carried'
    BY <1>28 DEF Transmit, Carried
  <1>29. ASSUME NEW k \in left.hits, Hit(k)
        PROVE  Carried'
    BY <1>29 DEF Hit, Carried
  <1>30. CASE UNCHANGED vars
    BY <1>30 DEF vars, Carried
  <1> QED
    BY <1>1, <1>2, <1>3, <1>4, <1>5, <1>6, <1>7, <1>8, <1>9, <1>10, <1>11, <1>12, <1>13, <1>14,
       <1>15, <1>16, <1>17, <1>18, <1>19, <1>20, <1>21, <1>22, <1>23, <1>24, <1>25, <1>26, <1>27,
       <1>28, <1>29, <1>30 DEF Next, Step, Write, Read, Handler

\* The line is made of characters.
LEMMA LinedStep ==
  ASSUME Sited, Kept, Placed, Locked, Editing, Carried, Lined, [Next]_vars
  PROVE  Lined'
  <1>1. ASSUME NEW t \in Thread, Acquire(t)
        PROVE  Lined'
    <2>1. UNCHANGED <<buf, r, w, e>>
      BY <1>1 DEF Acquire, cons
    <2> QED
      BY <2>1, LineStays DEF Lined
  <1>2. ASSUME NEW t \in Thread, StartNext(t)
        PROVE  Lined'
    <2>1. UNCHANGED <<buf, r, w, e>>
      BY <1>2 DEF StartNext, cons
    <2> QED
      BY <2>1, LineStays DEF Lined
  <1>3. ASSUME NEW t \in Thread, StartWrites(t)
        PROVE  Lined'
    <2>1. UNCHANGED <<buf, r, w, e>>
      BY <1>3 DEF StartWrites, cons
    <2> QED
      BY <2>1, LineStays DEF Lined
  <1>4. ASSUME NEW t \in Thread, StartEnds(t)
        PROVE  Lined'
    <2>1. UNCHANGED <<buf, r, w, e>>
      BY <1>4 DEF StartEnds, cons
    <2> QED
      BY <2>1, LineStays DEF Lined
  <1>5. ASSUME NEW p \in Proc, Dispatch(p)
        PROVE  Lined'
    <2>1. UNCHANGED <<buf, r, w, e>>
      BY <1>5 DEF Dispatch, cons
    <2> QED
      BY <2>1, LineStays DEF Lined
  <1>6. ASSUME NEW p \in Writer, PutCall(p)
        PROVE  Lined'
    <2>1. UNCHANGED <<buf, r, w, e>>
      BY <1>6 DEF PutCall, cons
    <2> QED
      BY <2>1, LineStays DEF Lined
  <1>7. ASSUME NEW p \in Writer, PutSleeps(p)
        PROVE  Lined'
    <2>1. UNCHANGED <<buf, r, w, e>>
      BY <1>7 DEF PutSleeps, cons
    <2> QED
      BY <2>1, LineStays DEF Lined
  <1>8. ASSUME NEW p \in Writer, Put(p)
        PROVE  Lined'
    <2>1. UNCHANGED <<buf, r, w, e>>
      BY <1>8 DEF Put, cons
    <2> QED
      BY <2>1, LineStays DEF Lined
  <1>9. ASSUME NEW p \in Writer, WriteReturns(p)
        PROVE  Lined'
    <2>1. UNCHANGED <<buf, r, w, e>>
      BY <1>9 DEF WriteReturns, cons
    <2> QED
      BY <2>1, LineStays DEF Lined
  <1>10. ASSUME NEW p \in Reader, ReadSleeps(p)
        PROVE  Lined'
    <2>1. UNCHANGED <<buf, r, w, e>>
      BY <1>10 DEF ReadSleeps, cons
    <2> QED
      BY <2>1, LineStays DEF Lined
  <1>11. ASSUME NEW p \in Reader, ReadStops(p)
        PROVE  Lined'
    <2>1. UNCHANGED <<buf, r, w, e>>
      BY <1>11 DEF ReadStops, cons
    <2> QED
      BY <2>1, LineStays DEF Lined
  <1>12. ASSUME NEW p \in Reader, ReadEnd(p)
        PROVE  Lined'
    <2>1. p \in Thread /\ Others(p) /\ pc[p] = "read" /\ pc'[p] \in {"dead", "user"}
      BY <1>12, ReadEndMoves, Apart
    <2>2. \A c \in Cpu : pc'[c] \notin InHandEcho
      BY <2>1, Alone, Apart DEF InCons, InHandEcho
    <2>3. r # w /\ UNCHANGED <<buf, w, e>> /\ r' \in {r, (r + 1) % UintMod}
      BY <1>12 DEF ReadEnd, Reads
    <2>4. Chars(r, e)' = Chars(r, e) \/ (Chars(r, e)' = Tail(Chars(r, e)) /\ Chars(r, e) # <<>>)
      BY <2>2, <2>3, LineRead, LineStays
    <2> QED
      BY <2>3, <2>4, HeadTailProperties DEF Lined
  <1>13. ASSUME NEW p \in Reader, ReadChar(p)
        PROVE  Lined'
    <2>1. p \in Thread /\ Others(p) /\ pc[p] = "read" /\ pc'[p] = "read"
      BY <1>13, ReadCharMoves, Apart
    <2>2. \A c \in Cpu : pc'[c] \notin InHandEcho
      BY <2>1, Alone, Apart DEF InCons, InHandEcho
    <2>3. r # w /\ UNCHANGED <<buf, w, e>> /\ r' \in {r, (r + 1) % UintMod}
      BY <1>13 DEF ReadChar, Reads
    <2>4. Chars(r, e)' = Chars(r, e) \/ (Chars(r, e)' = Tail(Chars(r, e)) /\ Chars(r, e) # <<>>)
      BY <2>2, <2>3, LineRead, LineStays
    <2> QED
      BY <2>3, <2>4, HeadTailProperties DEF Lined
  <1>14. ASSUME NEW p \in Reader, ReadFails(p)
        PROVE  Lined'
    <2>1. p \in Thread /\ Others(p) /\ pc[p] = "read" /\ pc'[p] \in {"dead", "user"}
      BY <1>14, ReadFailsMoves, Apart
    <2>2. \A c \in Cpu : pc'[c] \notin InHandEcho
      BY <2>1, Alone, Apart DEF InCons, InHandEcho
    <2>3. r # w /\ UNCHANGED <<buf, w, e>> /\ r' \in {r, (r + 1) % UintMod}
      BY <1>14 DEF ReadFails, Reads
    <2>4. Chars(r, e)' = Chars(r, e) \/ (Chars(r, e)' = Tail(Chars(r, e)) /\ Chars(r, e) # <<>>)
      BY <2>2, <2>3, LineRead, LineStays
    <2> QED
      BY <2>3, <2>4, HeadTailProperties DEF Lined
  <1>15. ASSUME NEW c \in Cpu, Get(c)
        PROVE  Lined'
    <2>1. UNCHANGED <<buf, r, w, e>>
      BY <1>15 DEF Get, cons
    <2> QED
      BY <2>1, LineStays DEF Lined
  <1>16. ASSUME NEW c \in Cpu, Erase(c)
        PROVE  Lined'
    <2>1. c \in Thread /\ Others(c) /\ pc[c] = "key" /\ pc'[c] = "erase"
      BY <1>16, EraseMoves, Apart
    <2>2. \A d \in Cpu : pc'[d] \notin InHandEcho
      BY <2>1, Alone, Apart DEF InCons, InHandEcho
    <2>3. e # w /\ UNCHANGED <<buf, r, w>> /\ e' = (e - 1) % UintMod
      BY <1>16 DEF Erase, MayErase, Edited
    <2>4. Chars(r, e)' = SubSeq(Chars(r, e), 1, Len(Chars(r, e)) - 1)
      BY <2>2, <2>3, LineErase
    <2> QED
      BY <2>3, <2>4 DEF Lined
  <1>17. ASSUME NEW c \in Cpu, Ignore(c)
        PROVE  Lined'
    <2>1. UNCHANGED <<buf, r, w, e>>
      BY <1>17 DEF Ignore, cons, KeyDone
    <2> QED
      BY <2>1, LineStays DEF Lined
  <1>18. ASSUME NEW c \in Cpu, Swallow(c)
        PROVE  Lined'
    <2>1. UNCHANGED <<buf, r, w, e>>
      BY <1>18 DEF Swallow, cons, KeyDone
    <2> QED
      BY <2>1, LineStays DEF Lined
  <1>19. ASSUME NEW c \in Cpu, Echo(c)
        PROVE  Lined'
    <2>1. UNCHANGED <<buf, r, w, e>>
      BY <1>19 DEF Echo, cons
    <2> QED
      BY <2>1, LineStays DEF Lined
  <1>20. ASSUME NEW c \in Cpu, SyncSpin(c)
        PROVE  Lined'
    <2>1. UNCHANGED <<buf, r, w, e>>
      BY <1>20 DEF SyncSpin, cons
    <2> QED
      BY <2>1, LineStays DEF Lined
  <1>21. ASSUME NEW c \in Cpu, SyncWrite(c)
        PROVE  Lined'
    <2>1. UNCHANGED <<buf, r, w, e>>
      BY <1>21 DEF SyncWrite, cons
    <2> QED
      BY <2>1, LineStays DEF Lined
  <1>22. ASSUME NEW c \in Cpu, Store(c)
        PROVE  Lined'
    <2>1. c \in Thread /\ Others(c) /\ pc[c] = "store" /\ pc'[c] = "get"
      BY <1>22, StoreMoves, Apart
    <2>2. \A d \in Cpu : pc'[d] \notin InHandEcho
      BY <2>1, Alone, Apart DEF InCons, InHandEcho
    <2>3. /\ buf' = [buf EXCEPT ![e % INPUT_BUF_SIZE] = reg[c]] /\ e' = (e + 1) % UintMod
          /\ w' \in {w, e'} /\ r' = r
      BY <1>22 DEF Store
    <2>4. Room
      BY <2>1 DEF Editing
    <2>5. reg[c] \in Characters /\ reg[c] \in Letters
      BY <2>1 DEF Carried, InHandEcho, Letters
    <2>6. buf' \in Buffers(Letters) /\ Chars(r, e)' = Append(Chars(r, e), reg[c])
      BY <2>2, <2>3, <2>4, <2>5, LineStore
    <2> QED
      BY <2>5, <2>6 DEF Lined
  <1>23. ASSUME NEW c \in Cpu, Complete(c)
        PROVE  Lined'
    <2>1. UNCHANGED <<buf, r, w, e>>
      BY <1>23 DEF Complete, cons
    <2> QED
      BY <2>1, LineStays DEF Lined
  <1>24. ASSUME NEW p \in Proc, Kill(p)
        PROVE  Lined'
    <2>1. UNCHANGED <<buf, r, w, e>>
      BY <1>24 DEF Kill, cons
    <2> QED
      BY <2>1, LineStays DEF Lined
  <1>25. ASSUME NEW p \in Writer, WriteCall(p)
        PROVE  Lined'
    <2>1. UNCHANGED <<buf, r, w, e>>
      BY <1>25 DEF WriteCall, cons
    <2> QED
      BY <2>1, LineStays DEF Lined
  <1>26. ASSUME NEW p \in Reader, ReadCall(p)
        PROVE  Lined'
    <2>1. UNCHANGED <<buf, r, w, e>>
      BY <1>26 DEF ReadCall, cons
    <2> QED
      BY <2>1, LineStays DEF Lined
  <1>27. ASSUME NEW c \in Cpu, Interrupt(c)
        PROVE  Lined'
    <2>1. UNCHANGED <<buf, r, w, e>>
      BY <1>27 DEF Interrupt, cons
    <2> QED
      BY <2>1, LineStays DEF Lined
  <1>28. ASSUME Transmit
        PROVE  Lined'
    BY <1>28, LineStays DEF Transmit, cons, Lined
  <1>29. ASSUME NEW k \in left.hits, Hit(k)
        PROVE  Lined'
    BY <1>29, LineStays DEF Hit, cons, Lined
  <1>30. CASE UNCHANGED vars
    BY <1>30, LineStays DEF vars, cons, Lined
  <1> QED
    BY <1>1, <1>2, <1>3, <1>4, <1>5, <1>6, <1>7, <1>8, <1>9, <1>10, <1>11, <1>12, <1>13, <1>14,
       <1>15, <1>16, <1>17, <1>18, <1>19, <1>20, <1>21, <1>22, <1>23, <1>24, <1>25, <1>26, <1>27,
       <1>28, <1>29, <1>30 DEF Next, Step, Write, Read, Handler

\* Reads get characters, up to the end of a line.
LEMMA GottenStep ==
  ASSUME Sited, Kept, Placed, Locked, Editing, Lined, Gotten, [Next]_vars
  PROVE  Gotten'
  <1>1. ASSUME NEW t \in Thread, Acquire(t)
        PROVE  Gotten'
    <2>1. t \in Thread /\ Others(t) /\ pc[t] \in {"consspin", "txspin"} /\ pc'[t] \in {"key", "read", "start", "put"}
      BY <1>1, AcquireMoves
    <2>2. got' = got /\ left'.kernel = left.kernel
      BY <1>1 DEF Acquire, calls, device
    <2>3. \A q \in Reader : n'[q] = n[q]
      BY <1>1, Apart DEF Acquire, calls
    <2>4. \A q \in Reader : pc'[q] = "user" => pc[q] = "user"
      BY <2>1, Apart DEF Others
    <2> QED
      BY <2>2, <2>3, <2>4, QuietGotten
  <1>2. ASSUME NEW t \in Thread, StartNext(t)
        PROVE  Gotten'
    <2>1. t \in Thread /\ Others(t) /\ pc[t] = "start" /\ pc'[t] = "thr"
      BY <1>2, StartNextMoves
    <2>2. got' = got /\ left'.kernel = left.kernel
      BY <1>2 DEF StartNext, calls, device
    <2>3. \A q \in Reader : n'[q] = n[q]
      BY <1>2, Apart DEF StartNext, calls
    <2>4. \A q \in Reader : pc'[q] = "user" => pc[q] = "user"
      BY <2>1, Apart DEF Others
    <2> QED
      BY <2>2, <2>3, <2>4, QuietGotten
  <1>3. ASSUME NEW t \in Thread, StartWrites(t)
        PROVE  Gotten'
    <2>1. t \in Thread /\ Others(t) /\ pc[t] = "thr" /\ pc'[t] = "start"
      BY <1>3, StartWritesMoves
    <2>2. got' = got /\ left'.kernel = left.kernel
      BY <1>3 DEF StartWrites, calls, device
    <2>3. \A q \in Reader : n'[q] = n[q]
      BY <1>3, Apart DEF StartWrites, calls
    <2>4. \A q \in Reader : pc'[q] = "user" => pc[q] = "user"
      BY <2>1, Apart DEF Others
    <2> QED
      BY <2>2, <2>3, <2>4, QuietGotten
  <1>4. ASSUME NEW t \in Thread, StartEnds(t)
        PROVE  Gotten'
    <2>1. t \in Thread /\ Others(t) /\ pc[t] = "start" /\ pc'[t] \in {"complete", "write"}
      BY <1>4, StartEndsMoves
    <2>2. got' = got /\ left'.kernel = left.kernel
      BY <1>4 DEF StartEnds, calls, device
    <2>3. \A q \in Reader : n'[q] = n[q]
      BY <1>4, Apart DEF StartEnds, calls
    <2>4. \A q \in Reader : pc'[q] = "user" => pc[q] = "user"
      BY <2>1, Apart DEF Others
    <2> QED
      BY <2>2, <2>3, <2>4, QuietGotten
  <1>5. ASSUME NEW p \in Proc, Dispatch(p)
        PROVE  Gotten'
    <2>1. p \in Thread /\ Others(p) /\ pc[p] \in {"rwoken", "wwoken"} /\ pc'[p] \in {"consspin", "txspin"}
      BY <1>5, DispatchMoves, Apart
    <2>2. got' = got /\ left'.kernel = left.kernel
      BY <1>5 DEF Dispatch, calls, device
    <2>3. \A q \in Reader : n'[q] = n[q]
      BY <1>5, Apart DEF Dispatch, calls
    <2>4. \A q \in Reader : pc'[q] = "user" => pc[q] = "user"
      BY <2>1, Apart DEF Others
    <2> QED
      BY <2>2, <2>3, <2>4, QuietGotten
  <1>6. ASSUME NEW p \in Writer, PutCall(p)
        PROVE  Gotten'
    <2>1. p \in Thread /\ Others(p) /\ pc[p] = "write" /\ pc'[p] = "txspin"
      BY <1>6, PutCallMoves, Apart
    <2>2. got' = got /\ left'.kernel = left.kernel
      BY <1>6 DEF PutCall, calls, device
    <2>3. \A q \in Reader : n'[q] = n[q]
      BY <1>6, Apart DEF PutCall, calls
    <2>4. \A q \in Reader : pc'[q] = "user" => pc[q] = "user"
      BY <2>1, Apart DEF Others
    <2> QED
      BY <2>2, <2>3, <2>4, QuietGotten
  <1>7. ASSUME NEW p \in Writer, PutSleeps(p)
        PROVE  Gotten'
    <2>1. p \in Thread /\ Others(p) /\ pc[p] = "put" /\ pc'[p] = "wsleep"
      BY <1>7, PutSleepsMoves, Apart
    <2>2. got' = got /\ left'.kernel = left.kernel
      BY <1>7 DEF PutSleeps, calls, device
    <2>3. \A q \in Reader : n'[q] = n[q]
      BY <1>7, Apart DEF PutSleeps, calls
    <2>4. \A q \in Reader : pc'[q] = "user" => pc[q] = "user"
      BY <2>1, Apart DEF Others
    <2> QED
      BY <2>2, <2>3, <2>4, QuietGotten
  <1>8. ASSUME NEW p \in Writer, Put(p)
        PROVE  Gotten'
    <2>1. p \in Thread /\ Others(p) /\ pc[p] = "put" /\ pc'[p] = "start"
      BY <1>8, PutMoves, Apart
    <2>2. got' = got /\ left'.kernel = left.kernel
      BY <1>8 DEF Put, calls, device
    <2>3. \A q \in Reader : n'[q] = n[q]
      BY <1>8, Apart DEF Put, calls, Kept
    <2>4. \A q \in Reader : pc'[q] = "user" => pc[q] = "user"
      BY <2>1, Apart DEF Others
    <2> QED
      BY <2>2, <2>3, <2>4, QuietGotten
  <1>9. ASSUME NEW p \in Writer, WriteReturns(p)
        PROVE  Gotten'
    <2>1. p \in Thread /\ Others(p) /\ pc[p] = "write" /\ pc'[p] \in {"dead", "user"}
      BY <1>9, WriteReturnsMoves, Apart
    <2>2. got' = got /\ left'.kernel = left.kernel
      BY <1>9 DEF WriteReturns, calls, device
    <2>3. \A q \in Reader : n'[q] = n[q]
      BY <1>9, Apart DEF WriteReturns, calls, Kept
    <2>4. \A q \in Reader : pc'[q] = "user" => pc[q] = "user"
      BY <2>1, Apart DEF Others
    <2> QED
      BY <2>2, <2>3, <2>4, QuietGotten
  <1>10. ASSUME NEW p \in Reader, ReadSleeps(p)
        PROVE  Gotten'
    <2>1. p \in Thread /\ Others(p) /\ pc[p] = "read" /\ pc'[p] = "rsleep"
      BY <1>10, ReadSleepsMoves, Apart
    <2>2. got' = got /\ left'.kernel = left.kernel
      BY <1>10 DEF ReadSleeps, calls, device
    <2>3. \A q \in Reader : n'[q] = n[q]
      BY <1>10, Apart DEF ReadSleeps, calls
    <2>4. \A q \in Reader : pc'[q] = "user" => pc[q] = "user"
      BY <2>1, Apart DEF Others
    <2> QED
      BY <2>2, <2>3, <2>4, QuietGotten
  <1>11. ASSUME NEW p \in Reader, ReadStops(p)
        PROVE  Gotten'
    <2>1. p \in Thread /\ Others(p) /\ pc[p] = "read" /\ pc'[p] \in {"dead", "user"}
      BY <1>11, ReadStopsMoves, Apart
    <2>2. got' = [got EXCEPT ![p] = <<>>] /\ left' = left /\ n' = [n EXCEPT ![p] = 0]
      BY <1>11 DEF ReadStops, ReadLeaves, device
    <2> QED
      BY <2>1, <2>2, LeaveGotten DEF Kept
  <1>12. ASSUME NEW p \in Reader, ReadEnd(p)
        PROVE  Gotten'
    <2>1. p \in Thread /\ Others(p) /\ pc[p] = "read" /\ pc'[p] \in {"dead", "user"}
      BY <1>12, ReadEndMoves, Apart
    <2>2. got' = [got EXCEPT ![p] = <<>>] /\ left' = left /\ n' = [n EXCEPT ![p] = 0]
      BY <1>12 DEF ReadEnd, ReadLeaves, device
    <2> QED
      BY <2>1, <2>2, LeaveGotten DEF Kept
  <1>13. ASSUME NEW p \in Reader, ReadChar(p)
        PROVE  Gotten'
    <2>1. p \in Thread /\ Others(p) /\ pc[p] = "read" /\ pc'[p] = "read"
      BY <1>13, ReadCharMoves, Apart
    <2>2. got' = [got EXCEPT ![p] = Append(@, NextChar)] /\ left' = left /\ pc' = pc
      BY <1>13 DEF ReadChar, device
    <2>3. n' = [n EXCEPT ![p] = IF NextChar.key \in LineEnds THEN 0 ELSE @ - 1] /\ n[p] > 0
      BY <1>13 DEF ReadChar, Reads
    <2>4. NextChar \in Characters
      <3>1. r # w /\ r' = (r + 1) % UintMod /\ UNCHANGED <<buf, w, e>>
        BY <1>13 DEF ReadChar, Reads
      <3>2. \A c \in Cpu : pc'[c] \notin InHandEcho
        BY <2>1, Alone, Apart DEF InCons, InHandEcho
      <3> QED
        BY <3>1, <3>2, LineRead
    <2> QED
      BY <2>1, <2>2, <2>3, <2>4, ReadGotten
  <1>14. ASSUME NEW p \in Reader, ReadFails(p)
        PROVE  Gotten'
    <2>1. p \in Thread /\ Others(p) /\ pc[p] = "read" /\ pc'[p] \in {"dead", "user"}
      BY <1>14, ReadFailsMoves, Apart
    <2>2. got' = [got EXCEPT ![p] = <<>>] /\ left' = left /\ n' = [n EXCEPT ![p] = 0]
      BY <1>14 DEF ReadFails, ReadLeaves, device
    <2> QED
      BY <2>1, <2>2, LeaveGotten DEF Kept
  <1>15. ASSUME NEW c \in Cpu, Get(c)
        PROVE  Gotten'
    <2>1. c \in Thread /\ Others(c) /\ pc[c] = "get" /\ pc'[c] \in {"consspin", "txspin"}
      BY <1>15, GetMoves, Apart
    <2>2. got' = got /\ left'.kernel = left.kernel
      BY <1>15 DEF Get, calls, device
    <2>3. \A q \in Reader : n'[q] = n[q]
      BY <1>15, Apart DEF Get, calls
    <2>4. \A q \in Reader : pc'[q] = "user" => pc[q] = "user"
      BY <2>1, Apart DEF Others
    <2> QED
      BY <2>2, <2>3, <2>4, QuietGotten
  <1>16. ASSUME NEW c \in Cpu, Erase(c)
        PROVE  Gotten'
    <2>1. c \in Thread /\ Others(c) /\ pc[c] = "key" /\ pc'[c] = "erase"
      BY <1>16, EraseMoves, Apart
    <2>2. got' = got /\ left'.kernel = left.kernel
      BY <1>16 DEF Erase, calls, device
    <2>3. \A q \in Reader : n'[q] = n[q]
      BY <1>16, Apart DEF Erase, calls
    <2>4. \A q \in Reader : pc'[q] = "user" => pc[q] = "user"
      BY <2>1, Apart DEF Others
    <2> QED
      BY <2>2, <2>3, <2>4, QuietGotten
  <1>17. ASSUME NEW c \in Cpu, Ignore(c)
        PROVE  Gotten'
    <2>1. c \in Thread /\ Others(c) /\ pc[c] = "key" /\ pc'[c] = "get"
      BY <1>17, IgnoreMoves, Apart
    <2>2. got' = got /\ left'.kernel = left.kernel
      BY <1>17 DEF Ignore, calls, device, KeyDone
    <2>3. \A q \in Reader : n'[q] = n[q]
      BY <1>17, Apart DEF Ignore, calls, KeyDone
    <2>4. \A q \in Reader : pc'[q] = "user" => pc[q] = "user"
      BY <2>1, Apart DEF Others
    <2> QED
      BY <2>2, <2>3, <2>4, QuietGotten
  <1>18. ASSUME NEW c \in Cpu, Swallow(c)
        PROVE  Gotten'
    <2>1. c \in Thread /\ Others(c) /\ pc[c] = "key" /\ pc'[c] = "get"
      BY <1>18, SwallowMoves, Apart
    <2>2. got' = got /\ left'.kernel = left.kernel
      BY <1>18 DEF Swallow, calls, device, KeyDone
    <2>3. \A q \in Reader : n'[q] = n[q]
      BY <1>18, Apart DEF Swallow, calls, KeyDone
    <2>4. \A q \in Reader : pc'[q] = "user" => pc[q] = "user"
      BY <2>1, Apart DEF Others
    <2> QED
      BY <2>2, <2>3, <2>4, QuietGotten
  <1>19. ASSUME NEW c \in Cpu, Echo(c)
        PROVE  Gotten'
    <2>1. c \in Thread /\ Others(c) /\ pc[c] = "key" /\ pc'[c] \in {"store", "echo"}
      BY <1>19, EchoMoves, Apart
    <2>2. got' = got /\ left'.kernel = left.kernel
      BY <1>19 DEF Echo, calls, device
    <2>3. \A q \in Reader : n'[q] = n[q]
      BY <1>19, Apart DEF Echo, calls
    <2>4. \A q \in Reader : pc'[q] = "user" => pc[q] = "user"
      BY <2>1, Apart DEF Others
    <2> QED
      BY <2>2, <2>3, <2>4, QuietGotten
  <1>20. ASSUME NEW c \in Cpu, SyncSpin(c)
        PROVE  Gotten'
    <2>1. c \in Thread /\ Others(c) /\ pc[c] \in {"echo", "erase"} /\ pc'[c] \in Sync
      BY <1>20, SyncSpinMoves, Apart
    <2>2. got' = got /\ left'.kernel = left.kernel
      BY <1>20 DEF SyncSpin, calls, device
    <2>3. \A q \in Reader : n'[q] = n[q]
      BY <1>20, Apart DEF SyncSpin, calls
    <2>4. \A q \in Reader : pc'[q] = "user" => pc[q] = "user"
      BY <2>1, Apart DEF Others, Sync
    <2> QED
      BY <2>2, <2>3, <2>4, QuietGotten
  <1>21. ASSUME NEW c \in Cpu, SyncWrite(c)
        PROVE  Gotten'
    <2>1. c \in Thread /\ Others(c) /\ pc[c] \in Sync /\ pc'[c] \in {"store", "key"}
      BY <1>21, SyncWriteMoves, Apart
    <2>2. got' = got /\ left'.kernel = left.kernel
      BY <1>21 DEF SyncWrite, calls, device
    <2>3. \A q \in Reader : n'[q] = n[q]
      BY <1>21, Apart DEF SyncWrite, calls
    <2>4. \A q \in Reader : pc'[q] = "user" => pc[q] = "user"
      BY <2>1, Apart DEF Others, Sync
    <2> QED
      BY <2>2, <2>3, <2>4, QuietGotten
  <1>22. ASSUME NEW c \in Cpu, Store(c)
        PROVE  Gotten'
    <2>1. c \in Thread /\ Others(c) /\ pc[c] = "store" /\ pc'[c] = "get"
      BY <1>22, StoreMoves, Apart
    <2>2. got' = got /\ left'.kernel = left.kernel
      BY <1>22 DEF Store, calls, device
    <2>3. \A q \in Reader : n'[q] = n[q]
      BY <1>22, Apart DEF Store, calls
    <2>4. \A q \in Reader : pc'[q] = "user" => pc[q] = "user"
      BY <2>1, Apart DEF Others
    <2> QED
      BY <2>2, <2>3, <2>4, QuietGotten
  <1>23. ASSUME NEW c \in Cpu, Complete(c)
        PROVE  Gotten'
    <2>1. c \in Thread /\ Others(c) /\ pc[c] = "complete" /\ pc'[c] = "idle"
      BY <1>23, CompleteMoves, Apart
    <2>2. got' = got /\ left'.kernel = left.kernel
      BY <1>23 DEF Complete, calls, device
    <2>3. \A q \in Reader : n'[q] = n[q]
      BY <1>23, Apart DEF Complete, calls
    <2>4. \A q \in Reader : pc'[q] = "user" => pc[q] = "user"
      BY <2>1, Apart DEF Others
    <2> QED
      BY <2>2, <2>3, <2>4, QuietGotten
  <1>24. ASSUME NEW p \in Proc, Kill(p)
        PROVE  Gotten'
    <2>1. p \in Thread /\ Others(p) /\ (pc'[p] = pc[p] \/ (pc[p] \in {"user", "rsleep", "wsleep"} /\ pc'[p] \in {"dead", "rwoken", "wwoken"}))
      BY <1>24, KillMoves, Apart
    <2>2. got' = got /\ left'.kernel = left.kernel
      BY <1>24 DEF Kill, Kept, Stages
    <2>3. \A q \in Reader : n'[q] = n[q]
      BY <1>24, Apart DEF Kill, calls
    <2>4. \A q \in Reader : pc'[q] = "user" => pc[q] = "user"
      BY <2>1, Apart DEF Others
    <2> QED
      BY <2>2, <2>3, <2>4, QuietGotten
  <1>25. ASSUME NEW p \in Writer, WriteCall(p)
        PROVE  Gotten'
    <2>1. p \in Thread /\ Others(p) /\ pc[p] = "user" /\ pc'[p] = "write"
      BY <1>25, WriteCallMoves, Apart
    <2>2. got' = got /\ left'.kernel = left.kernel
      BY <1>25 DEF WriteCall, Kept, Stages
    <2>3. \A q \in Reader : n'[q] = n[q]
      BY <1>25, Apart DEF WriteCall, calls, Kept
    <2>4. \A q \in Reader : pc'[q] = "user" => pc[q] = "user"
      BY <2>1, Apart DEF Others
    <2> QED
      BY <2>2, <2>3, <2>4, QuietGotten
  <1>26. ASSUME NEW p \in Reader, ReadCall(p)
        PROVE  Gotten'
    <2>1. p \in Thread /\ Others(p) /\ pc[p] = "user" /\ pc'[p] = "consspin"
      BY <1>26, ReadCallMoves, Apart
    <2>2. got' = got /\ left' = left /\ (\A q \in Reader : q # p => n'[q] = n[q]) /\ got[p] = <<>>
      BY <1>26, <2>1, Apart DEF ReadCall, Kept, device, Gotten
    <2>3. \A q \in Reader : pc'[q] = "user" => pc[q] = "user"
      BY <2>1, Apart DEF Others
    <2> QED
      BY <1>26, <2>2, <2>3 DEF Gotten, LineEnds
  <1>27. ASSUME NEW c \in Cpu, Interrupt(c)
        PROVE  Gotten'
    <2>1. c \in Thread /\ Others(c) /\ pc[c] = "idle" /\ pc'[c] = "get"
      BY <1>27, InterruptMoves, Apart
    <2>2. got' = got /\ left'.kernel = left.kernel
      BY <1>27 DEF Interrupt, calls, device
    <2>3. \A q \in Reader : n'[q] = n[q]
      BY <1>27, Apart DEF Interrupt, calls
    <2>4. \A q \in Reader : pc'[q] = "user" => pc[q] = "user"
      BY <2>1, Apart DEF Others
    <2> QED
      BY <2>2, <2>3, <2>4, QuietGotten
  <1>28. ASSUME Transmit
        PROVE  Gotten'
    <2>1. left'.kernel = left.kernel
      BY <1>28 DEF Transmit, Kept, Stages
    <2> QED
      BY <1>28, <2>1, QuietGotten DEF Transmit, calls
  <1>29. ASSUME NEW k \in left.hits, Hit(k)
        PROVE  Gotten'
    <2>1. left'.kernel = left.kernel
      BY <1>29 DEF Hit, Kept, Stages
    <2> QED
      BY <1>29, <2>1, QuietGotten DEF Hit, calls
  <1>30. CASE UNCHANGED vars
    BY <1>30, QuietGotten DEF vars, calls, device
  <1> QED
    BY <1>1, <1>2, <1>3, <1>4, <1>5, <1>6, <1>7, <1>8, <1>9, <1>10, <1>11, <1>12, <1>13, <1>14,
       <1>15, <1>16, <1>17, <1>18, <1>19, <1>20, <1>21, <1>22, <1>23, <1>24, <1>25, <1>26, <1>27,
       <1>28, <1>29, <1>30 DEF Next, Step, Write, Read, Handler

-----------------------------------------------------------------------------
(* The console is a line discipline *)

\* What is typed, on its way from the keys to the readers.
LinesInv == Fetched /\ Carried /\ Lined /\ Gotten

\* At the start there is none of it.
LEMMA NothingTyped ==
  ASSUME Init
  PROVE  LinesInv /\ Chars(r, w) = <<>> /\ Chars(w, e) = <<>>
  <1>1. Fetched
    <2>1. left \in Scenes /\ left.keys \in Nat /\ left.keys <= left.keys
      BY ConsoleAssumption DEF Init, ConsoleAssumption
    <2> QED
      BY <2>1 DEF Init, Fetched
  <1>2. Carried
    BY Apart DEF Init, Carried, Carrying, InHandEcho, Thread
  <1>3. Start \in 0 .. UintMod - 1 /\ (Start - Start) % UintMod = 0
    BY Sizes, ConsoleAssumption DEF ConsoleAssumption
  <1>4. Text(buf, Start, 0) = <<>>
    BY DEF Text
  <1>5. Chars(r, w) = <<>> /\ Chars(w, e) = <<>> /\ Chars(r, e) = <<>>
    BY <1>3, <1>4, CharsAreText DEF Init
  <1>6. buf \in Buffers(Letters)
    <2> DEFINE D == Letters
    <2>1. NoChar \in D
      BY DEF Letters
    <2> HIDE DEF D
    <2>2. buf \in Buffers(D)
      BY <2>1 DEF Init, Buffers
    <2> QED
      BY <2>2 DEF D
  <1>7. Gotten
    <2>1. got \in [Reader -> Seq(Characters)] /\ \A p \in Reader : got[p] = <<>>
      BY DEF Init
    <2>2. \A p \in Reader : n[p] = 0
      BY Apart DEF Init
    <2> QED
      BY <2>1, <2>2 DEF Gotten
  <1> QED
    BY <1>1, <1>2, <1>5, <1>6, <1>7 DEF LinesInv, Lined

\* Every step keeps it.
LEMMA TypedStep ==
  ASSUME IInv, LinesInv, [Next]_vars
  PROVE  LinesInv'
  BY FetchedStep, CarriedStep, LinedStep, GottenStep DEF IInv, LinesInv

\* A step that leaves buffer and readers alone is none of the line discipline.
LEMMA LinesRest ==
  ASSUME UNCHANGED <<buf, r, w, e>>, got' = got, left'.kernel = left.kernel
  PROVE  UNCHANGED Lines!vars
  BY LineStays DEF Lines!vars, LineEnds

\* What a reader finds in front of it.
LEMMA ReadsFirst ==
  ASSUME IInv, LinesInv, NEW p \in Reader, Reads(p), r' = (r + 1) % UintMod, UNCHANGED <<buf, w, e>>, Others(p)
  PROVE  /\ Chars(r, w) # <<>> /\ Head(Chars(r, w)) = NextChar
         /\ Chars(r, w)' = Tail(Chars(r, w)) /\ Chars(w, e)' = Chars(w, e)
  <1>1. p \in Thread /\ pc[p] \in InCons
    BY Apart DEF Reads, InCons
  <1>2. \A c \in Cpu : pc'[c] \notin InHandEcho
    BY <1>1, Alone, Apart DEF IInv, InHandEcho, InCons
  <1> QED
    BY <1>2, LineRead DEF IInv, LinesInv, Reads

\* A read that stops returns what it got.
LEMMA StopsIsReturn ==
  ASSUME NEW p \in Reader, ReadStops(p)
  PROVE  Lines!Return(p)
  <1>1. UNCHANGED <<buf, r, w, e>> /\ left' = left /\ got' = [got EXCEPT ![p] = <<>>]
    BY DEF ReadStops, ReadLeaves, cons, device
  <1> QED
    BY <1>1, LineStays DEF Lines!Return, LineEnds

\* The end of file is kept for the next read, or seen by this one.
LEMMA EndIsReadEnd ==
  ASSUME IInv, LinesInv, NEW p \in Reader, ReadEnd(p)
  PROVE  Lines!ReadEnd(p) \/ Lines!Return(p)
  <1>1. UNCHANGED <<buf, w, e>> /\ left' = left /\ got' = [got EXCEPT ![p] = <<>>] /\ Reads(p) /\ NextChar.key = "^D"
    BY DEF ReadEnd, ReadLeaves, device
  <1>2. CASE got[p] # <<>>
    <2>1. r' = r
      BY <1>2 DEF ReadEnd
    <2> QED
      BY <1>1, <2>1, LineStays DEF Lines!Return, LineEnds
  <1>3. CASE got[p] = <<>>
    <2>1. r' = (r + 1) % UintMod
      BY <1>3 DEF ReadEnd
    <2>2. /\ Chars(r, w) # <<>> /\ Head(Chars(r, w)) = NextChar
          /\ Chars(r, w)' = Tail(Chars(r, w)) /\ Chars(w, e)' = Chars(w, e)
      BY <1>1, <2>1, ReadEndMoves, ReadsFirst DEF IInv
    <2>3. got' = got
      BY <1>1, <1>3 DEF LinesInv, Gotten
    <2> QED
      BY <1>1, <1>3, <2>2, <2>3 DEF Lines!ReadEnd, LineEnds
  <1> QED
    BY <1>2, <1>3

\* A character is read by a read whose line has not ended.
LEMMA CharIsRead ==
  ASSUME IInv, LinesInv, NEW p \in Reader, ReadChar(p)
  PROVE  Lines!Read(p)
  <1>1. UNCHANGED <<buf, w, e>> /\ left' = left /\ got' = [got EXCEPT ![p] = Append(@, NextChar)] /\ Reads(p)
        /\ NextChar.key # "^D" /\ r' = (r + 1) % UintMod
    BY DEF ReadChar, device
  <1>2. /\ Chars(r, w) # <<>> /\ Head(Chars(r, w)) = NextChar
        /\ Chars(r, w)' = Tail(Chars(r, w)) /\ Chars(w, e)' = Chars(w, e)
    BY <1>1, ReadCharMoves, ReadsFirst DEF IInv
  <1>3. \A k \in DOMAIN got[p] : got[p][k].key \notin LineEnds
    BY <1>1 DEF Reads, LinesInv, Gotten
  <1> QED
    BY <1>1, <1>2, <1>3 DEF Lines!Read, LineEnds

\* A read that fails has lost its character.
LEMMA FailsIsLose ==
  ASSUME IInv, LinesInv, NEW p \in Reader, ReadFails(p)
  PROVE  Lines!Lose(p)
  <1>1. UNCHANGED <<buf, w, e>> /\ left' = left /\ got' = [got EXCEPT ![p] = <<>>] /\ Reads(p)
        /\ NextChar.key # "^D" /\ r' = (r + 1) % UintMod /\ BadAddress
    BY DEF ReadFails, ReadLeaves, device
  <1>2. /\ Chars(r, w) # <<>> /\ Head(Chars(r, w)) = NextChar
        /\ Chars(r, w)' = Tail(Chars(r, w)) /\ Chars(w, e)' = Chars(w, e)
    BY <1>1, ReadFailsMoves, ReadsFirst DEF IInv
  <1> QED
    BY <1>1, <1>2 DEF Lines!Lose, LineEnds

\* Whoever edits the line is alone at it.
LEMMA EditsAlone ==
  ASSUME IInv, NEW c \in Cpu, Others(c), pc[c] \in InCons, pc'[c] \notin InHandEcho
  PROVE  \A d \in Cpu : pc'[d] \notin InHandEcho
  BY Alone, Apart DEF IInv, InHandEcho, InCons

\* A backspace takes a character of the line that is being typed.
LEMMA EraseIsErase ==
  ASSUME IInv, LinesInv, NEW c \in Cpu, Erase(c)
  PROVE  Lines!Erase
  <1>1. UNCHANGED <<buf, r, w>> /\ left' = left /\ got' = got /\ e # w /\ e' = (e - 1) % UintMod
    BY DEF Erase, MayErase, Edited, calls, device
  <1>2. \A d \in Cpu : pc'[d] \notin InHandEcho
    BY EraseMoves, EditsAlone DEF IInv, InHandEcho, InCons
  <1>3. /\ Chars(w, e)' = SubSeq(Chars(w, e), 1, Len(Chars(w, e)) - 1) /\ Chars(w, e) # <<>>
        /\ Chars(r, w)' = Chars(r, w)
    BY <1>1, <1>2, LineErase DEF IInv, LinesInv
  <1> QED
    BY <1>1, <1>3 DEF Lines!Erase, LineEnds

\* A character is stored where there was room for it when it was echoed, and finishes
\* its line when the line discipline says so.
LEMMA StoreIsInsert ==
  ASSUME IInv, LinesInv, NEW c \in Cpu, Store(c)
  PROVE  reg[c] \in Characters /\ Lines!Insert(reg[c])
  <1>1. buf' = [buf EXCEPT ![e % INPUT_BUF_SIZE] = reg[c]] /\ e' = (e + 1) % UintMod /\ r' = r
        /\ left' = left /\ got' = got
        /\ IF Finished(reg[c].key, e') THEN w' = e' ELSE w' = w
    BY DEF Store, calls, device
  <1>2. pc[c] = "store" /\ \A d \in Cpu : pc'[d] \notin InHandEcho
    BY StoreMoves, EditsAlone DEF IInv, InHandEcho, InCons
  <1>3. reg[c] \in Characters /\ reg[c] \in Letters
    BY <1>2 DEF LinesInv, Carried, InHandEcho, Letters
  <1>4. Room
    BY <1>2 DEF IInv, Editing
  <1>5. /\ Len(Chars(r, w)) + Len(Chars(w, e)) < INPUT_BUF_SIZE
        /\ (e' - r) % UintMod = Len(Chars(r, w)) + Len(Chars(w, e)) + 1
        /\ w' = w => Chars(r, w)' = Chars(r, w) /\ Chars(w, e)' = Append(Chars(w, e), reg[c])
        /\ w' = e' => Chars(r, w)' = Chars(r, w) \o Append(Chars(w, e), reg[c]) /\ Chars(w, e)' = <<>>
    BY <1>1, <1>2, <1>3, <1>4, LineStore DEF IInv, LinesInv
  <1>6. Lines!Finishes(reg[c]) <=> Finished(reg[c].key, e')
    BY <1>5 DEF Lines!Finishes, Finished
  <1>7. LineEnds' = LineEnds
    BY <1>1 DEF LineEnds
  <1> QED
    BY <1>1, <1>3, <1>5, <1>6, <1>7 DEF Lines!Insert

\* Each step is one of the line discipline, or none.
LEMMA LinesStep ==
  ASSUME IInv, LinesInv, [Next]_vars
  PROVE  Lines!Next \/ UNCHANGED Lines!vars
  <1>1. ASSUME NEW t \in Thread, Acquire(t)
        PROVE  Lines!Next \/ UNCHANGED Lines!vars
    <2>1. UNCHANGED <<buf, r, w, e>> /\ got' = got /\ left'.kernel = left.kernel
      BY <1>1 DEF Acquire, cons, calls, device
    <2> QED
      BY <2>1, LinesRest
  <1>2. ASSUME NEW t \in Thread, StartNext(t)
        PROVE  Lines!Next \/ UNCHANGED Lines!vars
    <2>1. UNCHANGED <<buf, r, w, e>> /\ got' = got /\ left'.kernel = left.kernel
      BY <1>2 DEF StartNext, cons, calls, device
    <2> QED
      BY <2>1, LinesRest
  <1>3. ASSUME NEW t \in Thread, StartWrites(t)
        PROVE  Lines!Next \/ UNCHANGED Lines!vars
    <2>1. UNCHANGED <<buf, r, w, e>> /\ got' = got /\ left'.kernel = left.kernel
      BY <1>3 DEF StartWrites, cons, calls, device
    <2> QED
      BY <2>1, LinesRest
  <1>4. ASSUME NEW t \in Thread, StartEnds(t)
        PROVE  Lines!Next \/ UNCHANGED Lines!vars
    <2>1. UNCHANGED <<buf, r, w, e>> /\ got' = got /\ left'.kernel = left.kernel
      BY <1>4 DEF StartEnds, cons, calls, device
    <2> QED
      BY <2>1, LinesRest
  <1>5. ASSUME NEW p \in Proc, Dispatch(p)
        PROVE  Lines!Next \/ UNCHANGED Lines!vars
    <2>1. UNCHANGED <<buf, r, w, e>> /\ got' = got /\ left'.kernel = left.kernel
      BY <1>5 DEF Dispatch, cons, calls, device
    <2> QED
      BY <2>1, LinesRest
  <1>6. ASSUME NEW p \in Writer, PutCall(p)
        PROVE  Lines!Next \/ UNCHANGED Lines!vars
    <2>1. UNCHANGED <<buf, r, w, e>> /\ got' = got /\ left'.kernel = left.kernel
      BY <1>6 DEF PutCall, cons, calls, device
    <2> QED
      BY <2>1, LinesRest
  <1>7. ASSUME NEW p \in Writer, PutSleeps(p)
        PROVE  Lines!Next \/ UNCHANGED Lines!vars
    <2>1. UNCHANGED <<buf, r, w, e>> /\ got' = got /\ left'.kernel = left.kernel
      BY <1>7 DEF PutSleeps, cons, calls, device
    <2> QED
      BY <2>1, LinesRest
  <1>8. ASSUME NEW p \in Writer, Put(p)
        PROVE  Lines!Next \/ UNCHANGED Lines!vars
    <2>1. UNCHANGED <<buf, r, w, e>> /\ got' = got /\ left'.kernel = left.kernel
      BY <1>8 DEF Put, cons, calls, device
    <2> QED
      BY <2>1, LinesRest
  <1>9. ASSUME NEW p \in Writer, WriteReturns(p)
        PROVE  Lines!Next \/ UNCHANGED Lines!vars
    <2>1. UNCHANGED <<buf, r, w, e>> /\ got' = got /\ left'.kernel = left.kernel
      BY <1>9 DEF WriteReturns, cons, calls, device
    <2> QED
      BY <2>1, LinesRest
  <1>10. ASSUME NEW p \in Reader, ReadSleeps(p)
        PROVE  Lines!Next \/ UNCHANGED Lines!vars
    <2>1. UNCHANGED <<buf, r, w, e>> /\ got' = got /\ left'.kernel = left.kernel
      BY <1>10 DEF ReadSleeps, cons, calls, device
    <2> QED
      BY <2>1, LinesRest
  <1>11. ASSUME NEW p \in Reader, ReadStops(p)
        PROVE  Lines!Next \/ UNCHANGED Lines!vars
    BY <1>11, StopsIsReturn DEF Lines!Next
  <1>12. ASSUME NEW p \in Reader, ReadEnd(p)
        PROVE  Lines!Next \/ UNCHANGED Lines!vars
    BY <1>12, EndIsReadEnd DEF Lines!Next
  <1>13. ASSUME NEW p \in Reader, ReadChar(p)
        PROVE  Lines!Next \/ UNCHANGED Lines!vars
    BY <1>13, CharIsRead DEF Lines!Next
  <1>14. ASSUME NEW p \in Reader, ReadFails(p)
        PROVE  Lines!Next \/ UNCHANGED Lines!vars
    BY <1>14, FailsIsLose DEF Lines!Next
  <1>15. ASSUME NEW c \in Cpu, Get(c)
        PROVE  Lines!Next \/ UNCHANGED Lines!vars
    <2>1. UNCHANGED <<buf, r, w, e>> /\ got' = got /\ left'.kernel = left.kernel
      BY <1>15 DEF Get, cons, calls, device
    <2> QED
      BY <2>1, LinesRest
  <1>16. ASSUME NEW c \in Cpu, Erase(c)
        PROVE  Lines!Next \/ UNCHANGED Lines!vars
    BY <1>16, EraseIsErase DEF Lines!Next
  <1>17. ASSUME NEW c \in Cpu, Ignore(c)
        PROVE  Lines!Next \/ UNCHANGED Lines!vars
    <2>1. UNCHANGED <<buf, r, w, e>> /\ got' = got /\ left'.kernel = left.kernel
      BY <1>17 DEF Ignore, cons, calls, device, KeyDone
    <2> QED
      BY <2>1, LinesRest
  <1>18. ASSUME NEW c \in Cpu, Swallow(c)
        PROVE  Lines!Next \/ UNCHANGED Lines!vars
    <2>1. UNCHANGED <<buf, r, w, e>> /\ got' = got /\ left'.kernel = left.kernel
      BY <1>18 DEF Swallow, cons, calls, device, KeyDone
    <2> QED
      BY <2>1, LinesRest
  <1>19. ASSUME NEW c \in Cpu, Echo(c)
        PROVE  Lines!Next \/ UNCHANGED Lines!vars
    <2>1. UNCHANGED <<buf, r, w, e>> /\ got' = got /\ left'.kernel = left.kernel
      BY <1>19 DEF Echo, cons, calls, device
    <2> QED
      BY <2>1, LinesRest
  <1>20. ASSUME NEW c \in Cpu, SyncSpin(c)
        PROVE  Lines!Next \/ UNCHANGED Lines!vars
    <2>1. UNCHANGED <<buf, r, w, e>> /\ got' = got /\ left'.kernel = left.kernel
      BY <1>20 DEF SyncSpin, cons, calls, device
    <2> QED
      BY <2>1, LinesRest
  <1>21. ASSUME NEW c \in Cpu, SyncWrite(c)
        PROVE  Lines!Next \/ UNCHANGED Lines!vars
    <2>1. UNCHANGED <<buf, r, w, e>> /\ got' = got /\ left'.kernel = left.kernel
      BY <1>21 DEF SyncWrite, cons, calls, device
    <2> QED
      BY <2>1, LinesRest
  <1>22. ASSUME NEW c \in Cpu, Store(c)
        PROVE  Lines!Next \/ UNCHANGED Lines!vars
    BY <1>22, StoreIsInsert DEF Lines!Next
  <1>23. ASSUME NEW c \in Cpu, Complete(c)
        PROVE  Lines!Next \/ UNCHANGED Lines!vars
    <2>1. UNCHANGED <<buf, r, w, e>> /\ got' = got /\ left'.kernel = left.kernel
      BY <1>23 DEF Complete, cons, calls, device
    <2> QED
      BY <2>1, LinesRest
  <1>24. ASSUME NEW p \in Proc, Kill(p)
        PROVE  Lines!Next \/ UNCHANGED Lines!vars
    <2>1. UNCHANGED <<buf, r, w, e>> /\ got' = got /\ left'.kernel = left.kernel
      BY <1>24 DEF Kill, IInv, Kept, Stages, cons, calls
    <2> QED
      BY <2>1, LinesRest
  <1>25. ASSUME NEW p \in Writer, WriteCall(p)
        PROVE  Lines!Next \/ UNCHANGED Lines!vars
    <2>1. UNCHANGED <<buf, r, w, e>> /\ got' = got /\ left'.kernel = left.kernel
      BY <1>25 DEF WriteCall, IInv, Kept, Stages, cons, calls
    <2> QED
      BY <2>1, LinesRest
  <1>26. ASSUME NEW p \in Reader, ReadCall(p)
        PROVE  Lines!Next \/ UNCHANGED Lines!vars
    <2>1. UNCHANGED <<buf, r, w, e>> /\ got' = got /\ left'.kernel = left.kernel
      BY <1>26 DEF ReadCall, cons, calls, device
    <2> QED
      BY <2>1, LinesRest
  <1>27. ASSUME NEW c \in Cpu, Interrupt(c)
        PROVE  Lines!Next \/ UNCHANGED Lines!vars
    <2>1. UNCHANGED <<buf, r, w, e>> /\ got' = got /\ left'.kernel = left.kernel
      BY <1>27 DEF Interrupt, cons, calls, device
    <2> QED
      BY <2>1, LinesRest
  <1>28. ASSUME Transmit
        PROVE  Lines!Next \/ UNCHANGED Lines!vars
    <2>1. UNCHANGED <<buf, r, w, e>> /\ got' = got /\ left'.kernel = left.kernel
      BY <1>28 DEF Transmit, cons, calls, device
    <2> QED
      BY <2>1, LinesRest
  <1>29. ASSUME NEW k \in left.hits, Hit(k)
        PROVE  Lines!Next \/ UNCHANGED Lines!vars
    <2>1. UNCHANGED <<buf, r, w, e>> /\ got' = got /\ left'.kernel = left.kernel
      BY <1>29 DEF Hit, IInv, Kept, Stages, cons, calls
    <2> QED
      BY <2>1, LinesRest
  <1>30. CASE UNCHANGED vars
    <2>1. UNCHANGED <<buf, r, w, e>> /\ got' = got /\ left'.kernel = left.kernel
      BY <1>30 DEF vars, cons, calls, device
    <2> QED
      BY <2>1, LinesRest
  <1> QED
    BY <1>1, <1>2, <1>3, <1>4, <1>5, <1>6, <1>7, <1>8, <1>9, <1>10, <1>11, <1>12, <1>13, <1>14,
       <1>15, <1>16, <1>17, <1>18, <1>19, <1>20, <1>21, <1>22, <1>23, <1>24, <1>25, <1>26, <1>27,
       <1>28, <1>29, <1>30 DEF Next, Step, Write, Read, Handler

\* Readers get the lines as they were edited, in order and one at a time, whatever the
\* interleaving of handlers, readers and kill().
THEOREM ReadersGetLines == Spec => ImplementsLineDiscipline
  <1>1. Init => Lines!Init
    <2>1. SUFFICES ASSUME Init
                   PROVE  Lines!Init
      OBVIOUS
    <2>2. Chars(r, w) = <<>> /\ Chars(w, e) = <<>>
      BY <2>1, NothingTyped
    <2>3. got = [p \in Reader |-> <<>>]
      BY <2>1 DEF Init
    <2> QED
      BY <2>2, <2>3, Alphabet DEF Lines!Init
  <1>2. Init => LinesInv
    BY NothingTyped
  <1>3. IInv /\ LinesInv /\ [Next]_vars => LinesInv'
    BY TypedStep
  <1>4. IInv /\ LinesInv /\ [Next]_vars => [Lines!Next]_(Lines!vars)
    BY LinesStep
  <1> QED
    BY <1>1, <1>2, <1>3, <1>4, Invariance, PTL DEF Spec, ImplementsLineDiscipline, Lines!Spec
=============================================================================
