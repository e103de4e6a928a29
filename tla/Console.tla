------------------------------- MODULE Console ------------------------------
(***************************************************************************)
(* The console of both kernels: kernel/console.c above kernel/uart.c, on   *)
(* several CPUs, with the interrupts that come in between and the locks    *)
(* that keep them out (kernel/spinlock.c).                                 *)
(*                                                                         *)
(* A thread is a process in read() or write(), or the interrupt handler of *)
(* a CPU.  A step ends where another CPU, the device or an interrupt may   *)
(* come in: before and after a lock, before a device register.             *)
(***************************************************************************)
EXTENDS Integers, Sequences

CONSTANTS Cpu, Reader, Writer, None,
          INPUT_BUF_SIZE, UART_TX_BUF_SIZE,
          UintMod,           \* the indices count modulo this: 2^32 and 2^64 in the code
          Start,             \* what the indices have counted to at first
          FifoSize,          \* bytes the device keeps before it has sent them
          Counts,            \* the byte counts asked for in a call
          Scenes,            \* bound: which keys, how many of them, how many bytes written and
                             \* processes killed, by which CPUs and processes, in which kernel
          BadAddress         \* whether user addresses may be bad

ASSUME ConsoleAssumption ==
  /\ None \notin Cpu \cup {"cons", "tx"} /\ Reader \cap Writer = {} /\ (Reader \cup Writer) \cap Cpu = {}
  /\ INPUT_BUF_SIZE \in Nat \ {0} /\ UART_TX_BUF_SIZE \in Nat \ {0} /\ UintMod \in Nat
  /\ \A size \in {INPUT_BUF_SIZE, UART_TX_BUF_SIZE} : UintMod > size /\ UintMod % size = 0
  /\ Start \in 0 .. UintMod - 1
  /\ FifoSize \in Nat \ {0} /\ \A a, b \in Cpu : a # b => FifoSize >= 2
  /\ Counts \subseteq Nat \ {0} /\ BadAddress \in BOOLEAN
  /\ \A s \in Scenes : s \in [kernel : {"cow", "rr"}, hits : SUBSET STRING, keys : Nat, writes : Nat,
                              kills : Nat, cpus : SUBSET Cpu, procs : SUBSET (Reader \cup Writer)]

Proc   == Reader \cup Writer
Thread == Proc \cup Cpu     \* a CPU stands for the interrupt handler it runs

VARIABLES
  buf, r, w, e, skipchar,      \* cons, and skipchar of the round-robin kernel
  txbuf, txw, txr,             \* uart_tx_buf and its indices
  lock,                        \* lk->cpu of cons.lock and uart_tx_lock
  cpu,                         \* struct cpu's noff and intena, and whether interrupts are on
  at,                          \* the CPU each process is on in the kernel
  pc, reg,                     \* where each thread is, and the character it has in hand
  n, got,                      \* what a call has left to do, and has read
  killed,
  rx, fifo, irq, claimed,      \* the device and the PLIC
  sent,                        \* the bytes of write() that left the device
  left, written                \* what is left of the scene, the bytes of write() so far

cons   == <<buf, r, w, e, skipchar>>
uart   == <<txbuf, txw, txr, written>>
device == <<rx, fifo, irq, claimed, sent, left>>
calls  == <<n, got, killed>>
vars   == <<cons, uart, lock, cpu, at, pc, reg, calls, device>>
-----------------------------------------------------------------------------
(* spinlock.c *)

\* Mutant of PushedOff: the inner one notes that interrupts are off.
PushedOffAlways(k) == [intr |-> FALSE, noff |-> k.noff + 1, intena |-> k.intr]

PushedOff(k) ==
  [intr |-> FALSE, noff |-> k.noff + 1, intena |-> IF k.noff = 0 THEN k.intr ELSE k.intena]

PoppedOff(k) == [k EXCEPT !.noff = @ - 1, !.intr = k.noff = 1 /\ k.intena]

\* A process runs unless its CPU is in the handler.
CpuOf(t)  == IF t \in Cpu THEN t ELSE at[t]
Runs(t)   == IF t \in Cpu THEN pc[t] # "idle" ELSE at[t] # None /\ pc[at[t]] = "idle"
Goto(t, place) == pc' = [pc EXCEPT ![t] = place]

PushOff(t) == cpu' = [cpu EXCEPT ![CpuOf(t)] = PushedOff(@)]

Spinning(t) == CASE pc[t] = "consspin" -> "cons" [] pc[t] = "txspin" -> "tx" [] OTHER -> None

\* acquire(), after its push_off().
Acquire(t) ==
  /\ Runs(t) /\ Spinning(t) # None /\ lock[Spinning(t)] = None
  /\ lock' = [lock EXCEPT ![Spinning(t)] = CpuOf(t)]
  /\ Goto(t, CASE pc[t] = "consspin" -> IF t \in Cpu THEN "key" ELSE "read"
               [] pc[t] = "txspin"   -> IF t \in Cpu THEN "start" ELSE "put")
  /\ UNCHANGED <<cons, uart, cpu, at, reg, calls, device>>

Release(t, l) ==
  /\ lock' = [lock EXCEPT ![l] = None]
  /\ cpu' = [cpu EXCEPT ![CpuOf(t)] = PoppedOff(@)]

\* sleep(): the lock is given up, and the scheduler has the CPU with interrupts on.
Sleep(p, l, place) ==
  /\ lock' = [lock EXCEPT ![l] = None]
  /\ cpu' = [cpu EXCEPT ![at[p]] = PoppedOff(@)]
  /\ at' = [at EXCEPT ![p] = None]
  /\ Goto(p, place)

\* wakeup(), for those asleep at one place.
Woken(place) == [t \in Thread |->
  IF pc[t] # place THEN pc[t] ELSE IF place = "rsleep" THEN "rwoken" ELSE "wwoken"]

\* The CPU after wakeup() took and gave the lock of some process.
AfterWakeup(k) == PoppedOff(PushedOff(k))

\* A killed process does not get back to user space.
Back(p) == IF p \in killed THEN "dead" ELSE "user"

Free(c) == c \in left.cpus /\ pc[c] = "idle" /\ \A p \in Proc : at[p] # c

\* A process is put on a CPU, and goes for the lock it needs.
Dispatch(p) ==
  /\ pc[p] \in {"rwoken", "wwoken"}
  /\ \E c \in Cpu :
       /\ Free(c)
       /\ at' = [at EXCEPT ![p] = c]
       /\ cpu' = [cpu EXCEPT ![c] = PushedOff(@)]
  /\ Goto(p, IF pc[p] = "rwoken" THEN "consspin" ELSE "txspin")
  /\ UNCHANGED <<cons, uart, lock, reg, calls, device>>

\* kill(): a sleeper is made runnable.
Kill(p) ==
  /\ p \notin killed /\ p \in left.procs /\ pc[p] # "dead" /\ left.kills > 0
  /\ left' = [left EXCEPT !.kills = @ - 1]
  /\ killed' = killed \cup {p}
  /\ Goto(p, CASE pc[p] = "rsleep" -> "rwoken" [] pc[p] = "wsleep" -> "wwoken"
               [] pc[p] = "user" -> "dead" [] OTHER -> pc[p])
  /\ UNCHANGED <<cons, uart, lock, cpu, at, reg, n, got, rx, fifo, irq, claimed, sent>>
-----------------------------------------------------------------------------
(* uart.c *)

\* Mutant of Idle: the status register is not minded.
IdleAlways == TRUE

Idle == fifo = <<>>        \* LSR_TX_IDLE

\* WriteReg(THR, c): bytes beyond the device's FIFO are lost.
WriteTHR(c) == fifo' = IF Len(fifo) < FifoSize THEN Append(fifo, c) ELSE fifo

\* uartputc() of the next byte that consolewrite() fetched.
PutCall(p) ==
  /\ Runs(p) /\ pc[p] = "write" /\ n[p] > 0
  /\ PushOff(p)
  /\ Goto(p, "txspin")
  /\ UNCHANGED <<cons, uart, lock, at, reg, calls, device>>

TxFull  == txw = (txr + UART_TX_BUF_SIZE) % UintMod
TxEmpty == txw = txr

PutSleeps(p) ==
  /\ Runs(p) /\ pc[p] = "put" /\ TxFull
  /\ Sleep(p, "tx", "wsleep")
  /\ UNCHANGED <<cons, uart, reg, calls, device>>

Put(p) ==
  /\ Runs(p) /\ pc[p] = "put" /\ ~TxFull
  /\ written' = written + 1
  /\ txbuf' = [txbuf EXCEPT ![txw % UART_TX_BUF_SIZE] = written + 1]
  /\ txw' = (txw + 1) % UintMod
  /\ n' = [n EXCEPT ![p] = @ - 1]
  /\ Goto(p, "start")
  /\ UNCHANGED <<cons, txr, lock, cpu, at, reg, got, killed, device>>

\* Mutant of StartNext: no wakeup().
StartNextQuietly(t) ==
  /\ Runs(t) /\ pc[t] = "start" /\ ~TxEmpty /\ Idle
  /\ reg' = [reg EXCEPT ![t] = txbuf[txr % UART_TX_BUF_SIZE]]
  /\ txr' = (txr + 1) % UintMod
  /\ Goto(t, "thr")
  /\ UNCHANGED <<cons, txbuf, txw, written, lock, cpu, at, calls, device>>

\* uartstart(): a turn of its loop.
StartNext(t) ==
  /\ Runs(t) /\ pc[t] = "start" /\ ~TxEmpty /\ Idle
  /\ reg' = [reg EXCEPT ![t] = txbuf[txr % UART_TX_BUF_SIZE]]
  /\ txr' = (txr + 1) % UintMod
  /\ pc' = [Woken("wsleep") EXCEPT ![t] = "thr"]
  /\ cpu' = [cpu EXCEPT ![CpuOf(t)] = AfterWakeup(@)]
  /\ UNCHANGED <<cons, txbuf, txw, written, lock, at, calls, device>>

StartWrites(t) ==
  /\ Runs(t) /\ pc[t] = "thr"
  /\ WriteTHR(reg[t])
  /\ reg' = [reg EXCEPT ![t] = None]
  /\ Goto(t, "start")
  /\ UNCHANGED <<cons, uart, lock, cpu, at, calls, rx, irq, claimed, sent, left>>

\* The ring is empty or the device busy.  The lock is given up, and the
\* write goes on with its next byte, the handler to its end.
StartEnds(t) ==
  /\ Runs(t) /\ pc[t] = "start" /\ (TxEmpty \/ ~Idle)
  /\ Release(t, "tx")
  /\ Goto(t, IF t \in Cpu THEN "complete" ELSE "write")
  /\ UNCHANGED <<cons, uart, at, reg, calls, device>>

\* uartputc_sync(): spin until the device is idle, then write, holding no lock of the UART.
SyncSpin(c) ==
  /\ Runs(c) /\ pc[c] \in {"echo", "erase"} /\ Idle
  /\ PushOff(c)
  /\ Goto(c, IF pc[c] = "echo" THEN "echothr" ELSE "erasethr")
  /\ UNCHANGED <<cons, uart, lock, at, reg, calls, device>>

SyncWrite(c) ==
  /\ Runs(c) /\ pc[c] \in {"echothr", "erasethr"}
  /\ WriteTHR(0)
  /\ cpu' = [cpu EXCEPT ![c] = PoppedOff(@)]
  /\ Goto(c, IF pc[c] = "echothr" THEN "store" ELSE "key")
  /\ UNCHANGED <<cons, uart, lock, at, reg, calls, rx, irq, claimed, sent, left>>
-----------------------------------------------------------------------------
(* consolewrite() and consoleread() *)

WriteCall(p) ==
  /\ pc[p] = "user" /\ p \in left.procs
  /\ \E c \in Cpu : Free(c) /\ at' = [at EXCEPT ![p] = c]
  /\ \E count \in Counts : /\ count <= left.writes
                            /\ n' = [n EXCEPT ![p] = count]
                            /\ left' = [left EXCEPT !.writes = @ - count]
  /\ Goto(p, "write")
  /\ UNCHANGED <<cons, uart, lock, cpu, reg, got, killed, rx, fifo, irq, claimed, sent>>

\* All is written, or either_copyin() failed.
WriteReturns(p) ==
  /\ Runs(p) /\ pc[p] = "write" /\ (n[p] = 0 \/ BadAddress)
  /\ n' = [n EXCEPT ![p] = 0]
  /\ at' = [at EXCEPT ![p] = None]
  /\ Goto(p, Back(p))
  /\ UNCHANGED <<cons, uart, lock, cpu, reg, got, killed, device>>

ReadCall(p) ==
  /\ pc[p] = "user" /\ p \in left.procs
  /\ \E c \in Cpu : /\ Free(c)
                    /\ at' = [at EXCEPT ![p] = c]
                    /\ cpu' = [cpu EXCEPT ![c] = PushedOff(@)]
  /\ \E count \in Counts : n' = [n EXCEPT ![p] = count]
  /\ Goto(p, "consspin")
  /\ UNCHANGED <<cons, uart, lock, reg, got, killed, device>>

ReadLeaves(p) ==
  /\ Release(p, "cons")
  /\ n' = [n EXCEPT ![p] = 0]
  /\ got' = [got EXCEPT ![p] = <<>>]
  /\ at' = [at EXCEPT ![p] = None]
  /\ Goto(p, Back(p))

ReadSleeps(p) ==
  /\ Runs(p) /\ pc[p] = "read" /\ n[p] > 0 /\ r = w /\ p \notin killed
  /\ Sleep(p, "cons", "rsleep")
  /\ UNCHANGED <<cons, uart, reg, calls, device>>

\* All is read, a line has ended, or the process was killed.
ReadStops(p) ==
  /\ Runs(p) /\ pc[p] = "read" /\ (n[p] = 0 \/ (r = w /\ p \in killed))
  /\ ReadLeaves(p)
  /\ UNCHANGED <<cons, uart, reg, killed, device>>

NextChar == buf[r % INPUT_BUF_SIZE]
Reads(p) == Runs(p) /\ pc[p] = "read" /\ n[p] > 0 /\ r # w

\* End of file: saved for the next read, if this one has got something.
ReadEnd(p) ==
  /\ Reads(p) /\ NextChar.key = "^D"
  /\ r' = IF got[p] # <<>> THEN r ELSE (r + 1) % UintMod
  /\ ReadLeaves(p)
  /\ UNCHANGED <<buf, w, e, skipchar, uart, reg, killed, device>>

\* The keys that end a line for consoleread().
EnderKeys == {"nl", "up", "down", "right", "left", "bs", "tab"}
LineEnds == IF left.kernel = "cow" THEN {"nl"} ELSE EnderKeys

ReadChar(p) ==
  /\ Reads(p) /\ NextChar.key # "^D"
  /\ r' = (r + 1) % UintMod
  /\ got' = [got EXCEPT ![p] = Append(@, NextChar)]
  /\ n' = [n EXCEPT ![p] = IF NextChar.key \in LineEnds THEN 0 ELSE @ - 1]
  /\ UNCHANGED <<buf, w, e, skipchar, uart, lock, cpu, at, pc, reg, killed, device>>

\* either_copyout() fails.
ReadFails(p) ==
  /\ Reads(p) /\ NextChar.key # "^D" /\ BadAddress
  /\ r' = (r + 1) % UintMod
  /\ ReadLeaves(p)
  /\ UNCHANGED <<buf, w, e, skipchar, uart, reg, killed, device>>
-----------------------------------------------------------------------------
(* devintr(), uartintr() and consoleintr() *)

Interrupt(c) ==
  /\ irq /\ ~claimed /\ cpu[c].intr /\ pc[c] = "idle" /\ c \in left.cpus
  /\ irq' = FALSE /\ claimed' = TRUE
  /\ cpu' = [cpu EXCEPT ![c].intr = FALSE]
  /\ Goto(c, "get")
  /\ UNCHANGED <<cons, uart, lock, at, reg, calls, rx, fifo, sent, left>>

\* Mutant of Complete: plic_complete() is forgotten.
CompleteNot(c) ==
  /\ pc[c] = "complete"
  /\ cpu' = [cpu EXCEPT ![c].intr = TRUE]
  /\ Goto(c, "idle")
  /\ UNCHANGED <<cons, uart, lock, at, reg, calls, device>>

\* plic_complete(), and the return from the trap.
Complete(c) ==
  /\ pc[c] = "complete"
  /\ claimed' = FALSE
  /\ cpu' = [cpu EXCEPT ![c].intr = TRUE]
  /\ Goto(c, "idle")
  /\ UNCHANGED <<cons, uart, lock, at, reg, calls, rx, fifo, irq, sent, left>>

\* uartgetc(): the next character for consoleintr(), or on to uartstart().
Get(c) ==
  /\ pc[c] = "get"
  /\ IF rx # <<>> THEN /\ reg' = [reg EXCEPT ![c] = Head(rx)]
                       /\ rx' = Tail(rx)
                       /\ Goto(c, "consspin")
                  ELSE Goto(c, "txspin") /\ UNCHANGED <<reg, rx>>
  /\ PushOff(c)
  /\ UNCHANGED <<cons, uart, lock, at, calls, fifo, irq, claimed, sent, left>>

KeyDone(c) ==
  /\ Release(c, "cons")
  /\ reg' = [reg EXCEPT ![c] = None]
  /\ Goto(c, "get")
  /\ UNCHANGED <<uart, at, calls, device>>

Handles(c) == Runs(c) /\ pc[c] = "key"
Room == (e - r) % UintMod < INPUT_BUF_SIZE

\* Mutant of Edited: the end of the finished input is not minded.
EditedPastLine == e # r

Edited == e # w
LastEdited == buf[(e - 1) % INPUT_BUF_SIZE]

\* Control-U kills the line; where there is one, backspace takes one character.
MayErase(c) ==
  /\ Edited
  /\ \/ reg[c].key = "^U" /\ LastEdited.key # "nl"
     \/ reg[c].key = "bs" /\ left.kernel = "cow"

Erase(c) ==
  /\ Handles(c) /\ MayErase(c)
  /\ e' = (e - 1) % UintMod
  /\ reg' = [reg EXCEPT ![c] = IF @.key = "bs" THEN [@ EXCEPT !.key = "^P"] ELSE @]
  /\ Goto(c, "erase")
  /\ UNCHANGED <<buf, r, w, skipchar, uart, lock, cpu, at, calls, device>>

\* Of the keys that are handled by themselves control-P prints the processes.
Control == {"^P", "^U"} \cup (IF left.kernel = "cow" THEN {"bs"} ELSE {})

Ignore(c) ==
  /\ Handles(c)
  /\ IF reg[c].key \in Control THEN ~MayErase(c) ELSE ~Room
  /\ KeyDone(c)
  /\ UNCHANGED cons

\* The round-robin kernel swallows escape sequences, and makes one character of each.
Swallowed(k) == left.kernel = "rr" /\ (k = "esc" \/ (k = "[" /\ skipchar = 2))
Meant(ch) == IF skipchar = 0 THEN ch ELSE
  [key |-> CASE ch.key = "A" -> "up" [] ch.key = "B" -> "down" [] ch.key = "C" -> "right"
             [] OTHER -> "left", no |-> 0]

Swallow(c) ==
  /\ Handles(c) /\ reg[c].key \notin Control /\ Room /\ Swallowed(reg[c].key)
  /\ skipchar' = IF reg[c].key = "esc" THEN 2 ELSE 1
  /\ KeyDone(c)
  /\ UNCHANGED <<buf, r, w, e>>

\* The character is echoed, unless it ends an escape sequence or is a tab.
Echo(c) ==
  /\ Handles(c) /\ reg[c].key \notin Control /\ Room /\ ~Swallowed(reg[c].key)
  /\ LET quiet == left.kernel = "rr" /\ (skipchar # 0 \/ reg[c].key = "tab")
     IN Goto(c, IF quiet THEN "store" ELSE "echo")
  /\ reg' = [reg EXCEPT ![c] = Meant(@)]
  /\ skipchar' = 0
  /\ UNCHANGED <<buf, r, w, e, uart, lock, cpu, at, calls, device>>

Finished(k, ee) == k \in LineEnds \cup {"^D"} \/ (ee - r) % UintMod = INPUT_BUF_SIZE

Store(c) ==
  /\ Runs(c) /\ pc[c] = "store"
  /\ buf' = [buf EXCEPT ![e % INPUT_BUF_SIZE] = reg[c]]
  /\ e' = (e + 1) % UintMod
  /\ IF Finished(reg[c].key, e')
     THEN w' = e' /\ pc' = [Woken("rsleep") EXCEPT ![c] = "get"]
     ELSE UNCHANGED w /\ Goto(c, "get")
  /\ Release(c, "cons")
  /\ reg' = [reg EXCEPT ![c] = None]
  /\ UNCHANGED <<r, skipchar, uart, at, calls, device>>
-----------------------------------------------------------------------------
(* The device: a byte leaves; a key is hit, the next one when this one has been  *)
(* fetched.  It interrupts when it has sent all it had, and for a character.     *)

Transmit ==
  /\ fifo # <<>>
  /\ fifo' = Tail(fifo)
  /\ sent' = IF Head(fifo) = 0 THEN sent ELSE Append(sent, Head(fifo))
  /\ irq' = (irq \/ fifo' = <<>>)
  /\ UNCHANGED <<cons, uart, lock, cpu, at, pc, reg, calls, rx, claimed, left>>

Hit(k) ==
  /\ left.keys > 0 /\ rx = <<>>
  /\ left' = [left EXCEPT !.keys = @ - 1]
  /\ rx' = Append(rx, [key |-> k, no |-> IF k = "x" THEN left.keys ELSE 0])
  /\ irq' = TRUE
  /\ UNCHANGED <<cons, uart, lock, cpu, at, pc, reg, calls, fifo, claimed, sent>>
-----------------------------------------------------------------------------
NoChar == [key |-> "nul", no |-> 0]

Init ==
  /\ buf = [k \in 0 .. INPUT_BUF_SIZE - 1 |-> NoChar] /\ r = Start /\ w = Start /\ e = Start /\ skipchar = 0
  /\ txbuf = [k \in 0 .. UART_TX_BUF_SIZE - 1 |-> 0] /\ txw = Start /\ txr = Start
  /\ lock = [l \in {"cons", "tx"} |-> None]
  /\ cpu = [c \in Cpu |-> [intr |-> TRUE, noff |-> 0, intena |-> FALSE]]
  /\ at = [p \in Proc |-> None]
  /\ pc = [t \in Thread |-> IF t \in Cpu THEN "idle" ELSE "user"] /\ reg = [t \in Thread |-> None]
  /\ n = [p \in Proc |-> 0] /\ got = [p \in Reader |-> <<>>] /\ killed = {}
  /\ rx = <<>> /\ fifo = <<>> /\ irq = FALSE /\ claimed = FALSE /\ sent = <<>>
  /\ left \in Scenes /\ written = 0

\* What a thread does when it runs.
Write(p) == PutCall(p) \/ PutSleeps(p) \/ Put(p) \/ WriteReturns(p)
Read(p)  == ReadSleeps(p) \/ ReadStops(p) \/ ReadEnd(p) \/ ReadChar(p) \/ ReadFails(p)
Handler(c) == \/ Get(c) \/ Erase(c) \/ Ignore(c) \/ Swallow(c) \/ Echo(c) \/ SyncSpin(c)
              \/ SyncWrite(c) \/ Store(c) \/ Complete(c)

Step(t) ==
  \/ Acquire(t) \/ StartNext(t) \/ StartWrites(t) \/ StartEnds(t)
  \/ t \in Proc /\ Dispatch(t)
  \/ t \in Writer /\ Write(t)
  \/ t \in Reader /\ Read(t)
  \/ t \in Cpu /\ Handler(t)

Next ==
  \/ \E t \in Thread : Step(t)
  \/ \E p \in Proc : Kill(p)
  \/ \E p \in Writer : WriteCall(p)
  \/ \E p \in Reader : ReadCall(p)
  \/ \E c \in Cpu : Interrupt(c)
  \/ Transmit
  \/ \E k \in left.hits : Hit(k)

\* CPUs run, the scheduler dispatches, the device transmits, and its interrupt
\* is taken by a CPU that has interrupts on.
Fairness ==
  /\ \A t \in Thread : WF_vars(Step(t))
  /\ WF_vars(\E c \in Cpu : Interrupt(c))
  /\ WF_vars(Transmit)

Spec == Init /\ [][Next]_vars /\ Fairness
-----------------------------------------------------------------------------
CharAt(k) == buf[k % INPUT_BUF_SIZE]
Chars(from, to) == [k \in 1 .. (to - from) % UintMod |-> CharAt(from + k - 1)]

KeysHit == UNION {s.hits : s \in Scenes}
Characters ==
  [key : (KeysHit \cup EnderKeys) \ {"x"}, no : {0}]
    \cup [key : {"x"}, no : UNION {1 .. s.keys : s \in Scenes}]

Lines == INSTANCE LineDiscipline WITH
  Char <- Characters,
  EndOfFile <- "^D", Capacity <- INPUT_BUF_SIZE, Lossy <- BadAddress,
  enders <- LineEnds, input <- Chars(r, w), line <- Chars(w, e), received <- got

\* Readers get the lines as they were edited, in order and one at a time, whatever
\* the interleaving of handler, readers and kill().
ImplementsLineDiscipline == Lines!Spec

TypeOK ==
  /\ \A k \in {r, w, e, txr, txw} : k \in 0 .. UintMod - 1
  /\ ((e - w) % UintMod) + ((w - r) % UintMod) <= INPUT_BUF_SIZE
  /\ (txw - txr) % UintMod <= UART_TX_BUF_SIZE
  /\ \A c \in Cpu : cpu[c].noff \in 0 .. 2
  /\ at \in [Proc -> Cpu \cup {None}] /\ \A p, q \in Proc : at[p] = at[q] /\ p # q => at[p] = None

\* An interrupt never comes in where its handler would wait for what it interrupted
\* ("acquire" panics), and every CPU that has left its locks takes interrupts again.
InterruptsMatchLocks ==
  \A c \in Cpu :
    /\ \A l \in {"cons", "tx"} : lock[l] = c => ~cpu[c].intr
    /\ \A t \in Thread : Runs(t) /\ CpuOf(t) = c /\ Spinning(t) # None => lock[Spinning(t)] # c
    /\ pc[c] = "idle" => (cpu[c].intr <=> cpu[c].noff = 0)
    /\ cpu[c].noff = 0 => \A l \in {"cons", "tx"} : lock[l] # c

\* The bytes of write() in the order they were put: sent, in the device, in the hand of
\* the thread in uartstart(), and in the ring.
InFifo == {fifo[k] : k \in DOMAIN fifo} \ {0}
InHand == {reg[t] : t \in {u \in Thread : pc[u] = "thr"}}
TheOne(S) == IF S = {} THEN <<>> ELSE <<CHOOSE c \in S : TRUE>>
OnTheirWay ==
  sent \o TheOne(InFifo) \o TheOne(InHand)
       \o [k \in 1 .. (txw - txr) % UintMod |-> txbuf[(txr + k - 1) % UART_TX_BUF_SIZE]]

\* What is written is sent once and in order, though echoes and the two halves of
\* the driver write to one register: the device never has more than one byte of write().
SendsInOrder ==
  /\ TypeOK
  /\ \A j, k \in DOMAIN fifo : fifo[j] # 0 /\ fifo[k] # 0 => j = k
  /\ OnTheirWay = [k \in 1 .. written |-> k]

\* Nothing lies in the ring without somebody to send it: the device is busy and will
\* interrupt, an interrupt waits to be taken, or a thread is on its way to uartstart().
OutputIsUnderWay ==
  ~TxEmpty => \/ lock["tx"] # None \/ ~Idle \/ irq
              \/ \E c \in Cpu : pc[c] \notin {"idle", "complete"}

\* Readers sleep only on nothing to read, writers only on a full ring that is being
\* emptied.
SleepersHaveReason ==
  /\ OutputIsUnderWay
  /\ (\E p \in Reader : pc[p] = "rsleep") => r = w
  /\ (\E p \in Writer : pc[p] = "wsleep") => TxFull

\* A write ends, however full the ring and whatever is echoed meanwhile; and a
\* finished line does not lie unread while a reader waits.
CallsReturn ==
  /\ \A p \in Writer : (pc[p] # "user") ~> (pc[p] \in {"user", "dead"})
  /\ (r # w /\ \E p \in Reader : pc[p] \notin {"user", "dead"})
       ~> (r = w \/ \A p \in Reader : pc[p] \in {"user", "dead"})
=============================================================================
