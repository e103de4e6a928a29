----------------------------- MODULE PipeProofs -----------------------------
(***************************************************************************)
(* A pipe is a bounded first-in first-out stream, is freed once and last,  *)
(* and nobody sleeps on it without a reason: for any number of readers and *)
(* writers, any size and any width of the counters that the size divides.  *)
(***************************************************************************)
EXTENDS Pipe, SequenceTheorems, TLAPS
-----------------------------------------------------------------------------
(* Counters that wrap *)

\* The remainder is unique.
LEMMA ModIs ==
  ASSUME NEW a \in Int, NEW m \in Nat \ {0}, NEW q \in Int, NEW r \in 0 .. m - 1, a = q * m + r
  PROVE  a % m = r
  OBVIOUS

\* A multiple of m more or less does not matter modulo m.
LEMMA ModShift ==
  ASSUME NEW a \in Int, NEW u \in Nat, NEW m \in Nat \ {0}, u % m = 0
  PROVE  (a - u) % m = a % m
  <1> DEFINE q == a \div m
             c == u \div m
             r == a % m
  <1>1. q \in Int /\ c \in Int /\ r \in 0 .. m - 1 /\ a = m * q + r /\ u = m * c
    OBVIOUS
  <1>2. a - u = (q - c) * m + r
    <2> HIDE DEF q, c, r
    <2> QED BY <1>1
  <1>3. (a - u) % m = r
    <2> HIDE DEF q, c, r
    <2> QED BY <1>1, <1>2, ModIs
  <1> QED
    BY <1>3

\* Fewer than m consecutive numbers differ modulo m.
LEMMA ModApart ==
  ASSUME NEW m \in Nat \ {0}, NEW a \in Int, NEW b \in Int, a < b, b < a + m
  PROVE  a % m # b % m
  <1> SUFFICES ASSUME a % m = b % m PROVE FALSE
    OBVIOUS
  <1> DEFINE d == (b \div m) - (a \div m)
  <1>1. d \in Int /\ b - a = m * d
    <2>1. a = m * (a \div m) + (a % m) /\ b = m * (b \div m) + (b % m) /\ a \div m \in Int /\ b \div m \in Int
      OBVIOUS
    <2> QED
      BY <2>1
  <1> HIDE DEF d
  <1>2. CASE d <= 0
    <2>1. m * d <= 0
      BY <1>1, <1>2
    <2> QED
      BY <1>1, <2>1
  <1>3. CASE d >= 1
    <2>1. m * d >= m
      BY <1>1, <1>3
    <2> QED
      BY <1>1, <2>1
  <1> QED
    BY <1>1, <1>2, <1>3

\* Counters one further on, and how far apart two of them are.
LEMMA Counting ==
  ASSUME NEW u \in Nat \ {0}, NEW a \in 0 .. u - 1, NEW b \in 0 .. u - 1
  PROVE  /\ (a + 1) % u = IF a + 1 = u THEN 0 ELSE a + 1
         /\ (b - a) % u = IF a <= b THEN b - a ELSE b - a + u
  <1>1. (a + 1) % u = IF a + 1 = u THEN 0 ELSE a + 1
    OBVIOUS
  <1>2. (b - a) % u = IF a <= b THEN b - a ELSE b - a + u
    OBVIOUS
  <1> QED
    BY <1>1, <1>2
-----------------------------------------------------------------------------
\* The sizes are positive, and the size divides the range of the counters.
LEMMA Sizes == PIPESIZE \in Nat \ {0} /\ UintMod \in Nat \ {0} /\ PIPESIZE < UintMod /\ UintMod % PIPESIZE = 0
  BY PipeAssumption DEF PipeAssumption

\* A counter that wraps stays at its place of the buffer.
LEMMA Wraps == \A x \in Int : (x - UintMod) % PIPESIZE = x % PIPESIZE
  BY Sizes, ModShift
-----------------------------------------------------------------------------
(* The invariant *)

Reading == {"read", "rwait", "rsleep", "rwoken", "copy", "copied"}
Writing == {"write", "put", "wsleep", "wwoken"}
Inside  == {"write", "put", "read", "rwait", "copy", "copied"}

Bytes ==
  /\ data \in [0 .. PIPESIZE - 1 -> 0 .. MaxBytes] /\ written \in 0 .. MaxBytes
  /\ nread \in 0 .. UintMod - 1 /\ nwrite \in 0 .. UintMod - 1
Calls ==
  /\ pc \in [Proc -> Reading \cup Writing \cup {"user", "rclose", "wclose"}]
  /\ n \in [Proc -> Nat] /\ i \in [Proc -> Nat]
  /\ \A p \in Proc : i[p] <= n[p]
Ends ==
  /\ readopen \in BOOLEAN /\ writeopen \in BOOLEAN /\ lock \in Proc \cup {None}
  /\ rfile \in SUBSET Proc /\ wfile \in SUBSET Proc /\ killed \in SUBSET Proc
Got == ubuf \in [Proc -> Seq(1 .. MaxBytes)]
Types == Bytes /\ Calls /\ Ends /\ Got

\* Who is at work in the pipe holds its lock.
Locked ==
  /\ \A p \in Proc : lock = p <=> pc[p] \in Inside
  /\ \A p \in Proc : pc[p] = "put" => i[p] < n[p] /\ readopen
  /\ \A p \in Proc : pc[p] = "rwait" => Empty /\ writeopen

\* Who is in a call on a file has it open, and only those have that could write at first.
Referring ==
  /\ \A p \in Proc : pc[p] \in Reading => p \in rfile
  /\ \A p \in Proc : pc[p] \in Writing => p \in wfile
  /\ wfile \subseteq Writers

\* An end is open while a file refers to it, or the last one is on its way to
\* close it; the pipe is freed when both are closed.
ReadEnd ==
  /\ \A p \in Proc : pc[p] = "rclose" => rfile = {} /\ readopen /\ \A q \in Proc : pc[q] = "rclose" => q = p
  /\ rfile # {} => readopen
WriteEnd ==
  /\ \A p \in Proc : pc[p] = "wclose" => wfile = {} /\ writeopen /\ \A q \in Proc : pc[q] = "wclose" => q = p
  /\ wfile # {} => writeopen
Closing == Referring /\ ReadEnd /\ WriteEnd /\ freed = IF readopen \/ writeopen THEN 0 ELSE 1

\* Where the byte number k of those in the pipe lies, counted from 0.
Place(k) == (nread + k) % PIPESIZE
Filled == Held <= PIPESIZE /\ \A k \in 0 .. Held - 1 : data[Place(k)] \in 1 .. MaxBytes

\* Who sleeps has a reason, or somebody at work will wake him.
Sleeping ==
  /\ (\E p \in Proc : pc[p] = "wsleep") => (Full /\ readopen) \/ \E p \in Proc : pc[p] \in {"copy", "copied"}
  /\ killed \cap Writers = {} /\ (\E p \in Proc : pc[p] = "rsleep") => (Empty /\ writeopen) \/ \E p \in Proc : pc[p] \in {"write", "put"}

IInv == Types /\ Locked /\ Closing /\ Filled /\ Sleeping
-----------------------------------------------------------------------------
\* The invariant holds at the start.
LEMMA Initially ==
  ASSUME Init
  PROVE  IInv
  <1>1. nread = 0 /\ nwrite = 0 /\ (0 - 0) % UintMod = 0
    BY Sizes DEF Init
  <1>2. Held = 0
    BY <1>1 DEF Held
  <1>3. Types
    <2>1. data \in [0 .. PIPESIZE - 1 -> 0 .. MaxBytes] /\ written \in 0 .. MaxBytes
      BY Sizes, PipeAssumption DEF Init, PipeAssumption
    <2>2. ubuf \in [Proc -> Seq(1 .. MaxBytes)]
      BY DEF Init
    <2>3. nread \in 0 .. UintMod - 1 /\ nwrite \in 0 .. UintMod - 1
      BY <1>1, Sizes
    <2>4. rfile \in SUBSET Proc /\ wfile \in SUBSET Proc /\ killed \in SUBSET Proc
      BY PipeAssumption DEF Init, PipeAssumption
    <2>5. Calls
      BY DEF Init, Calls
    <2>6. lock \in Proc \cup {None} /\ readopen \in BOOLEAN /\ writeopen \in BOOLEAN
      BY DEF Init
    <2> QED
      BY <2>1, <2>2, <2>3, <2>4, <2>5, <2>6 DEF Types, Bytes, Ends, Got
  <1>4. Locked
    BY PipeAssumption DEF Init, Locked, Inside, PipeAssumption
  <1>5. Closing
    BY DEF Init, Closing, Referring, ReadEnd, WriteEnd, Reading, Writing
  <1>6. Filled
    BY <1>2, Sizes DEF Filled
  <1>7. Sleeping
    BY DEF Init, Sleeping
  <1> QED
    BY <1>3, <1>4, <1>5, <1>6, <1>7 DEF IInv

\* What the counters say of the bytes in the pipe.
LEMMA HeldIs ==
  ASSUME Types, Filled
  PROVE  /\ Held \in 0 .. PIPESIZE
         /\ Held = IF nread <= nwrite THEN nwrite - nread ELSE nwrite - nread + UintMod
         /\ Empty <=> Held = 0
         /\ Full <=> Held = PIPESIZE
         /\ nwrite % PIPESIZE = Place(Held)
         /\ \A k \in Int : Place(k) \in 0 .. PIPESIZE - 1
  <1>1. nread \in 0 .. UintMod - 1 /\ nwrite \in 0 .. UintMod - 1
    BY DEF Types, Bytes, Calls, Ends, Got
  <1>2. Held = IF nread <= nwrite THEN nwrite - nread ELSE nwrite - nread + UintMod
    BY <1>1, Sizes, Counting DEF Held
  <1>3. Held \in 0 .. PIPESIZE
    BY <1>1, <1>2, Sizes DEF Filled
  <1>4. Empty <=> Held = 0
    BY <1>1, <1>2, Sizes DEF Empty
  <1>5. (nread + PIPESIZE) % UintMod = IF nread + PIPESIZE < UintMod THEN nread + PIPESIZE ELSE nread + PIPESIZE - UintMod
    <2>1. CASE nread + PIPESIZE < UintMod
      BY <2>1, <1>1, Sizes
    <2>2. CASE ~(nread + PIPESIZE < UintMod)
      BY <2>2, <1>1, Sizes
    <2> QED
      BY <2>1, <2>2
  <1>6. Full <=> Held = PIPESIZE
    BY <1>1, <1>2, <1>3, <1>5, Sizes DEF Full
  <1>7. nwrite % PIPESIZE = Place(Held)
    <2>1. nwrite = nread + Held \/ nwrite = (nread + Held) - UintMod
      BY <1>1, <1>2, Sizes
    <2>2. nread + Held \in Int
      BY <1>1, <1>3
    <2>3. ((nread + Held) - UintMod) % PIPESIZE = (nread + Held) % PIPESIZE
      BY <2>2, Wraps
    <2> QED
      BY <2>1, <2>3 DEF Place
  <1>8. \A k \in Int : Place(k) \in 0 .. PIPESIZE - 1
    BY <1>1, Sizes DEF Place
  <1> QED
    BY <1>2, <1>3, <1>4, <1>6, <1>7, <1>8

\* A byte that is put goes behind the others, ...
LEMMA PutIs ==
  ASSUME IInv, NEW p \in Proc, WriteByte(p)
  PROVE  /\ Held' = Held + 1 /\ Held < PIPESIZE /\ nwrite' \in 0 .. UintMod - 1 /\ nread' = nread
         /\ data' \in [0 .. PIPESIZE - 1 -> 0 .. MaxBytes] /\ written + 1 \in 1 .. MaxBytes
         /\ data'[Place(Held)] = written + 1
         /\ \A k \in 0 .. Held - 1 : data'[Place(k)] = data[Place(k)]
  <1>1. /\ nread \in 0 .. UintMod - 1 /\ nwrite \in 0 .. UintMod - 1 /\ Types /\ Filled
        /\ data \in [0 .. PIPESIZE - 1 -> 0 .. MaxBytes] /\ written \in 0 .. MaxBytes /\ MaxBytes \in Nat
    BY PipeAssumption DEF IInv, Types, Bytes, Calls, Ends, Got, PipeAssumption
  <1>2. /\ nread' = nread /\ nwrite' = (nwrite + 1) % UintMod
        /\ ~Full /\ written < MaxBytes /\ data' = [data EXCEPT ![nwrite % PIPESIZE] = written + 1]
    BY DEF WriteByte
  <1>3. /\ Held \in 0 .. PIPESIZE /\ (Full <=> Held = PIPESIZE) /\ nwrite % PIPESIZE = Place(Held)
        /\ Held = IF nread <= nwrite THEN nwrite - nread ELSE nwrite - nread + UintMod
        /\ \A k \in Int : Place(k) \in 0 .. PIPESIZE - 1
    BY <1>1, HeldIs
  <1>4. Held \in 0 .. PIPESIZE - 1
    BY <1>2, <1>3, Sizes
  <1>5. nwrite' = IF nwrite + 1 = UintMod THEN 0 ELSE nwrite + 1
    BY <1>1, <1>2, Sizes, Counting
  <1>6. nwrite' \in 0 .. UintMod - 1
    BY <1>1, <1>5, Sizes
  <1>7. Held' = IF nread <= nwrite' THEN nwrite' - nread ELSE nwrite' - nread + UintMod
    <2>1. Held' = (nwrite' - nread) % UintMod
      BY <1>2 DEF Held
    <2>2. \A a, b \in 0 .. UintMod - 1 : (b - a) % UintMod = IF a <= b THEN b - a ELSE b - a + UintMod
      BY Sizes, Counting
    <2> QED
      BY <2>1, <2>2, <1>1, <1>6
  <1>8. Held' = Held + 1
    <2>1. Held = IF nread <= nwrite THEN nwrite - nread ELSE nwrite - nread + UintMod
      BY <1>3
    <2> QED
      BY <2>1, <1>1, <1>4, <1>5, <1>7, Sizes
  <1>9. written + 1 \in 1 .. MaxBytes
    BY <1>1, <1>2
  <1>10. data' = [data EXCEPT ![Place(Held)] = written + 1]
    BY <1>2, <1>3
  <1>11. Place(Held) \in 0 .. PIPESIZE - 1
    BY <1>3
  <1>12. ASSUME NEW k \in 0 .. Held - 1 PROVE data'[Place(k)] = data[Place(k)]
    <2>1. Place(k) # Place(Held)
      <3>1. nread + k \in Int /\ nread + Held \in Int /\ nread + k < nread + Held /\ nread + Held < (nread + k) + PIPESIZE
        <4>1. k \in Int /\ Held \in Int /\ nread \in Int /\ PIPESIZE \in Int /\ k < Held /\ Held < PIPESIZE /\ k >= 0
          BY <1>1, <1>4, Sizes
        <4> QED
          BY <4>1
      <3>2. (nread + k) % PIPESIZE # (nread + Held) % PIPESIZE
        BY <3>1, Sizes, ModApart
      <3> QED
        BY <3>2 DEF Place
    <2>2. Place(k) \in 0 .. PIPESIZE - 1
      BY <1>3
    <2> QED
      BY <2>1, <2>2, <1>1, <1>10
  <1>13. data' \in [0 .. PIPESIZE - 1 -> 0 .. MaxBytes]
    <2>1. written + 1 \in 0 .. MaxBytes
      BY <1>9
    <2> QED
      BY <2>1, <1>1, <1>10
  <1>14. data'[Place(Held)] = written + 1
    BY <1>1, <1>10, <1>11
  <1>15. Held < PIPESIZE
    BY <1>4, Sizes
  <1> QED
    BY <1>2, <1>6, <1>8, <1>9, <1>12, <1>13, <1>14, <1>15

\* ... and the first is the one that is got.
LEMMA GetIs ==
  ASSUME IInv, NEW p \in Proc, ReadByte(p)
  PROVE  /\ Held > 0 /\ Held' = Held - 1 /\ nread' \in 0 .. UintMod - 1 /\ nwrite' = nwrite /\ data' = data
         /\ nread % PIPESIZE = Place(0) /\ data[Place(0)] \in 1 .. MaxBytes
         /\ \A k \in Int : Place(k)' = Place(k + 1)
  <1>1. nread \in 0 .. UintMod - 1 /\ nwrite \in 0 .. UintMod - 1 /\ Types /\ Filled
    BY DEF IInv, Types, Bytes, Calls, Ends, Got
  <1>2. /\ Held \in 1 .. PIPESIZE
        /\ Held = IF nread <= nwrite THEN nwrite - nread ELSE nwrite - nread + UintMod
    BY <1>1, HeldIs, Sizes DEF ReadByte
  <1>3. nread' = (IF nread + 1 = UintMod THEN 0 ELSE nread + 1) /\ nwrite' = nwrite /\ data' = data
    BY <1>1, Sizes, Counting DEF ReadByte
  <1>4. nread' \in 0 .. UintMod - 1
    BY <1>1, <1>3, Sizes
  <1>5. Held' = IF nread' <= nwrite THEN nwrite - nread' ELSE nwrite - nread' + UintMod
    BY <1>1, <1>3, <1>4, Sizes, Counting DEF Held
  <1>6. Held' = Held - 1
    BY <1>1, <1>2, <1>3, <1>5, Sizes
  <1>7. nread % PIPESIZE = Place(0) /\ data[Place(0)] \in 1 .. MaxBytes
    BY <1>1, <1>2 DEF Place, Filled
  <1>8. ASSUME NEW k \in Int PROVE Place(k)' = Place(k + 1)
    <2>1. nread' + k = nread + (k + 1) \/ nread' + k = (nread + (k + 1)) - UintMod
      BY <1>1, <1>3, Sizes
    <2>2. nread + (k + 1) \in Int
      BY <1>1
    <2>3. ((nread + (k + 1)) - UintMod) % PIPESIZE = (nread + (k + 1)) % PIPESIZE
      BY <2>2, Wraps
    <2> QED
      BY <2>1, <2>3 DEF Place
  <1> QED
    BY <1>2, <1>3, <1>4, <1>6, <1>7, <1>8

\* Only who holds the lock runs in the pipe.
LEMMA LockedKept ==
  ASSUME IInv, [Next]_vars
  PROVE  Locked'
  <1>1. ASSUME NEW p \in Proc, CallWrite(p) PROVE Locked'
    BY <1>1, PipeAssumption DEF CallWrite, Goto, IInv, Types, Calls, Ends, Locked, Inside,
                                PipeAssumption, pipe, files, Empty
  <1>2. ASSUME NEW p \in Proc, WriteGivesUp(p) PROVE Locked'
    BY <1>2, PipeAssumption DEF WriteGivesUp, Returns, IInv, Types, Calls, Ends, Locked, Inside, Mine,
                                PipeAssumption, pipe, files, Empty
  <1>3. ASSUME NEW p \in Proc, WriteGoesOn(p) PROVE Locked'
    BY <1>3, PipeAssumption DEF WriteGoesOn, Goto, IInv, Types, Calls, Ends, Locked, Inside, Mine,
                                PipeAssumption, pipe, files, Empty
  <1>4. ASSUME NEW p \in Proc, WriteSleep(p) PROVE Locked'
    BY <1>4, PipeAssumption DEF WriteSleep, Woken, IInv, Types, Calls, Ends, Locked, Inside, Mine,
                                PipeAssumption, pipe, files, Empty
  <1>5. ASSUME NEW p \in Proc, WriteResumes(p) PROVE Locked'
    BY <1>5, PipeAssumption DEF WriteResumes, Goto, IInv, Types, Calls, Ends, Locked, Inside,
                                PipeAssumption, pipe, files, Empty
  <1>6. ASSUME NEW p \in Proc, WriteByte(p) PROVE Locked'
    BY <1>6, PipeAssumption DEF WriteByte, Goto, IInv, Types, Calls, Ends, Locked, Inside, Mine,
                                PipeAssumption, files, Empty
  <1>7. ASSUME NEW p \in Proc, WriteReturns(p) PROVE Locked'
    BY <1>7, PipeAssumption DEF WriteReturns, Returns, Woken, IInv, Types, Calls, Ends, Locked, Inside,
                                Mine, PipeAssumption, pipe, files, Empty
  <1>8. ASSUME NEW p \in Proc, CallRead(p) PROVE Locked'
    BY <1>8, PipeAssumption DEF CallRead, Goto, IInv, Types, Calls, Ends, Locked, Inside,
                                PipeAssumption, pipe, files, Empty
  <1>9. ASSUME NEW p \in Proc, ReadGivesUp(p) PROVE Locked'
    BY <1>9, PipeAssumption DEF ReadGivesUp, Returns, IInv, Types, Calls, Ends, Locked, Inside, Mine,
                                PipeAssumption, pipe, files, Empty, MustWait
  <1>10. ASSUME NEW p \in Proc, ReadWaits(p) PROVE Locked'
    BY <1>10, PipeAssumption DEF ReadWaits, Goto, IInv, Types, Calls, Ends, Locked, Inside, Mine,
                                 PipeAssumption, pipe, files, Empty, MustWait
  <1>11. ASSUME NEW p \in Proc, ReadSleep(p) PROVE Locked'
    BY <1>11, PipeAssumption DEF ReadSleep, Goto, IInv, Types, Calls, Ends, Locked, Inside, Mine,
                                 PipeAssumption, pipe, files, Empty
  <1>12. ASSUME NEW p \in Proc, ReadResumes(p) PROVE Locked'
    BY <1>12, PipeAssumption DEF ReadResumes, Goto, IInv, Types, Calls, Ends, Locked, Inside,
                                 PipeAssumption, pipe, files, Empty
  <1>13. ASSUME NEW p \in Proc, ReadByte(p) PROVE Locked'
    BY <1>13, PipeAssumption DEF ReadByte, Goto, MayCopy, IInv, Types, Calls, Ends, Locked, Inside,
                                 Mine, PipeAssumption, files, Empty, MustWait
  <1>14. ASSUME NEW p \in Proc, ReadReturns(p) PROVE Locked'
    BY <1>14, PipeAssumption DEF ReadReturns, Returns, Woken, MayCopy, IInv, Types, Calls, Ends, Locked,
                                 Inside, Mine, PipeAssumption, pipe, files, Empty, MustWait
  <1>15. ASSUME NEW p \in Proc, CloseRead(p) PROVE Locked'
    BY <1>15, PipeAssumption DEF CloseRead, Goto, IInv, Types, Calls, Ends, Locked, Inside,
                                 PipeAssumption, pipe, Empty
  <1>16. ASSUME NEW p \in Proc, CloseWrite(p) PROVE Locked'
    BY <1>16, PipeAssumption DEF CloseWrite, Goto, IInv, Types, Calls, Ends, Locked, Inside,
                                 PipeAssumption, pipe, Empty
  <1>17. ASSUME NEW p \in Proc, PipeCloseRead(p) PROVE Locked'
    BY <1>17, PipeAssumption DEF PipeCloseRead, Woken, BothClosed, IInv, Types, Calls, Ends, Locked,
                                 Inside, PipeAssumption, files, Empty
  <1>18. ASSUME NEW p \in Proc, PipeCloseWrite(p) PROVE Locked'
    BY <1>18, PipeAssumption DEF PipeCloseWrite, Woken, BothClosed, IInv, Types, Calls, Ends, Locked,
                                 Inside, PipeAssumption, files, Empty
  <1>19. ASSUME NEW p \in Proc, Kill(p) PROVE Locked'
    BY <1>19, PipeAssumption DEF Kill, Goto, IInv, Types, Calls, Ends, Locked, Inside, PipeAssumption,
                                 pipe, files, Empty
  <1>20. ASSUME UNCHANGED vars PROVE Locked'
    BY <1>20, PipeAssumption DEF vars, IInv, Types, Calls, Ends, Locked, Inside, Mine, PipeAssumption,
                                 pipe, files, Empty, MustWait
  <1> QED
    BY <1>1, <1>2, <1>3, <1>4, <1>5, <1>6, <1>7, <1>8, <1>9, <1>10,
       <1>11, <1>12, <1>13, <1>14, <1>15, <1>16, <1>17, <1>18, <1>19, <1>20
    DEF Next, PipeWrite, PipeRead, PipeClose

\* A call ends before its process closes the file.
LEMMA ReferringKept ==
  ASSUME IInv, [Next]_vars
  PROVE  Referring'
  <1>1. ASSUME NEW p \in Proc, CallWrite(p) PROVE Referring'
    BY <1>1 DEF CallWrite, Goto, IInv, Types, Calls, Closing, Referring, Reading, Writing, pipe, files
  <1>2. ASSUME NEW p \in Proc, WriteGivesUp(p) PROVE Referring'
    BY <1>2 DEF WriteGivesUp, Returns, IInv, Types, Calls, Closing, Referring, Reading, Writing, pipe,
                files
  <1>3. ASSUME NEW p \in Proc, WriteGoesOn(p) PROVE Referring'
    BY <1>3 DEF WriteGoesOn, Goto, IInv, Types, Calls, Closing, Referring, Reading, Writing, pipe, files
  <1>4. ASSUME NEW p \in Proc, WriteSleep(p) PROVE Referring'
    BY <1>4 DEF WriteSleep, Woken, IInv, Types, Calls, Closing, Referring, Reading, Writing, pipe, files
  <1>5. ASSUME NEW p \in Proc, WriteResumes(p) PROVE Referring'
    BY <1>5 DEF WriteResumes, Goto, IInv, Types, Calls, Closing, Referring, Reading, Writing, pipe,
                files
  <1>6. ASSUME NEW p \in Proc, WriteByte(p) PROVE Referring'
    <2>1. lock = p /\ pc' = [pc EXCEPT ![p] = "write"] /\ pc[p] = "put" /\ UNCHANGED <<readopen, writeopen, freed, files>>
      BY <1>6 DEF WriteByte, Goto, Mine
    <2> QED
      BY <2>1 DEF IInv, Types, Calls, Closing, Referring, Reading, Writing, files
  <1>7. ASSUME NEW p \in Proc, WriteReturns(p) PROVE Referring'
    BY <1>7 DEF WriteReturns, Returns, Woken, IInv, Types, Calls, Closing, Referring, Reading, Writing,
                pipe, files
  <1>8. ASSUME NEW p \in Proc, CallRead(p) PROVE Referring'
    BY <1>8 DEF CallRead, Goto, IInv, Types, Calls, Closing, Referring, Reading, Writing, pipe, files
  <1>9. ASSUME NEW p \in Proc, ReadGivesUp(p) PROVE Referring'
    BY <1>9 DEF ReadGivesUp, Returns, IInv, Types, Calls, Closing, Referring, Reading, Writing, pipe,
                files
  <1>10. ASSUME NEW p \in Proc, ReadWaits(p) PROVE Referring'
    BY <1>10 DEF ReadWaits, Goto, IInv, Types, Calls, Closing, Referring, Reading, Writing, pipe, files
  <1>11. ASSUME NEW p \in Proc, ReadSleep(p) PROVE Referring'
    BY <1>11 DEF ReadSleep, Goto, IInv, Types, Calls, Closing, Referring, Reading, Writing, pipe, files
  <1>12. ASSUME NEW p \in Proc, ReadResumes(p) PROVE Referring'
    BY <1>12 DEF ReadResumes, Goto, IInv, Types, Calls, Closing, Referring, Reading, Writing, pipe,
                 files
  <1>13. ASSUME NEW p \in Proc, ReadByte(p) PROVE Referring'
    <2>1. /\ lock = p /\ pc[p] \in {"read", "copy"} /\ UNCHANGED <<readopen, writeopen, freed, files>>
          /\ pc' = [pc EXCEPT ![p] = "copy"] \/ pc' = [pc EXCEPT ![p] = "copied"]
      BY <1>13 DEF ReadByte, Goto, Mine, MayCopy
    <2> QED
      BY <2>1 DEF IInv, Types, Calls, Closing, Referring, Reading, Writing, files
  <1>14. ASSUME NEW p \in Proc, ReadReturns(p) PROVE Referring'
    BY <1>14 DEF ReadReturns, Returns, Woken, MayCopy, IInv, Types, Calls, Closing, Referring, Reading,
                 Writing, pipe, files
  <1>15. ASSUME NEW p \in Proc, CloseRead(p) PROVE Referring'
    BY <1>15 DEF CloseRead, Goto, IInv, Types, Calls, Closing, Referring, Reading, Writing, pipe
  <1>16. ASSUME NEW p \in Proc, CloseWrite(p) PROVE Referring'
    BY <1>16 DEF CloseWrite, Goto, IInv, Types, Calls, Closing, Referring, Reading, Writing, pipe
  <1>17. ASSUME NEW p \in Proc, PipeCloseRead(p) PROVE Referring'
    BY <1>17 DEF PipeCloseRead, Woken, BothClosed, IInv, Types, Calls, Closing, Referring, Reading,
                 Writing, files
  <1>18. ASSUME NEW p \in Proc, PipeCloseWrite(p) PROVE Referring'
    BY <1>18 DEF PipeCloseWrite, Woken, BothClosed, IInv, Types, Calls, Closing, Referring, Reading,
                 Writing, files
  <1>19. ASSUME NEW p \in Proc, Kill(p) PROVE Referring'
    BY <1>19 DEF Kill, Goto, IInv, Types, Calls, Closing, Referring, Reading, Writing, pipe, files
  <1>20. ASSUME UNCHANGED vars PROVE Referring'
    BY <1>20 DEF vars, IInv, Types, Calls, Closing, Referring, Reading, Writing, pipe, files
  <1> QED
    BY <1>1, <1>2, <1>3, <1>4, <1>5, <1>6, <1>7, <1>8, <1>9, <1>10,
       <1>11, <1>12, <1>13, <1>14, <1>15, <1>16, <1>17, <1>18, <1>19, <1>20
    DEF Next, PipeWrite, PipeRead, PipeClose

\* The last reader closes the read end, ...
LEMMA ReadEndKept ==
  ASSUME IInv, [Next]_vars
  PROVE  ReadEnd'
  <1>1. ASSUME NEW p \in Proc, CallWrite(p) PROVE ReadEnd'
    BY <1>1 DEF CallWrite, Goto, IInv, Types, Calls, Ends, Closing, Referring, ReadEnd, Reading,
                Writing, pipe, files
  <1>2. ASSUME NEW p \in Proc, WriteGivesUp(p) PROVE ReadEnd'
    BY <1>2 DEF WriteGivesUp, Returns, IInv, Types, Calls, Ends, Closing, Referring, ReadEnd, Reading,
                Writing, pipe, files
  <1>3. ASSUME NEW p \in Proc, WriteGoesOn(p) PROVE ReadEnd'
    BY <1>3 DEF WriteGoesOn, Goto, IInv, Types, Calls, Ends, Closing, Referring, ReadEnd, Reading,
                Writing, pipe, files
  <1>4. ASSUME NEW p \in Proc, WriteSleep(p) PROVE ReadEnd'
    BY <1>4 DEF WriteSleep, Woken, IInv, Types, Calls, Ends, Closing, Referring, ReadEnd, Reading,
                Writing, pipe, files
  <1>5. ASSUME NEW p \in Proc, WriteResumes(p) PROVE ReadEnd'
    BY <1>5 DEF WriteResumes, Goto, IInv, Types, Calls, Ends, Closing, Referring, ReadEnd, Reading,
                Writing, pipe, files
  <1>6. ASSUME NEW p \in Proc, WriteByte(p) PROVE ReadEnd'
    <2>1. lock = p /\ pc' = [pc EXCEPT ![p] = "write"] /\ pc[p] = "put" /\ UNCHANGED <<readopen, writeopen, freed, files>>
      BY <1>6 DEF WriteByte, Goto, Mine
    <2> QED
      BY <2>1 DEF IInv, Types, Calls, Ends, Closing, Referring, ReadEnd, Reading, Writing, files
  <1>7. ASSUME NEW p \in Proc, WriteReturns(p) PROVE ReadEnd'
    BY <1>7 DEF WriteReturns, Returns, Woken, IInv, Types, Calls, Ends, Closing, Referring, ReadEnd,
                Reading, Writing, pipe, files
  <1>8. ASSUME NEW p \in Proc, CallRead(p) PROVE ReadEnd'
    BY <1>8 DEF CallRead, Goto, IInv, Types, Calls, Ends, Closing, Referring, ReadEnd, Reading, Writing,
                pipe, files
  <1>9. ASSUME NEW p \in Proc, ReadGivesUp(p) PROVE ReadEnd'
    BY <1>9 DEF ReadGivesUp, Returns, IInv, Types, Calls, Ends, Closing, Referring, ReadEnd, Reading,
                Writing, pipe, files
  <1>10. ASSUME NEW p \in Proc, ReadWaits(p) PROVE ReadEnd'
    BY <1>10 DEF ReadWaits, Goto, IInv, Types, Calls, Ends, Closing, Referring, ReadEnd, Reading,
                 Writing, pipe, files
  <1>11. ASSUME NEW p \in Proc, ReadSleep(p) PROVE ReadEnd'
    BY <1>11 DEF ReadSleep, Goto, IInv, Types, Calls, Ends, Closing, Referring, ReadEnd, Reading,
                 Writing, pipe, files
  <1>12. ASSUME NEW p \in Proc, ReadResumes(p) PROVE ReadEnd'
    BY <1>12 DEF ReadResumes, Goto, IInv, Types, Calls, Ends, Closing, Referring, ReadEnd, Reading,
                 Writing, pipe, files
  <1>13. ASSUME NEW p \in Proc, ReadByte(p) PROVE ReadEnd'
    <2>1. /\ lock = p /\ pc[p] \in {"read", "copy"} /\ UNCHANGED <<readopen, writeopen, freed, files>>
          /\ pc' = [pc EXCEPT ![p] = "copy"] \/ pc' = [pc EXCEPT ![p] = "copied"]
      BY <1>13 DEF ReadByte, Goto, Mine, MayCopy
    <2> QED
      BY <2>1 DEF IInv, Types, Calls, Ends, Closing, Referring, ReadEnd, Reading, Writing, files
  <1>14. ASSUME NEW p \in Proc, ReadReturns(p) PROVE ReadEnd'
    BY <1>14 DEF ReadReturns, Returns, Woken, MayCopy, IInv, Types, Calls, Ends, Closing, Referring,
                 ReadEnd, Reading, Writing, pipe, files
  <1>15. ASSUME NEW p \in Proc, CloseRead(p) PROVE ReadEnd'
    BY <1>15 DEF CloseRead, Goto, IInv, Types, Calls, Ends, Closing, Referring, ReadEnd, Reading,
                 Writing, pipe
  <1>16. ASSUME NEW p \in Proc, CloseWrite(p) PROVE ReadEnd'
    BY <1>16 DEF CloseWrite, Goto, IInv, Types, Calls, Ends, Closing, Referring, ReadEnd, Reading,
                 Writing, pipe
  <1>17. ASSUME NEW p \in Proc, PipeCloseRead(p) PROVE ReadEnd'
    BY <1>17 DEF PipeCloseRead, Woken, BothClosed, IInv, Types, Calls, Ends, Closing, Referring,
                 ReadEnd, Reading, Writing, files
  <1>18. ASSUME NEW p \in Proc, PipeCloseWrite(p) PROVE ReadEnd'
    BY <1>18 DEF PipeCloseWrite, Woken, BothClosed, IInv, Types, Calls, Ends, Closing, Referring,
                 ReadEnd, Reading, Writing, files
  <1>19. ASSUME NEW p \in Proc, Kill(p) PROVE ReadEnd'
    BY <1>19 DEF Kill, Goto, IInv, Types, Calls, Ends, Closing, Referring, ReadEnd, Reading, Writing,
                 pipe, files
  <1>20. ASSUME UNCHANGED vars PROVE ReadEnd'
    BY <1>20 DEF vars, IInv, Types, Calls, Ends, Closing, Referring, ReadEnd, Reading, Writing, pipe,
                 files
  <1> QED
    BY <1>1, <1>2, <1>3, <1>4, <1>5, <1>6, <1>7, <1>8, <1>9, <1>10,
       <1>11, <1>12, <1>13, <1>14, <1>15, <1>16, <1>17, <1>18, <1>19, <1>20
    DEF Next, PipeWrite, PipeRead, PipeClose

\* ... and the last writer the write end.
LEMMA WriteEndKept ==
  ASSUME IInv, [Next]_vars
  PROVE  WriteEnd'
  <1>1. ASSUME NEW p \in Proc, CallWrite(p) PROVE WriteEnd'
    BY <1>1 DEF CallWrite, Goto, IInv, Types, Calls, Ends, Closing, Referring, WriteEnd, Reading,
                Writing, pipe, files
  <1>2. ASSUME NEW p \in Proc, WriteGivesUp(p) PROVE WriteEnd'
    BY <1>2 DEF WriteGivesUp, Returns, IInv, Types, Calls, Ends, Closing, Referring, WriteEnd, Reading,
                Writing, pipe, files
  <1>3. ASSUME NEW p \in Proc, WriteGoesOn(p) PROVE WriteEnd'
    BY <1>3 DEF WriteGoesOn, Goto, IInv, Types, Calls, Ends, Closing, Referring, WriteEnd, Reading,
                Writing, pipe, files
  <1>4. ASSUME NEW p \in Proc, WriteSleep(p) PROVE WriteEnd'
    BY <1>4 DEF WriteSleep, Woken, IInv, Types, Calls, Ends, Closing, Referring, WriteEnd, Reading,
                Writing, pipe, files
  <1>5. ASSUME NEW p \in Proc, WriteResumes(p) PROVE WriteEnd'
    BY <1>5 DEF WriteResumes, Goto, IInv, Types, Calls, Ends, Closing, Referring, WriteEnd, Reading,
                Writing, pipe, files
  <1>6. ASSUME NEW p \in Proc, WriteByte(p) PROVE WriteEnd'
    <2>1. lock = p /\ pc' = [pc EXCEPT ![p] = "write"] /\ pc[p] = "put" /\ UNCHANGED <<readopen, writeopen, freed, files>>
      BY <1>6 DEF WriteByte, Goto, Mine
    <2> QED
      BY <2>1 DEF IInv, Types, Calls, Ends, Closing, Referring, WriteEnd, Reading, Writing, files
  <1>7. ASSUME NEW p \in Proc, WriteReturns(p) PROVE WriteEnd'
    BY <1>7 DEF WriteReturns, Returns, Woken, IInv, Types, Calls, Ends, Closing, Referring, WriteEnd,
                Reading, Writing, pipe, files
  <1>8. ASSUME NEW p \in Proc, CallRead(p) PROVE WriteEnd'
    BY <1>8 DEF CallRead, Goto, IInv, Types, Calls, Ends, Closing, Referring, WriteEnd, Reading,
                Writing, pipe, files
  <1>9. ASSUME NEW p \in Proc, ReadGivesUp(p) PROVE WriteEnd'
    BY <1>9 DEF ReadGivesUp, Returns, IInv, Types, Calls, Ends, Closing, Referring, WriteEnd, Reading,
                Writing, pipe, files
  <1>10. ASSUME NEW p \in Proc, ReadWaits(p) PROVE WriteEnd'
    BY <1>10 DEF ReadWaits, Goto, IInv, Types, Calls, Ends, Closing, Referring, WriteEnd, Reading,
                 Writing, pipe, files
  <1>11. ASSUME NEW p \in Proc, ReadSleep(p) PROVE WriteEnd'
    BY <1>11 DEF ReadSleep, Goto, IInv, Types, Calls, Ends, Closing, Referring, WriteEnd, Reading,
                 Writing, pipe, files
  <1>12. ASSUME NEW p \in Proc, ReadResumes(p) PROVE WriteEnd'
    BY <1>12 DEF ReadResumes, Goto, IInv, Types, Calls, Ends, Closing, Referring, WriteEnd, Reading,
                 Writing, pipe, files
  <1>13. ASSUME NEW p \in Proc, ReadByte(p) PROVE WriteEnd'
    <2>1. /\ lock = p /\ pc[p] \in {"read", "copy"} /\ UNCHANGED <<readopen, writeopen, freed, files>>
          /\ pc' = [pc EXCEPT ![p] = "copy"] \/ pc' = [pc EXCEPT ![p] = "copied"]
      BY <1>13 DEF ReadByte, Goto, Mine, MayCopy
    <2> QED
      BY <2>1 DEF IInv, Types, Calls, Ends, Closing, Referring, WriteEnd, Reading, Writing, files
  <1>14. ASSUME NEW p \in Proc, ReadReturns(p) PROVE WriteEnd'
    BY <1>14 DEF ReadReturns, Returns, Woken, MayCopy, IInv, Types, Calls, Ends, Closing, Referring,
                 WriteEnd, Reading, Writing, pipe, files
  <1>15. ASSUME NEW p \in Proc, CloseRead(p) PROVE WriteEnd'
    BY <1>15 DEF CloseRead, Goto, IInv, Types, Calls, Ends, Closing, Referring, WriteEnd, Reading,
                 Writing, pipe
  <1>16. ASSUME NEW p \in Proc, CloseWrite(p) PROVE WriteEnd'
    BY <1>16 DEF CloseWrite, Goto, IInv, Types, Calls, Ends, Closing, Referring, WriteEnd, Reading,
                 Writing, pipe
  <1>17. ASSUME NEW p \in Proc, PipeCloseRead(p) PROVE WriteEnd'
    BY <1>17 DEF PipeCloseRead, Woken, BothClosed, IInv, Types, Calls, Ends, Closing, Referring,
                 WriteEnd, Reading, Writing, files
  <1>18. ASSUME NEW p \in Proc, PipeCloseWrite(p) PROVE WriteEnd'
    BY <1>18 DEF PipeCloseWrite, Woken, BothClosed, IInv, Types, Calls, Ends, Closing, Referring,
                 WriteEnd, Reading, Writing, files
  <1>19. ASSUME NEW p \in Proc, Kill(p) PROVE WriteEnd'
    BY <1>19 DEF Kill, Goto, IInv, Types, Calls, Ends, Closing, Referring, WriteEnd, Reading, Writing,
                 pipe, files
  <1>20. ASSUME UNCHANGED vars PROVE WriteEnd'
    BY <1>20 DEF vars, IInv, Types, Calls, Ends, Closing, Referring, WriteEnd, Reading, Writing, pipe,
                 files
  <1> QED
    BY <1>1, <1>2, <1>3, <1>4, <1>5, <1>6, <1>7, <1>8, <1>9, <1>10,
       <1>11, <1>12, <1>13, <1>14, <1>15, <1>16, <1>17, <1>18, <1>19, <1>20
    DEF Next, PipeWrite, PipeRead, PipeClose

\* The end that is closed second frees the pipe.
LEMMA FreedKept ==
  ASSUME IInv, [Next]_vars
  PROVE  freed' = IF readopen' \/ writeopen' THEN 0 ELSE 1
  <1>1. /\ freed = IF readopen \/ writeopen THEN 0 ELSE 1
        /\ readopen \in BOOLEAN /\ writeopen \in BOOLEAN
        /\ \A p \in Proc : pc[p] = "rclose" => readopen
        /\ \A p \in Proc : pc[p] = "wclose" => writeopen
    BY DEF IInv, Types, Bytes, Calls, Ends, Got, Closing, ReadEnd, WriteEnd
  <1>2. ASSUME NEW p \in Proc, PipeCloseRead(p) PROVE freed' = IF readopen' \/ writeopen' THEN 0 ELSE 1
    BY <1>1, <1>2 DEF PipeCloseRead, BothClosed
  <1>3. ASSUME NEW p \in Proc, PipeCloseWrite(p) PROVE freed' = IF readopen' \/ writeopen' THEN 0 ELSE 1
    BY <1>1, <1>3 DEF PipeCloseWrite, BothClosed
  <1>4. ASSUME UNCHANGED <<freed, readopen, writeopen>> PROVE freed' = IF readopen' \/ writeopen' THEN 0 ELSE 1
    BY <1>1, <1>4
  <1>5. \/ \E p \in Proc : PipeCloseRead(p) \/ PipeCloseWrite(p)
        \/ UNCHANGED <<freed, readopen, writeopen>>
    BY DEF Next, PipeWrite, PipeRead, PipeClose, CallWrite, WriteGivesUp, WriteGoesOn, WriteSleep,
           WriteResumes,
           WriteByte, WriteReturns, CallRead, ReadGivesUp, ReadWaits, ReadSleep, ReadResumes, ReadByte, ReadReturns,
           CloseRead, CloseWrite, Kill, Returns, vars, pipe
  <1> QED
    BY <1>2, <1>3, <1>4, <1>5

\* Only two steps move bytes.
LEMMA Moves ==
  ASSUME [Next]_vars
  PROVE  \/ \E p \in Proc : WriteByte(p) \/ ReadByte(p)
         \/ UNCHANGED <<data, nread, nwrite, written>>
  BY DEF Next, PipeWrite, PipeRead, PipeClose, CallWrite, WriteGivesUp, WriteGoesOn, WriteSleep,
         WriteResumes,
         WriteReturns, CallRead, ReadGivesUp, ReadWaits, ReadSleep, ReadResumes, ReadReturns,
         CloseRead, CloseWrite, PipeCloseRead, PipeCloseWrite, Kill, Returns, vars, pipe

\* Places that hold bytes hold bytes that were written.
LEMMA FilledKept ==
  ASSUME IInv, [Next]_vars
  PROVE  Filled'
  <1>1. ASSUME NEW p \in Proc, WriteByte(p) PROVE Filled'
    <2>1. /\ Held' = Held + 1 /\ Held < PIPESIZE /\ nread' = nread /\ written + 1 \in 1 .. MaxBytes
          /\ data'[Place(Held)] = written + 1
          /\ \A k \in 0 .. Held - 1 : data'[Place(k)] = data[Place(k)]
      BY <1>1, PutIs
    <2>2. Held \in 0 .. PIPESIZE
      BY HeldIs DEF IInv
    <2>3. Held' <= PIPESIZE
      BY <2>1, <2>2, Sizes
    <2>4. ASSUME NEW k \in 0 .. Held' - 1 PROVE data'[Place(k)'] \in 1 .. MaxBytes
      <3>1. Place(k)' = Place(k)
        BY <2>1 DEF Place
      <3>2. CASE k = Held
        BY <3>1, <3>2, <2>1
      <3>3. CASE k # Held
        <4>1. k \in 0 .. Held - 1
          BY <3>3, <2>1, <2>2
        <4>2. data[Place(k)] \in 1 .. MaxBytes
          BY <4>1 DEF IInv, Filled
        <4> QED
          BY <3>1, <4>1, <4>2, <2>1
      <3> QED
        BY <3>2, <3>3
    <2> QED
      BY <2>3, <2>4 DEF Filled
  <1>2. ASSUME NEW p \in Proc, ReadByte(p) PROVE Filled'
    <2>1. Held > 0 /\ Held' = Held - 1 /\ data' = data /\ \A k \in Int : Place(k)' = Place(k + 1)
      BY <1>2, GetIs
    <2>2. Held \in 0 .. PIPESIZE
      BY HeldIs DEF IInv
    <2>3. Held' <= PIPESIZE
      BY <2>1, <2>2, Sizes
    <2>4. ASSUME NEW k \in 0 .. Held' - 1 PROVE data'[Place(k)'] \in 1 .. MaxBytes
      <3>1. k \in Int /\ k + 1 \in 0 .. Held - 1
        BY <2>1, <2>2
      <3>2. data[Place(k + 1)] \in 1 .. MaxBytes
        BY <3>1 DEF IInv, Filled
      <3> QED
        BY <3>1, <3>2, <2>1
    <2> QED
      BY <2>3, <2>4 DEF Filled
  <1>3. ASSUME UNCHANGED <<data, nread, nwrite, written>> PROVE Filled'
    BY <1>3 DEF IInv, Filled, Held, Place
  <1> QED
    BY <1>1, <1>2, <1>3, Moves

\* Each step that ends what a sleeper waits for wakes the sleepers or stays at work.
LEMMA SleepingKept ==
  ASSUME IInv, [Next]_vars
  PROVE  Sleeping'
  <1>1. ASSUME NEW p \in Proc, CallWrite(p) PROVE Sleeping'
    BY <1>1 DEF CallWrite, Goto, IInv, Types, Calls, Locked, Inside, Closing, Referring, ReadEnd,
                WriteEnd, Reading, Writing, Sleeping, Full, Empty, pipe, files
  <1>2. ASSUME NEW p \in Proc, WriteGivesUp(p) PROVE Sleeping'
    BY <1>2 DEF WriteGivesUp, Returns, IInv, Types, Calls, Locked, Inside, Closing, Referring, ReadEnd,
                WriteEnd, Reading, Writing, Sleeping, Full, Empty, Mine, pipe, files
  <1>3. ASSUME NEW p \in Proc, WriteGoesOn(p) PROVE Sleeping'
    BY <1>3 DEF WriteGoesOn, Goto, IInv, Types, Calls, Locked, Inside, Closing, Referring, ReadEnd,
                WriteEnd, Reading, Writing, Sleeping, Full, Empty, Mine, pipe, files
  <1>4. ASSUME NEW p \in Proc, WriteSleep(p) PROVE Sleeping'
    BY <1>4 DEF WriteSleep, Woken, IInv, Types, Calls, Locked, Inside, Closing, Referring, ReadEnd,
                WriteEnd, Reading, Writing, Sleeping, Full, Empty, Mine, pipe, files
  <1>5. ASSUME NEW p \in Proc, WriteResumes(p) PROVE Sleeping'
    BY <1>5 DEF WriteResumes, Goto, IInv, Types, Calls, Locked, Inside, Closing, Referring, ReadEnd,
                WriteEnd, Reading, Writing, Sleeping, Full, Empty, pipe, files
  <1>6. ASSUME NEW p \in Proc, WriteByte(p) PROVE Sleeping'
    BY <1>6 DEF WriteByte, Goto, IInv, Types, Calls, Locked, Inside, Closing, Referring, ReadEnd,
                WriteEnd, Reading, Writing, Sleeping, Full, Empty, Mine, files
  <1>7. ASSUME NEW p \in Proc, WriteReturns(p) PROVE Sleeping'
    BY <1>7 DEF WriteReturns, Returns, Woken, IInv, Types, Calls, Locked, Inside, Closing, Referring,
                ReadEnd, WriteEnd, Reading, Writing, Sleeping, Full, Empty, Mine, pipe, files
  <1>8. ASSUME NEW p \in Proc, CallRead(p) PROVE Sleeping'
    BY <1>8 DEF CallRead, Goto, IInv, Types, Calls, Locked, Inside, Closing, Referring, ReadEnd,
                WriteEnd, Reading, Writing, Sleeping, Full, Empty, pipe, files
  <1>9. ASSUME NEW p \in Proc, ReadGivesUp(p) PROVE Sleeping'
    BY <1>9 DEF ReadGivesUp, Returns, IInv, Types, Calls, Locked, Inside, Closing, Referring, ReadEnd,
                WriteEnd, Reading, Writing, Sleeping, Full, Empty, Mine, MustWait, pipe, files
  <1>10. ASSUME NEW p \in Proc, ReadWaits(p) PROVE Sleeping'
    BY <1>10 DEF ReadWaits, Goto, IInv, Types, Calls, Locked, Inside, Closing, Referring, ReadEnd,
                 WriteEnd, Reading, Writing, Sleeping, Full, Empty, Mine, MustWait, pipe, files
  <1>11. ASSUME NEW p \in Proc, ReadSleep(p) PROVE Sleeping'
    BY <1>11 DEF ReadSleep, Goto, IInv, Types, Calls, Locked, Inside, Closing, Referring, ReadEnd,
                 WriteEnd, Reading, Writing, Sleeping, Full, Empty, Mine, pipe, files
  <1>12. ASSUME NEW p \in Proc, ReadResumes(p) PROVE Sleeping'
    BY <1>12 DEF ReadResumes, Goto, IInv, Types, Calls, Locked, Inside, Closing, Referring, ReadEnd,
                 WriteEnd, Reading, Writing, Sleeping, Full, Empty, pipe, files
  <1>13. ASSUME NEW p \in Proc, ReadByte(p) PROVE Sleeping'
    <2>1. lock = p /\ \/ pc' = [pc EXCEPT ![p] = "copy"]
                      \/ pc' = [pc EXCEPT ![p] = "copied"]
      BY <1>13 DEF ReadByte, Goto, Mine
    <2>2. pc'[p] \in {"copy", "copied"} /\ readopen' = readopen /\ killed' = killed /\ writeopen' = writeopen
      BY <1>13, <2>1 DEF ReadByte, IInv, Types, Calls
    <2>3. ASSUME killed \cap Writers = {}, NEW q \in Proc, pc'[q] = "rsleep" PROVE FALSE
      <3>1. pc[q] = "rsleep" /\ ~Empty /\ pc[p] \in {"read", "copy"}
        BY <1>13, <2>1, <2>3 DEF ReadByte, MayCopy, IInv, Types, Calls
      <3>2. \E w \in Proc : pc[w] \in {"write", "put"}
        BY <2>3, <3>1 DEF IInv, Sleeping
      <3> QED
        BY <2>1, <3>1, <3>2 DEF IInv, Locked, Inside
    <2> QED
      BY <2>2, <2>3 DEF Sleeping
  <1>14. ASSUME NEW p \in Proc, ReadReturns(p) PROVE Sleeping'
    BY <1>14 DEF ReadReturns, Returns, Woken, MayCopy, IInv, Types, Calls, Locked, Inside, Closing,
                 Referring, ReadEnd, WriteEnd, Reading, Writing, Sleeping, Full, Empty, Mine, MustWait,
                 pipe, files
  <1>15. ASSUME NEW p \in Proc, CloseRead(p) PROVE Sleeping'
    BY <1>15 DEF CloseRead, Goto, IInv, Types, Calls, Locked, Inside, Closing, Referring, ReadEnd,
                 WriteEnd, Reading, Writing, Sleeping, Full, Empty, pipe
  <1>16. ASSUME NEW p \in Proc, CloseWrite(p) PROVE Sleeping'
    BY <1>16 DEF CloseWrite, Goto, IInv, Types, Calls, Locked, Inside, Closing, Referring, ReadEnd,
                 WriteEnd, Reading, Writing, Sleeping, Full, Empty, pipe
  <1>17. ASSUME NEW p \in Proc, PipeCloseRead(p) PROVE Sleeping'
    BY <1>17 DEF PipeCloseRead, Woken, BothClosed, IInv, Types, Calls, Locked, Inside, Closing,
                 Referring, ReadEnd, WriteEnd, Reading, Writing, Sleeping, Full, Empty, files
  <1>18. ASSUME NEW p \in Proc, PipeCloseWrite(p) PROVE Sleeping'
    BY <1>18 DEF PipeCloseWrite, Woken, BothClosed, IInv, Types, Calls, Locked, Inside, Closing,
                 Referring, ReadEnd, WriteEnd, Reading, Writing, Sleeping, Full, Empty, files
  <1>19. ASSUME NEW p \in Proc, Kill(p) PROVE Sleeping'
    BY <1>19 DEF Kill, Goto, IInv, Types, Calls, Locked, Inside, Closing, Referring, ReadEnd, WriteEnd,
                 Reading, Writing, Sleeping, Full, Empty, pipe, files
  <1>20. ASSUME UNCHANGED vars PROVE Sleeping'
    BY <1>20 DEF vars, IInv, Types, Calls, Locked, Inside, Closing, Referring, ReadEnd, WriteEnd,
                 Reading, Writing, Sleeping, Full, Empty, Mine, MustWait, pipe, files
  <1> QED
    BY <1>1, <1>2, <1>3, <1>4, <1>5, <1>6, <1>7, <1>8, <1>9, <1>10,
       <1>11, <1>12, <1>13, <1>14, <1>15, <1>16, <1>17, <1>18, <1>19, <1>20
    DEF Next, PipeWrite, PipeRead, PipeClose

\* The fields of the pipe keep their types, ...
LEMMA BytesKept ==
  ASSUME IInv, [Next]_vars
  PROVE  Bytes'
  <1>1. ASSUME NEW p \in Proc, WriteByte(p) PROVE Bytes'
    <2>1. nread' = nread /\ nwrite' \in 0 .. UintMod - 1
          /\ data' \in [0 .. PIPESIZE - 1 -> 0 .. MaxBytes] /\ written + 1 \in 1 .. MaxBytes
      BY <1>1, PutIs
    <2>2. written' = written + 1
      BY <1>1 DEF WriteByte
    <2> QED
      BY <2>1, <2>2 DEF IInv, Types, Bytes
  <1>2. ASSUME NEW p \in Proc, ReadByte(p) PROVE Bytes'
    <2>1. nread' \in 0 .. UintMod - 1 /\ nwrite' = nwrite /\ data' = data
      BY <1>2, GetIs
    <2>2. written' = written
      BY <1>2 DEF ReadByte
    <2> QED
      BY <2>1, <2>2 DEF IInv, Types, Bytes
  <1>3. ASSUME UNCHANGED <<data, nread, nwrite, written>> PROVE Bytes'
    BY <1>3 DEF IInv, Types, Bytes
  <1> QED
    BY <1>1, <1>2, <1>3, Moves

\* ... the calls their places, counts and indices, ...
LEMMA CallsKept ==
  ASSUME IInv, [Next]_vars
  PROVE  Calls'
  <1>1. ASSUME NEW p \in Proc, CallWrite(p) PROVE Calls'
    BY <1>1, PipeAssumption DEF CallWrite, Goto, IInv, Types, Calls, Reading, Writing, PipeAssumption,
                                pipe, files
  <1>2. ASSUME NEW p \in Proc, WriteGivesUp(p) PROVE Calls'
    BY <1>2, PipeAssumption DEF WriteGivesUp, Returns, IInv, Types, Calls, Reading, Writing,
                                PipeAssumption, pipe, files
  <1>3. ASSUME NEW p \in Proc, WriteGoesOn(p) PROVE Calls'
    BY <1>3, PipeAssumption DEF WriteGoesOn, Goto, IInv, Types, Calls, Reading, Writing, PipeAssumption,
                                pipe, files
  <1>4. ASSUME NEW p \in Proc, WriteSleep(p) PROVE Calls'
    BY <1>4, PipeAssumption DEF WriteSleep, Woken, IInv, Types, Calls, Reading, Writing, PipeAssumption,
                                pipe, files
  <1>5. ASSUME NEW p \in Proc, WriteResumes(p) PROVE Calls'
    BY <1>5, PipeAssumption DEF WriteResumes, Goto, IInv, Types, Calls, Reading, Writing,
                                PipeAssumption, pipe, files
  <1>6. ASSUME NEW p \in Proc, WriteByte(p) PROVE Calls'
    <2>1. pc' = [pc EXCEPT ![p] = "write"] /\ i' = [i EXCEPT ![p] = @ + 1] /\ n' = n
      BY <1>6 DEF WriteByte, Goto
    <2>2. i[p] < n[p]
      BY <1>6 DEF WriteByte, IInv, Locked
    <2> QED
      BY <2>1, <2>2 DEF IInv, Types, Calls, Reading, Writing
  <1>7. ASSUME NEW p \in Proc, WriteReturns(p) PROVE Calls'
    BY <1>7, PipeAssumption DEF WriteReturns, Returns, Woken, IInv, Types, Calls, Reading, Writing,
                                PipeAssumption, pipe, files
  <1>8. ASSUME NEW p \in Proc, CallRead(p) PROVE Calls'
    BY <1>8, PipeAssumption DEF CallRead, Goto, IInv, Types, Calls, Reading, Writing, PipeAssumption,
                                pipe, files
  <1>9. ASSUME NEW p \in Proc, ReadGivesUp(p) PROVE Calls'
    BY <1>9, PipeAssumption DEF ReadGivesUp, Returns, IInv, Types, Calls, Reading, Writing,
                                PipeAssumption, pipe, files
  <1>10. ASSUME NEW p \in Proc, ReadWaits(p) PROVE Calls'
    BY <1>10, PipeAssumption DEF ReadWaits, Goto, IInv, Types, Calls, Reading, Writing, PipeAssumption,
                                 pipe, files
  <1>11. ASSUME NEW p \in Proc, ReadSleep(p) PROVE Calls'
    BY <1>11, PipeAssumption DEF ReadSleep, Goto, IInv, Types, Calls, Reading, Writing, PipeAssumption,
                                 pipe, files
  <1>12. ASSUME NEW p \in Proc, ReadResumes(p) PROVE Calls'
    BY <1>12, PipeAssumption DEF ReadResumes, Goto, IInv, Types, Calls, Reading, Writing,
                                 PipeAssumption, pipe, files
  <1>13. ASSUME NEW p \in Proc, ReadByte(p) PROVE Calls'
    <2>1. /\ i[p] < n[p] /\ n' = n
          /\ pc' = [pc EXCEPT ![p] = "copy"] \/ pc' = [pc EXCEPT ![p] = "copied"]
          /\ i' = i \/ i' = [i EXCEPT ![p] = @ + 1]
      BY <1>13 DEF ReadByte, Goto
    <2> QED
      BY <2>1 DEF IInv, Types, Calls, Reading, Writing
  <1>14. ASSUME NEW p \in Proc, ReadReturns(p) PROVE Calls'
    BY <1>14, PipeAssumption DEF ReadReturns, Returns, Woken, MayCopy, IInv, Types, Calls, Reading,
                                 Writing, PipeAssumption, pipe, files
  <1>15. ASSUME NEW p \in Proc, CloseRead(p) PROVE Calls'
    BY <1>15, PipeAssumption DEF CloseRead, Goto, IInv, Types, Calls, Reading, Writing, PipeAssumption,
                                 pipe
  <1>16. ASSUME NEW p \in Proc, CloseWrite(p) PROVE Calls'
    BY <1>16, PipeAssumption DEF CloseWrite, Goto, IInv, Types, Calls, Reading, Writing, PipeAssumption,
                                 pipe
  <1>17. ASSUME NEW p \in Proc, PipeCloseRead(p) PROVE Calls'
    BY <1>17, PipeAssumption DEF PipeCloseRead, Woken, BothClosed, IInv, Types, Calls, Reading, Writing,
                                 PipeAssumption, files
  <1>18. ASSUME NEW p \in Proc, PipeCloseWrite(p) PROVE Calls'
    BY <1>18, PipeAssumption DEF PipeCloseWrite, Woken, BothClosed, IInv, Types, Calls, Reading,
                                 Writing, PipeAssumption, files
  <1>19. ASSUME NEW p \in Proc, Kill(p) PROVE Calls'
    BY <1>19, PipeAssumption DEF Kill, Goto, IInv, Types, Calls, Reading, Writing, PipeAssumption, pipe,
                                 files
  <1>20. ASSUME UNCHANGED vars PROVE Calls'
    BY <1>20, PipeAssumption DEF vars, IInv, Types, Calls, Reading, Writing, PipeAssumption, pipe, files
  <1> QED
    BY <1>1, <1>2, <1>3, <1>4, <1>5, <1>6, <1>7, <1>8, <1>9, <1>10,
       <1>11, <1>12, <1>13, <1>14, <1>15, <1>16, <1>17, <1>18, <1>19, <1>20
    DEF Next, PipeWrite, PipeRead, PipeClose

\* ... the ends and the lock theirs, ...
LEMMA EndsKept ==
  ASSUME IInv, [Next]_vars
  PROVE  Ends'
  <1>1. ASSUME NEW p \in Proc, CallWrite(p) PROVE Ends'
    BY <1>1, PipeAssumption DEF CallWrite, Goto, IInv, Types, Ends, PipeAssumption, pipe, files
  <1>2. ASSUME NEW p \in Proc, WriteGivesUp(p) PROVE Ends'
    BY <1>2, PipeAssumption DEF WriteGivesUp, Returns, IInv, Types, Ends, PipeAssumption, pipe, files
  <1>3. ASSUME NEW p \in Proc, WriteGoesOn(p) PROVE Ends'
    BY <1>3, PipeAssumption DEF WriteGoesOn, Goto, IInv, Types, Ends, PipeAssumption, pipe, files
  <1>4. ASSUME NEW p \in Proc, WriteSleep(p) PROVE Ends'
    BY <1>4, PipeAssumption DEF WriteSleep, Woken, IInv, Types, Ends, PipeAssumption, pipe, files
  <1>5. ASSUME NEW p \in Proc, WriteResumes(p) PROVE Ends'
    BY <1>5, PipeAssumption DEF WriteResumes, Goto, IInv, Types, Ends, PipeAssumption, pipe, files
  <1>6. ASSUME NEW p \in Proc, WriteByte(p) PROVE Ends'
    BY <1>6, PipeAssumption DEF WriteByte, Goto, IInv, Types, Ends, PipeAssumption, files
  <1>7. ASSUME NEW p \in Proc, WriteReturns(p) PROVE Ends'
    BY <1>7, PipeAssumption DEF WriteReturns, Returns, Woken, IInv, Types, Ends, PipeAssumption, pipe,
                                files
  <1>8. ASSUME NEW p \in Proc, CallRead(p) PROVE Ends'
    BY <1>8, PipeAssumption DEF CallRead, Goto, IInv, Types, Ends, PipeAssumption, pipe, files
  <1>9. ASSUME NEW p \in Proc, ReadGivesUp(p) PROVE Ends'
    BY <1>9, PipeAssumption DEF ReadGivesUp, Returns, IInv, Types, Ends, PipeAssumption, pipe, files
  <1>10. ASSUME NEW p \in Proc, ReadWaits(p) PROVE Ends'
    BY <1>10, PipeAssumption DEF ReadWaits, Goto, IInv, Types, Ends, PipeAssumption, pipe, files
  <1>11. ASSUME NEW p \in Proc, ReadSleep(p) PROVE Ends'
    BY <1>11, PipeAssumption DEF ReadSleep, Goto, IInv, Types, Ends, PipeAssumption, pipe, files
  <1>12. ASSUME NEW p \in Proc, ReadResumes(p) PROVE Ends'
    BY <1>12, PipeAssumption DEF ReadResumes, Goto, IInv, Types, Ends, PipeAssumption, pipe, files
  <1>13. ASSUME NEW p \in Proc, ReadByte(p) PROVE Ends'
    BY <1>13, PipeAssumption DEF ReadByte, Goto, MayCopy, IInv, Types, Ends, PipeAssumption, files
  <1>14. ASSUME NEW p \in Proc, ReadReturns(p) PROVE Ends'
    BY <1>14, PipeAssumption DEF ReadReturns, Returns, Woken, MayCopy, IInv, Types, Ends,
                                 PipeAssumption, pipe, files
  <1>15. ASSUME NEW p \in Proc, CloseRead(p) PROVE Ends'
    BY <1>15, PipeAssumption DEF CloseRead, Goto, IInv, Types, Ends, PipeAssumption, pipe
  <1>16. ASSUME NEW p \in Proc, CloseWrite(p) PROVE Ends'
    BY <1>16, PipeAssumption DEF CloseWrite, Goto, IInv, Types, Ends, PipeAssumption, pipe
  <1>17. ASSUME NEW p \in Proc, PipeCloseRead(p) PROVE Ends'
    BY <1>17, PipeAssumption DEF PipeCloseRead, Woken, BothClosed, IInv, Types, Ends, PipeAssumption,
                                 files
  <1>18. ASSUME NEW p \in Proc, PipeCloseWrite(p) PROVE Ends'
    BY <1>18, PipeAssumption DEF PipeCloseWrite, Woken, BothClosed, IInv, Types, Ends, PipeAssumption,
                                 files
  <1>19. ASSUME NEW p \in Proc, Kill(p) PROVE Ends'
    BY <1>19, PipeAssumption DEF Kill, Goto, IInv, Types, Ends, PipeAssumption, pipe, files
  <1>20. ASSUME UNCHANGED vars PROVE Ends'
    BY <1>20, PipeAssumption DEF vars, IInv, Types, Ends, PipeAssumption, pipe, files
  <1> QED
    BY <1>1, <1>2, <1>3, <1>4, <1>5, <1>6, <1>7, <1>8, <1>9, <1>10,
       <1>11, <1>12, <1>13, <1>14, <1>15, <1>16, <1>17, <1>18, <1>19, <1>20
    DEF Next, PipeWrite, PipeRead, PipeClose

\* ... and so do the users' buffers.
LEMMA GotKept ==
  ASSUME IInv, [Next]_vars
  PROVE  Got'
  <1>1. ASSUME NEW p \in Proc, CallWrite(p) PROVE Got'
    BY <1>1 DEF CallWrite, Goto, IInv, Types, Got, pipe, files
  <1>2. ASSUME NEW p \in Proc, WriteGivesUp(p) PROVE Got'
    BY <1>2 DEF WriteGivesUp, Returns, IInv, Types, Got, pipe, files
  <1>3. ASSUME NEW p \in Proc, WriteGoesOn(p) PROVE Got'
    BY <1>3 DEF WriteGoesOn, Goto, IInv, Types, Got, pipe, files
  <1>4. ASSUME NEW p \in Proc, WriteSleep(p) PROVE Got'
    BY <1>4 DEF WriteSleep, Woken, IInv, Types, Got, pipe, files
  <1>5. ASSUME NEW p \in Proc, WriteResumes(p) PROVE Got'
    BY <1>5 DEF WriteResumes, Goto, IInv, Types, Got, pipe, files
  <1>6. ASSUME NEW p \in Proc, WriteByte(p) PROVE Got'
    BY <1>6 DEF WriteByte, Goto, IInv, Types, Got, files
  <1>7. ASSUME NEW p \in Proc, WriteReturns(p) PROVE Got'
    BY <1>7 DEF WriteReturns, Returns, Woken, IInv, Types, Got, pipe, files
  <1>8. ASSUME NEW p \in Proc, CallRead(p) PROVE Got'
    BY <1>8 DEF CallRead, Goto, IInv, Types, Got, pipe, files
  <1>9. ASSUME NEW p \in Proc, ReadGivesUp(p) PROVE Got'
    BY <1>9 DEF ReadGivesUp, Returns, IInv, Types, Got, pipe, files
  <1>10. ASSUME NEW p \in Proc, ReadWaits(p) PROVE Got'
    BY <1>10 DEF ReadWaits, Goto, IInv, Types, Got, pipe, files
  <1>11. ASSUME NEW p \in Proc, ReadSleep(p) PROVE Got'
    BY <1>11 DEF ReadSleep, Goto, IInv, Types, Got, pipe, files
  <1>12. ASSUME NEW p \in Proc, ReadResumes(p) PROVE Got'
    BY <1>12 DEF ReadResumes, Goto, IInv, Types, Got, pipe, files
  <1>13. ASSUME NEW p \in Proc, ReadByte(p) PROVE Got'
    <2>1. ubuf' = ubuf \/ ubuf' = [ubuf EXCEPT ![p] = Append(@, data[nread % PIPESIZE])]
      BY <1>13 DEF ReadByte
    <2>2. data[nread % PIPESIZE] \in 1 .. MaxBytes
      BY <1>13, GetIs DEF Place
    <2>3. /\ data[nread % PIPESIZE] \in 1 .. MaxBytes /\ ubuf[p] \in Seq(1 .. MaxBytes)
          => Append(ubuf[p], data[nread % PIPESIZE]) \in Seq(1 .. MaxBytes)
      OBVIOUS
    <2> QED
      BY <2>1, <2>2, <2>3 DEF IInv, Types, Got
  <1>14. ASSUME NEW p \in Proc, ReadReturns(p) PROVE Got'
    BY <1>14 DEF ReadReturns, Returns, Woken, MayCopy, IInv, Types, Got, pipe, files
  <1>15. ASSUME NEW p \in Proc, CloseRead(p) PROVE Got'
    BY <1>15 DEF CloseRead, Goto, IInv, Types, Got, pipe
  <1>16. ASSUME NEW p \in Proc, CloseWrite(p) PROVE Got'
    BY <1>16 DEF CloseWrite, Goto, IInv, Types, Got, pipe
  <1>17. ASSUME NEW p \in Proc, PipeCloseRead(p) PROVE Got'
    BY <1>17 DEF PipeCloseRead, Woken, BothClosed, IInv, Types, Got, files
  <1>18. ASSUME NEW p \in Proc, PipeCloseWrite(p) PROVE Got'
    BY <1>18 DEF PipeCloseWrite, Woken, BothClosed, IInv, Types, Got, files
  <1>19. ASSUME NEW p \in Proc, Kill(p) PROVE Got'
    BY <1>19 DEF Kill, Goto, IInv, Types, Got, pipe, files
  <1>20. ASSUME UNCHANGED vars PROVE Got'
    BY <1>20 DEF vars, IInv, Types, Got, pipe, files
  <1> QED
    BY <1>1, <1>2, <1>3, <1>4, <1>5, <1>6, <1>7, <1>8, <1>9, <1>10,
       <1>11, <1>12, <1>13, <1>14, <1>15, <1>16, <1>17, <1>18, <1>19, <1>20
    DEF Next, PipeWrite, PipeRead, PipeClose

\* It is kept.
LEMMA IInvKept ==
  ASSUME IInv, [Next]_vars
  PROVE  IInv'
  <1>1. Types'
    BY BytesKept, CallsKept, EndsKept, GotKept DEF Types
  <1>2. Closing'
    BY ReferringKept, ReadEndKept, WriteEndKept, FreedKept DEF Closing
  <1> QED
    BY <1>1, <1>2, LockedKept, FilledKept, SleepingKept DEF IInv

\* It always holds.
LEMMA Always == Spec => []IInv
  BY Initially, IInvKept, PTL DEF Spec

\* The pipe is freed once, when no call is in it and no file refers to it.
THEOREM FreedIsSafe == Spec => []FreedIsUnused
  <1>1. IInv => FreedIsUnused
    <2> SUFFICES ASSUME IInv PROVE FreedIsUnused
      OBVIOUS
    <2>1. TypeOK
      <3>1. \A p \in Proc : i[p] \in 0 .. n[p] /\ ubuf[p] \in Seq(1 .. MaxBytes)
        BY DEF IInv, Types, Calls, Got
      <3>2. freed \in 0 .. 1
        BY DEF IInv, Closing
      <3> QED
        BY <3>1, <3>2 DEF IInv, Types, Bytes, Ends, TypeOK
    <2>2. ASSUME freed > 0
          PROVE  freed = 1 /\ rfile = {} /\ wfile = {} /\ lock = None /\ \A p \in Proc : pc[p] = "user"
      <3>1. freed = 1 /\ ~readopen /\ ~writeopen
        BY <2>2 DEF IInv, Closing
      <3>2. rfile = {} /\ wfile = {}
        BY <3>1 DEF IInv, Closing, ReadEnd, WriteEnd
      <3>3. \A p \in Proc : pc[p] = "user"
        BY <3>1, <3>2 DEF IInv, Types, Calls, Closing, Referring, ReadEnd, WriteEnd
      <3>4. lock = None
        BY <3>3 DEF IInv, Types, Ends, Locked, Inside
      <3> QED
        BY <3>1, <3>2, <3>3, <3>4
    <2> QED
      BY <2>1, <2>2 DEF FreedIsUnused
  <1> QED
    BY <1>1, Always, PTL

\* Nobody sleeps on the pipe who has nothing to wait for.
THEOREM SleepersAreRight == Spec => []SleepersHaveReason
  <1>1. IInv => SleepersHaveReason
    <2> SUFFICES ASSUME IInv PROVE SleepersHaveReason
      OBVIOUS
    <2>1. lock = None => \A p \in Proc : pc[p] \notin Inside
      BY PipeAssumption DEF PipeAssumption, IInv, Locked
    <2> QED
      BY <2>1 DEF IInv, Sleeping, Inside, SleepersHaveReason, ReaderSleepsOnEmpty
  <1> QED
    BY <1>1, Always, PTL
-----------------------------------------------------------------------------
(* The pipe is a stream *)

\* The bytes in the pipe, as a sequence.
Carried ==
  /\ InPipe \in Seq(1 .. MaxBytes) /\ Len(InPipe) = Held /\ Held \in Nat
  /\ \A k \in 1 .. Held : InPipe[k] = data[Place(k - 1)]

\* The bytes of the pipe, from the place of the next to be read.
LEMMA CarriedIs == IInv => Carried
  <1> SUFFICES ASSUME IInv PROVE Carried
    OBVIOUS
  <1>1. Held \in Nat /\ nread \in Int
    <2>1. Types /\ Filled /\ nread \in Int
      BY DEF IInv, Types, Bytes
    <2> QED
      BY <2>1, HeldIs, Sizes
  <1>2. \A k \in 1 .. Held : data[(nread + k - 1) % PIPESIZE] = data[Place(k - 1)]
    <2>1. \A k \in 1 .. Held : nread + k - 1 = nread + (k - 1)
      BY <1>1
    <2> QED
      BY <2>1 DEF Place
  <1>3. \A k \in 1 .. Held : data[Place(k - 1)] \in 1 .. MaxBytes
    <2>1. \A k \in 1 .. Held : k - 1 \in 0 .. Held - 1
      BY <1>1
    <2> QED
      BY <2>1 DEF IInv, Filled
  <1>4. InPipe \in [1 .. Held -> 1 .. MaxBytes]
    BY <1>2, <1>3 DEF InPipe
  <1>5. InPipe \in Seq(1 .. MaxBytes) /\ Len(InPipe) = Held
    <2>1. InPipe \in Seq(1 .. MaxBytes)
      BY <1>1, <1>4, SeqDef
    <2>2. Len(InPipe) \in Nat /\ 1 .. Len(InPipe) = 1 .. Held
      BY <1>4, <2>1, LenProperties
    <2> QED
      BY <1>1, <2>1, <2>2
  <1>6. \A k \in 1 .. Held : InPipe[k] = data[Place(k - 1)]
    BY <1>2 DEF InPipe
  <1> QED
    BY <1>1, <1>5, <1>6 DEF Carried

\* A sequence longer by one at its end, ...
LEMMA IsAppend ==
  ASSUME NEW S, NEW s \in Seq(S), NEW t \in Seq(S), NEW v \in S,
         Len(t) = Len(s) + 1, \A k \in 1 .. Len(s) : t[k] = s[k], t[Len(s) + 1] = v
  PROVE  t = Append(s, v)
  <1>1. Append(s, v) \in Seq(S) /\ Len(Append(s, v)) = Len(t)
    OBVIOUS
  <1>2. \A k \in 1 .. Len(t) : t[k] = Append(s, v)[k]
    OBVIOUS
  <1> QED
    BY <1>1, <1>2, SeqEqual

\* ... and one shorter by its head.
LEMMA IsTail ==
  ASSUME NEW S, NEW s \in Seq(S), NEW t \in Seq(S),
         Len(s) = Len(t) + 1, \A k \in 1 .. Len(t) : t[k] = s[k + 1]
  PROVE  s # <<>> /\ t = Tail(s)
  <1>1. s # <<>>
    OBVIOUS
  <1>2. Tail(s) \in Seq(S) /\ Len(Tail(s)) = Len(t)
    BY <1>1
  <1>3. \A k \in 1 .. Len(t) : t[k] = Tail(s)[k]
    BY <1>1
  <1> QED
    BY <1>1, <1>2, <1>3, SeqEqual

\* A byte put into the buffer is appended to the stream.
LEMMA WriteIsWrite ==
  ASSUME IInv, IInv', NEW p \in Proc, WriteByte(p)
  PROVE  Stream!Write(written + 1) /\ written + 1 \in 1 .. MaxBytes
  <1>1. Carried /\ Carried'
    BY CarriedIs, PTL
  <1>2. /\ Held' = Held + 1 /\ Held < PIPESIZE /\ nread' = nread /\ written + 1 \in 1 .. MaxBytes
        /\ data'[Place(Held)] = written + 1
        /\ \A k \in 0 .. Held - 1 : data'[Place(k)] = data[Place(k)]
    BY PutIs
  <1>3. \A k \in Int : Place(k)' = Place(k)
    BY <1>2 DEF Place
  <1>4. \A k \in 1 .. Held : InPipe'[k] = InPipe[k]
    <2> TAKE k \in 1 .. Held
    <2>1. k - 1 \in 0 .. Held - 1 /\ k \in 1 .. Held' /\ k - 1 \in Int
      BY <1>1, <1>2 DEF Carried
    <2> QED
      BY <2>1, <1>1, <1>2, <1>3 DEF Carried
  <1>5. InPipe'[Held + 1] = written + 1
    <2>1. Held + 1 \in 1 .. Held' /\ (Held + 1) - 1 = Held /\ Held \in Int
      BY <1>1, <1>2 DEF Carried
    <2> QED
      BY <2>1, <1>1, <1>2, <1>3 DEF Carried
  <1>6. InPipe' = Append(InPipe, written + 1)
    BY <1>1, <1>2, <1>4, <1>5, IsAppend DEF Carried
  <1>7. ubuf' = ubuf
    BY DEF WriteByte
  <1> QED
    BY <1>1, <1>2, <1>6, <1>7 DEF Carried, Stream!Write

\* A byte taken out of it is the head of the stream.
LEMMA ReadIsRead ==
  ASSUME IInv, IInv', NEW p \in Proc, ReadByte(p)
  PROVE  Stream!Read(p) \/ Stream!Lose
  <1>1. Carried /\ Carried'
    BY CarriedIs, PTL
  <1>2. /\ Held > 0 /\ Held' = Held - 1 /\ data' = data
        /\ nread % PIPESIZE = Place(0)
        /\ \A k \in Int : Place(k)' = Place(k + 1)
    BY GetIs
  <1>3. \A k \in 1 .. Held' : InPipe'[k] = InPipe[k + 1]
    <2> TAKE k \in 1 .. Held'
    <2>1. k - 1 \in Int /\ k + 1 \in 1 .. Held /\ (k + 1) - 1 = (k - 1) + 1
      BY <1>1, <1>2 DEF Carried
    <2>2. InPipe'[k] = data'[Place(k - 1)'] /\ InPipe[k + 1] = data[Place((k + 1) - 1)]
      BY <2>1, <1>1 DEF Carried
    <2> QED
      BY <2>1, <2>2, <1>2
  <1>4. InPipe # <<>> /\ InPipe' = Tail(InPipe)
    <2>1. InPipe \in Seq(1 .. MaxBytes) /\ InPipe' \in Seq(1 .. MaxBytes)
      BY <1>1 DEF Carried
    <2>2. Len(InPipe') = Held' /\ Len(InPipe) = Len(InPipe') + 1
      BY <1>1, <1>2 DEF Carried
    <2>3. \A k \in 1 .. Len(InPipe') : InPipe'[k] = InPipe[k + 1]
      BY <1>3, <2>2
    <2> QED
      BY <2>1, <2>2, <2>3, IsTail
  <1>5. Head(InPipe) = data[nread % PIPESIZE]
    <2>1. 1 \in 1 .. Held /\ 1 - 1 = 0
      BY <1>1, <1>2 DEF Carried
    <2>2. InPipe[1] = data[Place(0)]
      BY <2>1, <1>1 DEF Carried
    <2> QED
      BY <2>2, <1>1, <1>2, <1>4 DEF Carried
  <1> QED
    BY <1>4, <1>5 DEF ReadByte, Stream!Read, Stream!Lose

\* No other step changes the stream or what readers have got.
LEMMA OthersStutter ==
  ASSUME [Next]_vars
  PROVE  \/ \E p \in Proc : WriteByte(p) \/ ReadByte(p) \/ CallRead(p)
         \/ UNCHANGED <<InPipe, ubuf>>
  BY DEF Next, PipeWrite, PipeRead, PipeClose, CallWrite, WriteGivesUp, WriteGoesOn, WriteSleep,
         WriteResumes,
         WriteReturns, ReadGivesUp, ReadWaits, ReadSleep, ReadResumes, ReadReturns,
         CloseRead, CloseWrite, PipeCloseRead, PipeCloseWrite, Kill, Returns, vars, pipe, InPipe, Held

\* What writers put into a pipe is what its readers get, in order, each byte once,
\* whatever the counters have wrapped to.
THEOREM PipeIsStream == Spec => ImplementsByteStream
  <1>1. Init => Stream!Init
    <2> SUFFICES ASSUME Init PROVE InPipe = <<>> /\ ubuf = [p \in Proc |-> <<>>]
      BY DEF Stream!Init
    <2>1. Carried /\ nread = 0 /\ nwrite = 0
      BY Initially, CarriedIs DEF Init
    <2>2. Held = 0
      BY <2>1, Sizes DEF Held
    <2>3. InPipe = <<>>
      BY <2>1, <2>2 DEF Carried
    <2> QED
      BY <2>3 DEF Init
  <1>2. IInv /\ IInv' /\ [Next]_vars => [Stream!Next]_(Stream!vars)
    <2> SUFFICES ASSUME IInv, IInv', [Next]_vars PROVE [Stream!Next]_(Stream!vars)
      OBVIOUS
    <2>1. ASSUME NEW p \in Proc, WriteByte(p) PROVE Stream!Next
      BY <2>1, WriteIsWrite DEF Stream!Next
    <2>2. ASSUME NEW p \in Proc, ReadByte(p) PROVE Stream!Next
      BY <2>2, ReadIsRead DEF Stream!Next
    <2>3. ASSUME NEW p \in Proc, CallRead(p) PROVE Stream!Next
      <3>1. Stream!StartRead(p)
        BY <2>3 DEF CallRead, Stream!StartRead, InPipe, Held, pipe
      <3> QED
        BY <3>1 DEF Stream!Next
    <2>4. ASSUME UNCHANGED <<InPipe, ubuf>> PROVE UNCHANGED Stream!vars
      BY <2>4 DEF Stream!vars
    <2> QED
      BY <2>1, <2>2, <2>3, <2>4, OthersStutter
  <1> QED
    BY <1>1, <1>2, Always, PTL DEF Spec, ImplementsByteStream, Stream!Spec
=============================================================================
