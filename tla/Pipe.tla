--------------------------------- MODULE Pipe -------------------------------
(***************************************************************************)
(* One pipe of kernel/pipe.c, between processes that may have either end   *)
(* open, close it, and be killed.                                          *)
(*                                                                         *)
(* pi->lock is held across the steps of a call, because kill() can come in *)
(* between: a step is one turn of a loop, or a sleep.  The bytes written    *)
(* are numbered.                                                           *)
(***************************************************************************)
EXTENDS Integers, Sequences, FiniteSets

CONSTANTS Proc, None,
          Readers, Writers,   \* the processes that have the ends open at first
          PIPESIZE,
          UintMod,     \* nread and nwrite count modulo this: 2^32 in the code
          Counts,      \* the byte counts asked for in a call
          BadAddress,  \* whether user addresses may be bad
          MaxBytes,    \* bound: bytes written in a behaviour
          MaxKills     \* bound: processes killed in a behaviour

ASSUME PipeAssumption ==
  /\ None \notin Proc /\ Readers \in (SUBSET Proc) \ {{}} /\ Writers \in (SUBSET Proc) \ {{}}
  /\ PIPESIZE \in Nat \ {0} /\ UintMod \in Nat /\ UintMod > PIPESIZE /\ UintMod % PIPESIZE = 0
  /\ Counts \subseteq Nat /\ BadAddress \in BOOLEAN /\ MaxBytes \in Nat /\ MaxKills \in Nat

VARIABLES
  data, nread, nwrite, readopen, writeopen, lock,   \* struct pipe
  freed,          \* how often kfree(pi) was called
  rfile, wfile,   \* the processes that have the read and the write file open
  pc, n, i,       \* the call each process is in, its count and its index
  ubuf,           \* the user memory each process reads into
  killed, written

pipe  == <<data, nread, nwrite, readopen, writeopen, freed>>
files == <<rfile, wfile>>
vars  == <<pipe, lock, files, pc, n, i, ubuf, killed, written>>

Mine(p) == lock = p
Goto(p, at) == pc' = [pc EXCEPT ![p] = at]

\* wakeup(), for those asleep at one place, in the section p runs.
Woken(at) == [q \in Proc |-> IF pc[q] # at THEN pc[q]
                             ELSE IF at = "rsleep" THEN "rwoken" ELSE "wwoken"]

\* Back to user space, having woken those asleep at one place.
Returns(p, pcs) ==
  /\ pc' = [pcs EXCEPT ![p] = "user"]
  /\ n' = [n EXCEPT ![p] = 0] /\ i' = [i EXCEPT ![p] = 0]
  /\ lock' = None
  /\ UNCHANGED <<pipe, files, ubuf, killed, written>>

\* Mutant of Full: the sum is not an unsigned int's.
FullWide == nwrite = nread + PIPESIZE

Full  == nwrite = (nread + PIPESIZE) % UintMod
Empty == nread = nwrite
-----------------------------------------------------------------------------
(* pipewrite() *)

CallWrite(p) ==
  /\ pc[p] = "user" /\ p \in wfile /\ lock = None
  /\ lock' = p
  /\ \E c \in Counts : n' = [n EXCEPT ![p] = c]
  /\ i' = [i EXCEPT ![p] = 0]
  /\ Goto(p, "write")
  /\ UNCHANGED <<pipe, files, ubuf, killed, written>>

\* readopen == 0 || killed(pr): return -1.
WriteGivesUp(p) ==
  /\ Mine(p) /\ pc[p] = "write" /\ i[p] < n[p]
  /\ ~readopen \/ p \in killed
  /\ Returns(p, pc)

WriteGoesOn(p) ==
  /\ Mine(p) /\ pc[p] = "write" /\ i[p] < n[p]
  /\ readopen /\ p \notin killed
  /\ Goto(p, "put")
  /\ UNCHANGED <<pipe, lock, files, n, i, ubuf, killed, written>>

WriteSleep(p) ==
  /\ Mine(p) /\ pc[p] = "put" /\ Full
  /\ pc' = [Woken("rsleep") EXCEPT ![p] = "wsleep"]
  /\ lock' = None
  /\ UNCHANGED <<pipe, files, n, i, ubuf, killed, written>>

\* sleep() returns: pi->lock is taken again.
WriteResumes(p) ==
  /\ pc[p] = "wwoken" /\ lock = None
  /\ lock' = p
  /\ Goto(p, "write")
  /\ UNCHANGED <<pipe, files, n, i, ubuf, killed, written>>

WriteByte(p) ==
  /\ Mine(p) /\ pc[p] = "put" /\ ~Full /\ written < MaxBytes
  /\ written' = written + 1
  /\ data' = [data EXCEPT ![nwrite % PIPESIZE] = written + 1]
  /\ nwrite' = (nwrite + 1) % UintMod
  /\ i' = [i EXCEPT ![p] = @ + 1]
  /\ Goto(p, "write")
  /\ UNCHANGED <<nread, readopen, writeopen, freed, lock, files, n, ubuf, killed>>

\* All is written, or copyin() failed.
WriteReturns(p) ==
  /\ Mine(p)
  /\ \/ pc[p] = "write" /\ i[p] = n[p]
     \/ pc[p] = "put" /\ ~Full /\ BadAddress
  /\ Returns(p, Woken("rsleep"))
-----------------------------------------------------------------------------
(* piperead() *)

CallRead(p) ==
  /\ pc[p] = "user" /\ p \in rfile /\ lock = None
  /\ lock' = p
  /\ \E c \in Counts : n' = [n EXCEPT ![p] = c]
  /\ i' = [i EXCEPT ![p] = 0]
  /\ ubuf' = [ubuf EXCEPT ![p] = <<>>]
  /\ Goto(p, "read")
  /\ UNCHANGED <<pipe, files, killed, written>>

MustWait == Empty /\ writeopen

ReadGivesUp(p) ==
  /\ Mine(p) /\ pc[p] = "read" /\ MustWait /\ p \in killed
  /\ Returns(p, pc)

ReadWaits(p) ==
  /\ Mine(p) /\ pc[p] = "read" /\ MustWait /\ p \notin killed
  /\ Goto(p, "rwait")
  /\ UNCHANGED <<pipe, lock, files, n, i, ubuf, killed, written>>

ReadSleep(p) ==
  /\ Mine(p) /\ pc[p] = "rwait"
  /\ Goto(p, "rsleep")
  /\ lock' = None
  /\ UNCHANGED <<pipe, files, n, i, ubuf, killed, written>>

ReadResumes(p) ==
  /\ pc[p] = "rwoken" /\ lock = None
  /\ lock' = p
  /\ Goto(p, "read")
  /\ UNCHANGED <<pipe, files, n, i, ubuf, killed, written>>

MayCopy(p) ==
  \/ pc[p] = "read" /\ ~MustWait
  \/ pc[p] = "copy"

\* The byte has left the pipe when copyout() fails.
ReadByte(p) ==
  /\ Mine(p) /\ MayCopy(p) /\ i[p] < n[p] /\ ~Empty
  /\ nread' = (nread + 1) % UintMod
  /\ \/ /\ ubuf' = [ubuf EXCEPT ![p] = Append(@, data[nread % PIPESIZE])]
        /\ i' = [i EXCEPT ![p] = @ + 1]
        /\ Goto(p, "copy")
     \/ BadAddress /\ Goto(p, "copied") /\ UNCHANGED <<ubuf, i>>
  /\ UNCHANGED <<data, nwrite, readopen, writeopen, freed, lock, files, n, killed, written>>

\* Mutant of ReadReturns: the writers are not woken.
ReadReturnsQuietly(p) ==
  /\ Mine(p)
  /\ \/ MayCopy(p) /\ (i[p] = n[p] \/ Empty)
     \/ pc[p] = "copied"
  /\ Returns(p, pc)

ReadReturns(p) ==
  /\ Mine(p)
  /\ \/ MayCopy(p) /\ (i[p] = n[p] \/ Empty)
     \/ pc[p] = "copied"
  /\ Returns(p, Woken("wsleep"))
-----------------------------------------------------------------------------
(* fileclose(), pipeclose() and kill() *)

\* The count of the file is lowered under ftable.lock; the last one goes on.
CloseRead(p) ==
  /\ pc[p] = "user" /\ p \in rfile
  /\ rfile' = rfile \ {p}
  /\ Goto(p, IF rfile = {p} THEN "rclose" ELSE "user")
  /\ UNCHANGED <<pipe, lock, wfile, n, i, ubuf, killed, written>>

CloseWrite(p) ==
  /\ pc[p] = "user" /\ p \in wfile
  /\ wfile' = wfile \ {p}
  /\ Goto(p, IF wfile = {p} THEN "wclose" ELSE "user")
  /\ UNCHANGED <<pipe, lock, rfile, n, i, ubuf, killed, written>>

\* Mutant of BothClosed: either end is enough.
BothClosedEither(r, w) == ~r \/ ~w

BothClosed(r, w) == ~r /\ ~w

PipeCloseRead(p) ==
  /\ pc[p] = "rclose" /\ lock = None
  /\ readopen' = FALSE
  /\ pc' = [Woken("wsleep") EXCEPT ![p] = "user"]
  /\ freed' = IF BothClosed(readopen', writeopen) THEN freed + 1 ELSE freed
  /\ UNCHANGED <<data, nread, nwrite, writeopen, lock, files, n, i, ubuf, killed, written>>

PipeCloseWrite(p) ==
  /\ pc[p] = "wclose" /\ lock = None
  /\ writeopen' = FALSE
  /\ pc' = [Woken("rsleep") EXCEPT ![p] = "user"]
  /\ freed' = IF BothClosed(readopen, writeopen') THEN freed + 1 ELSE freed
  /\ UNCHANGED <<data, nread, nwrite, readopen, lock, files, n, i, ubuf, killed, written>>

\* kill(): killed is set whatever pi->lock says; a sleeper is made runnable.
Kill(p) ==
  /\ p \notin killed /\ Cardinality(killed) < MaxKills
  /\ killed' = killed \cup {p}
  /\ Goto(p, CASE pc[p] = "rsleep" -> "rwoken" [] pc[p] = "wsleep" -> "wwoken" [] OTHER -> pc[p])
  /\ UNCHANGED <<pipe, lock, files, n, i, ubuf, written>>
-----------------------------------------------------------------------------
\* pipealloc()
Init ==
  /\ data = [k \in 0 .. PIPESIZE - 1 |-> 0] /\ nread = 0 /\ nwrite = 0
  /\ readopen = TRUE /\ writeopen = TRUE /\ lock = None /\ freed = 0
  /\ rfile = Readers /\ wfile = Writers
  /\ pc = [p \in Proc |-> "user"] /\ n = [p \in Proc |-> 0] /\ i = n
  /\ ubuf = [p \in Proc |-> <<>>] /\ killed = {} /\ written = 0

PipeWrite(p) == \/ WriteGivesUp(p) \/ WriteGoesOn(p) \/ WriteSleep(p) \/ WriteResumes(p)
                \/ WriteByte(p) \/ WriteReturns(p)
PipeRead(p)  == \/ ReadGivesUp(p) \/ ReadWaits(p) \/ ReadSleep(p) \/ ReadResumes(p)
                \/ ReadByte(p) \/ ReadReturns(p)
PipeClose(p) == PipeCloseRead(p) \/ PipeCloseWrite(p)

Next ==
  \E p \in Proc :
    \/ CallWrite(p) \/ PipeWrite(p)
    \/ CallRead(p) \/ PipeRead(p)
    \/ CloseRead(p) \/ CloseWrite(p) \/ PipeClose(p)
    \/ Kill(p)

Spec == Init /\ [][Next]_vars

-----------------------------------------------------------------------------
TypeOK ==
  /\ data \in [0 .. PIPESIZE - 1 -> 0 .. MaxBytes] /\ nread \in 0 .. UintMod - 1 /\ nwrite \in 0 .. UintMod - 1
  /\ readopen \in BOOLEAN /\ writeopen \in BOOLEAN /\ lock \in Proc \cup {None} /\ freed \in 0 .. 1
  /\ rfile \in SUBSET Proc /\ wfile \in SUBSET Proc /\ killed \in SUBSET Proc
  /\ \A p \in Proc : i[p] \in 0 .. n[p] /\ ubuf[p] \in Seq(1 .. MaxBytes)

\* How many bytes are in the pipe, and which.
Held == (nwrite - nread) % UintMod
InPipe == [k \in 1 .. Held |-> data[(nread + k - 1) % PIPESIZE]]

Stream == INSTANCE ByteStream WITH
  Byte <- 1 .. MaxBytes, Capacity <- PIPESIZE, Lossy <- BadAddress, stream <- InPipe, received <- ubuf

\* The pipe is a bounded first-in first-out stream, also where the counters wrap.
ImplementsByteStream == Stream!Spec

\* A reader asleep has nothing to read and a writer to wait for, unless a call
\* that will wake it is still at work in the pipe (pipe.c "DOC: pipe-empty").
ReaderSleepsOnEmpty ==
  (\E p \in Proc : pc[p] = "rsleep") /\ lock = None => Empty /\ writeopen

\* A writer asleep has no room and a reader to wait for, and a reader asleep nothing
\* to read.  Nobody forgets a sleeping reader but a writer that gives up because it
\* was killed (pipe.c:84), a killed reader no more than one that returns.
SleepersHaveReason ==
  /\ (\E p \in Proc : pc[p] = "wsleep") /\ lock = None => Full /\ readopen
  /\ killed \cap Writers = {} => ReaderSleepsOnEmpty

\* The pipe is freed once, when nobody is in a call on it and no file refers to it;
\* until then its fields keep their ranges.
FreedIsUnused ==
  /\ TypeOK
  /\ freed > 0 => /\ freed = 1 /\ rfile = {} /\ wfile = {} /\ lock = None
                  /\ \A p \in Proc : pc[p] = "user"
=============================================================================
