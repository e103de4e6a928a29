------------------------------ MODULE ByteFile ------------------------------
(***************************************************************************)
(* What mkfs, read(), write() and O_TRUNC promise of one file: a sequence  *)
(* of bytes and, for each open file, an offset.  A write stores its bytes  *)
(* in order and piece by piece while it holds the file, which it may let   *)
(* go of between pieces; a read holds it to the end and gets the bytes at  *)
(* its offset.  A piece that cannot be fetched from user memory may leave  *)
(* some of its bytes unsettled: old or new, until they are written again.  *)
(***************************************************************************)
EXTENDS Naturals, Sequences

CONSTANTS Proc, NoProc, Mkfs,  \* processes; who has the file at first
          File,                \* open files of the inode
          Memory,              \* the bytes of each process's memory
          Host,                \* the file mkfs copies into the image
          MaxSize

VARIABLES content,  \* the bytes of the file
          loose,    \* positions a failed write may have touched
          off,      \* the offset of each open file
          holder,   \* who has the file to itself
          call,     \* of each process: what a write has left to store, a read has got
          result    \* what the last call of each process returned

vars == <<content, loose, off, holder, call, result>>

NoCall == [kind |-> "none", f |-> CHOOSE f \in File : TRUE, a |-> 0, n |-> 0, got |-> <<>>]

Init ==
  /\ content = <<>> /\ loose = {} /\ off = [f \in File |-> 0] /\ holder = Mkfs
  /\ call = [p \in Proc |-> NoCall]
  /\ result = [p \in Proc |-> <<>>]

Build(n) ==
  /\ holder = Mkfs
  /\ content' = SubSeq(Host, 1, Len(content) + n)
  /\ UNCHANGED <<loose, off, holder, call, result>>
Boot == holder = Mkfs /\ holder' = NoProc /\ UNCHANGED <<content, loose, off, call, result>>

\* write(f, a, n): the bytes of p's memory from a on.
Call(p, f, a, n) ==
  /\ call[p] = NoCall
  /\ call' = [call EXCEPT ![p] = [kind |-> "write", f |-> f, a |-> a, n |-> n, got |-> <<>>]]
  /\ UNCHANGED <<content, loose, off, holder, result>>
Take(p) == call[p].kind = "write" /\ holder = NoProc /\ holder' = p /\ UNCHANGED <<content, loose, off, call, result>>
Leave(p) == holder = p /\ call[p].kind = "write" /\ holder' = NoProc /\ UNCHANGED <<content, loose, off, call, result>>

\* The next m bytes take their place at the offset.
Write(p, m) ==
  LET c == call[p]  o == off[c.f]
      place == [i \in 1 .. (IF o + m > Len(content) THEN o + m ELSE Len(content)) |->
                  IF i \in o + 1 .. o + m THEN Memory[p][c.a + i - o - 1] ELSE content[i]] IN
    /\ holder = p /\ c.kind = "write" /\ m <= c.n /\ c.a + m <= Len(Memory[p]) + 1
    /\ o <= Len(content) /\ o + m <= MaxSize
    /\ content' = place
    /\ loose' \subseteq loose
    /\ off' = [off EXCEPT ![c.f] = @ + m]
    /\ call' = [call EXCEPT ![p].a = @ + m, ![p].n = @ - m]
    /\ UNCHANGED <<holder, result>>

\* write() reports success when every byte has been stored, and only then.
Return(p, ok) ==
  /\ holder # p /\ call[p].kind = "write"
  /\ ok => call[p].n = 0
  /\ call' = [call EXCEPT ![p] = NoCall]
  /\ result' = [result EXCEPT ![p] = IF ok THEN "done" ELSE "failed"]
  /\ UNCHANGED <<content, loose, off, holder>>

\* Bytes at positions S may turn into others, and no byte elsewhere.
Unsettle(S) ==
  /\ Len(content') = Len(content)
  /\ \A i \in DOMAIN content : content'[i] = content[i] \/ i \in S
  /\ loose' \subseteq S
  /\ UNCHANGED <<off, holder, call, result>>
Spoil(p) ==
  LET c == call[p] IN holder = p /\ c.kind = "write" /\ Unsettle(loose \cup (off[c.f] + 1 .. off[c.f] + c.n))

\* read(f, n): what there is of the n bytes at the offset, or a failure.
Read(p, f, n) ==
  /\ holder = NoProc /\ call[p] = NoCall
  /\ holder' = p
  /\ \E m \in 0 .. n :
       /\ m = n \/ off[f] + m = Len(content) \/ (m = 0 /\ off[f] > Len(content))
       /\ off[f] + m <= Len(content) \/ m = 0
       /\ call' = [call EXCEPT ![p] = [kind |-> "read", f |-> f, a |-> 0, n |-> m, got |-> <<>>]]
  /\ UNCHANGED <<content, loose, off, result>>
Fetch(p, m) ==
  LET o == off[call[p].f] + Len(call[p].got) IN
    /\ holder = p /\ call[p].kind = "read" /\ m <= call[p].n
    /\ call' = [call EXCEPT ![p].n = @ - m, ![p].got = @ \o SubSeq(content, o + 1, o + m)]
    /\ UNCHANGED <<content, loose, off, holder, result>>
ReadReturns(p, ok) ==
  /\ holder = p /\ call[p].kind = "read"
  /\ ok => call[p].n = 0
  /\ holder' = NoProc /\ call' = [call EXCEPT ![p] = NoCall]
  /\ off' = [off EXCEPT ![call[p].f] = IF ok THEN @ + Len(call[p].got) ELSE @]
  /\ result' = [result EXCEPT ![p] = IF ok THEN call[p].got ELSE "failed"]
  /\ UNCHANGED <<content, loose>>

Truncate ==
  /\ holder = NoProc
  /\ content' = <<>> /\ loose' = {} /\ UNCHANGED <<off, holder, call, result>>
Open(f) == off' = [off EXCEPT ![f] = 0] /\ UNCHANGED <<content, loose, holder, call, result>>

Next ==
  \/ Boot \/ Truncate \/ Unsettle(loose)
  \/ \E n \in 1 .. Len(Host) : Build(n)
  \/ \E f \in File : Open(f)
  \/ \E p \in Proc :
       \/ Take(p) \/ Leave(p) \/ Spoil(p)
       \/ \E ok \in BOOLEAN : Return(p, ok) \/ ReadReturns(p, ok)
       \/ \E m \in 1 .. MaxSize : Write(p, m) \/ Fetch(p, m)
       \/ \E f \in File, n \in 1 .. MaxSize :
            \/ Read(p, f, n)
            \/ \E a \in DOMAIN Memory[p] : Call(p, f, a, n)

Spec == Init /\ [][Next]_vars
=============================================================================
