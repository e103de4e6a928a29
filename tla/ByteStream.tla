------------------------------ MODULE ByteStream ----------------------------
(***************************************************************************)
(* What a pipe promises: a bounded first-in first-out stream of bytes from *)
(* those that have its write end to those that have its read end.          *)
(***************************************************************************)
EXTENDS Naturals, Sequences

CONSTANTS Proc, Byte, Capacity,
          Lossy      \* whether readers may give bad addresses

VARIABLES stream,     \* the bytes written and not yet read
          received    \* received[p]: the bytes p's current or last read got

vars == <<stream, received>>

Init == stream = <<>> /\ received = [p \in Proc |-> <<>>]

Write(v) ==
  /\ Len(stream) < Capacity
  /\ stream' = Append(stream, v)
  /\ UNCHANGED received

StartRead(p) == received' = [received EXCEPT ![p] = <<>>] /\ UNCHANGED stream

Read(p) ==
  /\ stream # <<>>
  /\ received' = [received EXCEPT ![p] = Append(@, Head(stream))]
  /\ stream' = Tail(stream)

\* A reader that gives a bad address loses the byte it would have got.
Lose == Lossy /\ stream # <<>> /\ stream' = Tail(stream) /\ UNCHANGED received

Next ==
  \/ \E v \in Byte : Write(v)
  \/ \E p \in Proc : StartRead(p) \/ Read(p)
  \/ Lose

Spec == Init /\ [][Next]_vars
=============================================================================
