--------------------------- MODULE LineDiscipline ---------------------------
(***************************************************************************)
(* What the console promises its readers: a line may be edited until it is *)
(* finished, finished lines are read in order, and one read gets at most   *)
(* one line.                                                               *)
(***************************************************************************)
EXTENDS Naturals, Sequences

CONSTANTS Reader,
          Char,        \* characters [key, no]
          EndOfFile,   \* the key that ends the input
          Capacity,
          Lossy        \* whether readers may give bad addresses

VARIABLES enders,    \* the keys that end a line, beside EndOfFile
          input,     \* finished and not yet read
          line,      \* the line being typed
          received   \* received[p]: what p's current read got

vars == <<enders, input, line, received>>

Init ==
  /\ enders \in SUBSET {c.key : c \in Char}
  /\ input = <<>> /\ line = <<>> /\ received = [p \in Reader |-> <<>>]

\* A line is finished by its last key, or because there is no room for more.
Finishes(c) == c.key \in enders \cup {EndOfFile} \/ Len(input) + Len(line) + 1 = Capacity

Insert(c) ==
  /\ Len(input) + Len(line) < Capacity
  /\ IF Finishes(c) THEN input' = input \o Append(line, c) /\ line' = <<>>
                    ELSE line' = Append(line, c) /\ UNCHANGED input
  /\ UNCHANGED <<enders, received>>

Erase ==
  /\ line # <<>>
  /\ line' = SubSeq(line, 1, Len(line) - 1)
  /\ UNCHANGED <<enders, input, received>>

Return(p) == received' = [received EXCEPT ![p] = <<>>] /\ UNCHANGED <<enders, input, line>>

\* A read ends with its line: nothing is added to what ends one.
Read(p) ==
  /\ input # <<>> /\ Head(input).key # EndOfFile
  /\ \A k \in DOMAIN received[p] : received[p][k].key \notin enders
  /\ received' = [received EXCEPT ![p] = Append(@, Head(input))]
  /\ input' = Tail(input)
  /\ UNCHANGED <<enders, line>>

\* The end of file is seen by one read that gets nothing else.
ReadEnd(p) ==
  /\ input # <<>> /\ Head(input).key = EndOfFile
  /\ received[p] = <<>>
  /\ input' = Tail(input)
  /\ UNCHANGED <<enders, line, received>>

\* A read that was given a bad address returns, and its character is lost.
Lose(p) ==
  /\ Lossy /\ input # <<>> /\ Head(input).key # EndOfFile
  /\ input' = Tail(input)
  /\ received' = [received EXCEPT ![p] = <<>>]
  /\ UNCHANGED <<enders, line>>

Next ==
  \/ \E c \in Char : Insert(c)
  \/ Erase
  \/ \E p \in Reader : Read(p) \/ ReadEnd(p) \/ Lose(p) \/ Return(p)

Spec == Init /\ [][Next]_vars
=============================================================================
