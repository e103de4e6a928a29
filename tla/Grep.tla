--------------------------------- MODULE Grep -------------------------------
(***************************************************************************)
(* user/grep.c: the matcher for ^ . * and $, and the loop that cuts what   *)
(* read() delivers into lines.  Lines end with NL.                         *)
(***************************************************************************)
EXTENDS Naturals, Sequences, SequencesExt

CONSTANTS NL,
          BUFSIZE,          \* the size of the buffer: 1024 in the code
          Patterns, Texts   \* bounds: what is looked for, and in what

VARIABLES
  pattern, text,  \* what is looked for, and the contents of the file
  unread, buf,    \* what read() has not delivered, and what is not printed or dropped yet
  out, done

vars == <<pattern, text, unread, buf, out, done>>

Rest(s, n) == SubSeq(s, n + 1, Len(s))

RECURSIVE MatchHere(_, _), MatchStar(_, _, _)

MatchHere(re, t) ==
  LET star == Len(re) > 1 /\ re[2] = "*" IN
    \/ re = <<>>
    \/ star /\ MatchStar(re[1], Rest(re, 2), t)
    \/ re = <<"$">> /\ t = <<>>
    \/ /\ re \notin {<<>>, <<"$">>} /\ ~star
       /\ t # <<>> /\ re[1] \in {".", t[1]}
       /\ MatchHere(Tail(re), Tail(t))

MatchStar(c, re, t) ==
  \/ MatchHere(re, t)
  \/ t # <<>> /\ c \in {".", t[1]} /\ MatchStar(c, re, Tail(t))

\* Mutant of Match: the end of the line is not tried.
MatchInside(re, t) ==
  IF re # <<>> /\ re[1] = "^" THEN MatchHere(Tail(re), t)
  ELSE \E k \in 0 .. Len(t) - 1 : MatchHere(re, Rest(t, k))

Match(re, t) ==
  IF re # <<>> /\ re[1] = "^" THEN MatchHere(Tail(re), t)
  ELSE \E k \in 0 .. Len(t) : MatchHere(re, Rest(t, k))

\* The lines of s, and what follows the last of them.
LinesOf(s) == LET ends == SelectSeq([k \in 1 .. Len(s) |-> k], LAMBDA k : s[k] = NL) IN
  [n \in 1 .. Len(ends) |-> SubSeq(s, IF n = 1 THEN 1 ELSE ends[n - 1] + 1, ends[n] - 1)]
Unfinished(s) == Rest(s, IF Contains(s, NL) THEN SelectLastInSeq(s, LAMBDA c : c = NL) ELSE 0)

\* read() delivers some of what there is room for.
Read ==
  /\ ~done
  /\ \E n \in 1 .. Len(unread) :
       /\ n <= BUFSIZE - Len(buf) - 1
       /\ LET b == buf \o SubSeq(unread, 1, n) IN
            /\ out' = out \o SelectSeq(LinesOf(b), LAMBDA l : Match(pattern, l))
            /\ buf' = Unfinished(b)
       /\ unread' = Rest(unread, n)
  /\ UNCHANGED <<pattern, text, done>>

\* read() has nothing to deliver, or the buffer no room.
End ==
  /\ ~done /\ (unread = <<>> \/ BUFSIZE - Len(buf) - 1 = 0)
  /\ done' = TRUE
  /\ UNCHANGED <<pattern, text, unread, buf, out>>

Init ==
  /\ pattern \in Patterns /\ text \in Texts /\ unread = text
  /\ buf = <<>> /\ out = <<>> /\ done = FALSE

Next == Read \/ End
-----------------------------------------------------------------------------
(* What a pattern means *)

\* Its characters, each [ch, many]: once, or as often as one likes.
RECURSIVE Items(_)
Items(re) ==
  IF re = <<>> THEN <<>>
  ELSE IF Len(re) > 1 /\ re[2] = "*" THEN <<[ch |-> re[1], many |-> TRUE]>> \o Items(Rest(re, 2))
  ELSE <<[ch |-> re[1], many |-> FALSE]>> \o Items(Tail(re))

\* s is so many characters for the first item, so many for the second, ...
Generates(items, s) ==
  \E times \in [1 .. Len(items) -> 0 .. Len(s)] :
    LET upTo(k) == FoldLeft(+, 0, SubSeq(times, 1, k)) IN
      /\ upTo(Len(items)) = Len(s)
      /\ \A k \in 1 .. Len(items) :
           /\ ~items[k].many => times[k] = 1
           /\ \A j \in upTo(k - 1) + 1 .. upTo(k) : items[k].ch \in {".", s[j]}

Meant(re, line) ==
  LET fromStart == re # <<>> /\ re[1] = "^"
      rest  == IF fromStart THEN Tail(re) ELSE re
      toEnd == rest # <<>> /\ Last(rest) = "$"
      items == Items(IF toEnd THEN Front(rest) ELSE rest) IN
    \E first \in 1 .. Len(line) + 1 : \E last \in first - 1 .. Len(line) :
      /\ fromStart => first = 1
      /\ toEnd => last = Len(line)
      /\ Generates(items, SubSeq(line, first, last))

\* However read() cuts the file, grep prints the lines the pattern means, in order,
\* up to the first that does not fit the buffer.
PrintsTheLines ==
  LET wanted == SelectSeq(LinesOf(text), LAMBDA l : Meant(pattern, l)) IN
    /\ IsPrefix(out, wanted)
    /\ done /\ (\A k \in DOMAIN LinesOf(text) : Len(LinesOf(text)[k]) + 1 < BUFSIZE) => out = wanted
=============================================================================
