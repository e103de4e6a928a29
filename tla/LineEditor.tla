------------------------------ MODULE LineEditor ----------------------------
(***************************************************************************)
(* The line editor of the shell, user/sh.c of the round-robin kernel: the  *)
(* buffer of getcmd(), the keys gets_or_tab() handles, the history, and    *)
(* completion by the names of the files of the directory.                  *)
(*                                                                         *)
(* A step is one key that read() delivers; the tab with what getcmd() does *)
(* for it, and the key that ends a line with the rest of getcmd() and what *)
(* main() makes of the command, unless it is a cd.                         *)
(***************************************************************************)
EXTENDS Integers, Sequences, SequencesExt

CONSTANTS Char, NUL, NL,
          Cmds,       \* cmds->strings, as findcmds() lists the directory
          MAX,         \* the size of the buffer: 100 in the code
          Past,        \* the histories of earlier commands
          MaxLines     \* bound: lines in the history

VARIABLES
  buf, i,              \* the line, and the place of the cursor
  historyidx, curbuf,  \* which line of the history is shown, and the line that was there
  history,
  testcmd, tabidx, cmdidx, \* the name put in last, where it began to be completed, and the next to try
  command,             \* what main() runs
  dead                 \* the shell has been killed

vars  == <<buf, i, historyidx, curbuf, history, testcmd, tabidx, cmdidx, command, dead>>
place == <<historyidx, curbuf>>
tab   == <<testcmd, tabidx, cmdidx>>

Cell == 0 .. MAX - 1
Empty == [k \in Cell |-> NUL]

\* strlen() and strcpy(); MAX is past the end, in the padding, which is 0.
Strlen(b) == CHOOSE n \in 0 .. MAX : (n = MAX \/ b[n] = NUL) /\ \A k \in 0 .. n - 1 : b[k] # NUL
Text(b)   == [k \in 1 .. Strlen(b) |-> b[k - 1]]
Strcpy(b, at, s) ==
  [k \in Cell |-> IF k \in at .. at + Len(s) - 1 THEN s[k - at + 1] ELSE IF k = at + Len(s) THEN NUL ELSE b[k]]
Memset(b, from, n) == [k \in Cell |-> IF k \in from .. from + n - 1 THEN NUL ELSE b[k]]

\* The loop of gets_or_tab() goes on.
Reading == ~dead /\ i + 1 < MAX /\ Len(history) < MaxLines

-----------------------------------------------------------------------------
Type(c) ==
  /\ Reading
  /\ buf' = [buf EXCEPT ![i] = c] /\ i' = i + 1
  /\ UNCHANGED <<place, history, tab, command, dead>>

\* What is behind the cursor is cut off, and still there.
Erase ==
  /\ Reading /\ i > 0
  /\ buf' = [buf EXCEPT ![i - 1] = NUL] /\ i' = i - 1
  /\ UNCHANGED <<place, history, tab, command, dead>>

Left ==
  /\ Reading /\ i > 0
  /\ i' = i - 1
  /\ UNCHANGED <<buf, place, history, tab, command, dead>>

Right ==
  /\ Reading /\ i < Strlen(buf)
  /\ i' = i + 1
  /\ UNCHANGED <<buf, place, history, tab, command, dead>>

\* The line shown gives way to s, as far as the cursor.
Replace(s) == buf' = Strcpy(Memset(buf, 0, i), 0, s) /\ i' = Strlen(buf')
Recalled(h) == history[Len(history) - h]

\* Mutant of Saved: every step back in the history saves the line.
SavedAlways == Text(buf)

Saved == IF historyidx < 0 THEN Text(buf) ELSE curbuf

Older ==
  /\ Reading /\ historyidx + 1 < Len(history)
  /\ historyidx' = historyidx + 1
  /\ curbuf' = Saved
  /\ Replace(Recalled(historyidx + 1))
  /\ UNCHANGED <<history, tab, command, dead>>

\* curbuf is not read again once its line is back.
Newer ==
  /\ Reading /\ historyidx >= 0
  /\ historyidx' = historyidx - 1
  /\ IF historyidx = 0 THEN Replace(curbuf) /\ curbuf' = <<>>
                       ELSE Replace(Recalled(historyidx - 1)) /\ UNCHANGED curbuf
  /\ UNCHANGED <<history, tab, command, dead>>

\* The names to try: from cmdidx on, and then all of them.
Order(from) == [k \in 1 .. 2 * Len(Cmds) - from |-> IF from + k <= Len(Cmds) THEN from + k ELSE from + k - Len(Cmds)]

\* A line as long as the name put in last is taken for that name.
Fresh == testcmd = <<>> \/ Strlen(buf) # Len(testcmd)

\* gets_or_tab() returns for a tab, and getcmd() calls it again.
Tab ==
  /\ Reading /\ (Fresh \/ tabidx <= Strlen(buf))
  /\ LET keep  == IF Fresh THEN Strlen(buf) ELSE tabidx
         b     == Memset(buf, keep, Strlen(buf) - keep)
         order == Order(IF Fresh THEN 0 ELSE cmdidx)
         fit   == {k \in DOMAIN order : IsPrefix(Text(b), Cmds[order[k]])} IN
       /\ tabidx' = keep
       /\ IF fit = {}
          THEN buf' = b /\ cmdidx' = 0 /\ UNCHANGED testcmd
          ELSE LET k == CHOOSE k \in fit : \A l \in fit : k <= l
                   n == Cmds[order[k]] IN
                 /\ testcmd' = n /\ cmdidx' = order[k]
                 /\ buf' = Strcpy(b, keep, SubSeq(n, keep + 1, Len(n)))
  /\ i' = Strlen(buf') /\ historyidx' = -1 /\ curbuf' = <<>>
  /\ UNCHANGED <<history, command, dead>>

\* A completion that failed has moved tabidx behind the name: strlen(buf) - tabidx
\* wraps, and memset() runs into what is not mapped.
TabKills ==
  /\ Reading /\ ~(Fresh \/ tabidx <= Strlen(buf))
  /\ dead' = TRUE
  /\ UNCHANGED <<buf, i, place, history, tab, command>>

\* The rest of getcmd(): the last character of a line that is not empty is
\* taken for the newline.  The next line begins.
Ended(b) ==
  LET c == IF b[0] = NL THEN b ELSE [b EXCEPT ![Strlen(b) - 1] = NUL] IN
    /\ command' = Text(c)
    /\ history' = IF b[0] = NL THEN history ELSE Append(history, Text(c))
    /\ buf' = Empty /\ i' = 0 /\ historyidx' = -1 /\ curbuf' = <<>>
    /\ testcmd' = <<>> /\ tabidx' = 0 /\ cmdidx' = 0 /\ UNCHANGED dead

Enter == Reading /\ Ended([buf EXCEPT ![Strlen(buf)] = NL])

\* The buffer is full, or read() has come to the end of the input.
Full      == ~dead /\ ~(i + 1 < MAX) /\ Ended(buf)
EndOfFile == Reading /\ buf[0] # NUL /\ Ended(buf)
-----------------------------------------------------------------------------
Init ==
  /\ buf = Empty /\ i = 0 /\ historyidx = -1 /\ curbuf = <<>> /\ history \in Past
  /\ testcmd = <<>> /\ tabidx = 0 /\ cmdidx = 0 /\ command = <<>> /\ dead = FALSE

Next ==
  \/ \E c \in Char : Type(c)
  \/ Erase \/ Left \/ Right \/ Older \/ Newer \/ Tab \/ TabKills \/ Enter \/ Full \/ EndOfFile

Spec == Init /\ [][Next]_vars
-----------------------------------------------------------------------------
\* The line ends inside the buffer, and the cursor is in the line.
BufferEnds == i <= Strlen(buf) /\ Strlen(buf) < MAX

Line == INSTANCE EditedLine WITH
  Name <- {Cmds[k] : k \in DOMAIN Cmds}, Room <- MAX - 1,
  text <- Text(buf), cut <- {buf[k] : k \in {l \in Cell : l > Strlen(buf)}} \ {NUL},
  cursor <- i, place <- historyidx + 1, draft <- curbuf, tried <- testcmd

\* The line is what was typed, erased, recalled and completed, and what runs; what
\* was cut off inside it may come back (sh.c:180-214).
ImplementsEditedLine == Line!Spec
=============================================================================
