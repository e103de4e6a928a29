------------------------------ MODULE EditedLine ----------------------------
(***************************************************************************)
(* What the shell's line editor promises who types: the line is what was   *)
(* typed over, erased, recalled and completed, and the command that runs   *)
(* is the line.  What erasing or recall with the cursor inside the line    *)
(* has cut off is not shown any more and may come back, behind the next    *)
(* character put at the end of the line or behind its newline.             *)
(***************************************************************************)
EXTENDS Naturals, Sequences, SequencesExt

CONSTANTS Char, NL,
          Name,       \* names of files to complete with
          Past,       \* the histories to start from
          Room        \* how many characters a line takes

VARIABLES
  text, cursor,
  cut,        \* the characters that were cut off
  place,      \* which line is shown: 0 the one being typed, 1 the last command, ...
  draft,      \* the line being typed, while another is shown
  tried,      \* the name put in last, <<>> for none
  history, command,
  dead

vars == <<text, cursor, cut, place, draft, tried, history, command, dead>>

Init ==
  /\ text = <<>> /\ cursor = 0 /\ cut = {} /\ place = 0 /\ draft = <<>> /\ tried = <<>>
  /\ history \in Past /\ command = <<>> /\ dead = FALSE

\* t is s, and some of what was cut off comes back behind it.
Continues(t, s) == IsPrefix(s, t) /\ \A k \in Len(s) + 1 .. Len(t) : t[k] \in cut

\* Characters replace those under the cursor.
Type(c) ==
  /\ cursor < Room /\ cursor' = cursor + 1
  /\ IF cursor < Len(text) THEN text' = [text EXCEPT ![cursor + 1] = c] /\ UNCHANGED cut
     ELSE Continues(text', Append(text, c)) /\ cut' \in SUBSET cut
  /\ UNCHANGED <<place, draft, tried, history, command, dead>>

Behind == {text[k] : k \in cursor + 1 .. Len(text)}

Erase ==
  /\ cursor > 0
  /\ text' = SubSeq(text, 1, cursor - 1) /\ cursor' = cursor - 1
  /\ cut' = cut \cup Behind
  /\ UNCHANGED <<place, draft, tried, history, command, dead>>

Move ==
  /\ cursor' \in {cursor - 1, cursor + 1} \cap 0 .. Len(text)
  /\ UNCHANGED <<text, cut, place, draft, tried, history, command, dead>>

Show(k) ==
  /\ place' = k
  /\ text' = IF k = 0 THEN draft ELSE history[Len(history) + 1 - k]
  /\ cursor' = Len(text') /\ cut' \in SUBSET (cut \cup Behind)
  /\ UNCHANGED <<tried, history, command, dead>>

Older ==
  /\ place < Len(history)
  /\ Show(place + 1)
  /\ draft' = IF place = 0 THEN text ELSE draft

Newer ==
  /\ place > 0
  /\ Show(place - 1)
  /\ draft' = IF place = 1 THEN <<>> ELSE draft

\* What was typed is completed to a name it begins, if it begins one.  A line as
\* long as the name put in last is taken for that name, and only some of it is kept.
Complete ==
  \E k \in 0 .. Len(text) :
    LET typed == SubSeq(text, 1, k)
        fit == {n \in Name : IsPrefix(typed, n)} IN
      /\ k < Len(text) => tried # <<>> /\ Len(tried) = Len(text)
      /\ IF fit = {} THEN text' = typed /\ tried' = tried ELSE text' \in fit /\ tried' = text'
      /\ cursor' = Len(text') /\ cut' \in SUBSET cut /\ place' = 0 /\ draft' = <<>>
      /\ UNCHANGED <<history, command, dead>>

Start ==
  /\ text' = <<>> /\ cursor' = 0 /\ cut' = {} /\ place' = 0 /\ draft' = <<>> /\ tried' = <<>>
  /\ UNCHANGED dead
Runs == history' = Append(history, command')

\* The last character is taken for the newline, which it is when nothing comes back.
Enter ==
  /\ IF text = <<>> THEN Continues(command', <<NL>>) /\ UNCHANGED history
     ELSE Runs /\ \E last \in cut \cup {NL} : Continues(Append(command', last), Append(text, NL))
  /\ Start

\* A line that is full, or cut off by the end of the input, loses its last character.
CutOff == text # <<>> /\ command' = Front(text) /\ Runs /\ Start

\* One more try at a line that has the length of the name put in last, after a try
\* that found none, may end the shell.
Die ==
  /\ tried # <<>> /\ Len(tried) = Len(text)
  /\ dead' = TRUE
  /\ UNCHANGED <<text, cursor, cut, place, draft, tried, history, command>>

Next ==
  /\ ~dead
  /\ \/ \E c \in Char : Type(c)
     \/ Erase \/ Move \/ Older \/ Newer \/ Complete \/ Die \/ Enter \/ CutOff

Spec == Init /\ [][Next]_vars
=============================================================================
