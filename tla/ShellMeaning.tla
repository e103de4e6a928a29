---------------------------- MODULE ShellMeaning ----------------------------
(***************************************************************************)
(* What a line typed to the shell means, by where its operators stand: the *)
(* reference for the parser and for the processes of Shell.  A line is a   *)
(* sequence of tokens.  Running it turns an input and the files there are  *)
(* into an output, what is left of the input, and new files.               *)
(***************************************************************************)
EXTENDS Integers, Sequences, SequencesExt, FiniteSets

CONSTANTS File, NoFile,  \* names of files; no contents
          MAXARGS

Symbols == {"<", "|", ">", ">>", "&", ";", "(", ")"}
Redirs  == {"<", ">", ">>"}

LowestIn(S) == CHOOSE d \in S : \A e \in S : d <= e

Before(ts, i) == SubSeq(ts, 1, i - 1)
After(ts, i)  == SubSeq(ts, i + 1, Len(ts))

\* The tokens t outside all groups.
Count(ts, t)   == Cardinality({i \in DOMAIN ts : ts[i] = t})
Nesting(ts, i) == Count(Before(ts, i), "(") - Count(Before(ts, i), ")")
Tops(ts, t)    == {i \in DOMAIN ts : ts[i] = t /\ Nesting(ts, i) = 0}
Cut(ts, t)     == LowestIn(Tops(ts, t))

\* A group, and what stands after it.
Grouped(ts) == ts # <<>> /\ Head(ts) = "("
Closers(ts) == {i \in DOMAIN ts : ts[i] = ")" /\ Nesting(ts, i) = 1}
Inside(ts)  == SubSeq(ts, 2, LowestIn(Closers(ts)) - 1)
Outside(ts) == IF Grouped(ts) THEN After(ts, LowestIn(Closers(ts))) ELSE ts

Names(ts, i) == i \in DOMAIN ts /\ ts[i] \notin Symbols
Words(ts)    == {i \in DOMAIN ts : Names(ts, i) /\ (i > 1 => ts[i - 1] \notin Redirs)}
RedirsOf(ts) == {i \in DOMAIN ts : ts[i] \in Redirs}

\* Which lines are well formed: commands or groups, each with redirections, in
\* pipelines, in lists whose parts may end in &.
RECURSIVE Valid(_), ValidPart(_), ValidPipe(_)
ValidCommand(ts) ==
  /\ Grouped(ts) => Closers(ts) # {} /\ Valid(Inside(ts)) /\ Words(Outside(ts)) = {}
  /\ \A i \in DOMAIN Outside(ts) :
       Outside(ts)[i] \in Symbols => Outside(ts)[i] \in Redirs /\ Names(Outside(ts), i + 1)
  /\ Cardinality(Words(Outside(ts))) < MAXARGS
ValidPipe(ts) ==
  IF Tops(ts, "|") = {} THEN ValidCommand(ts)
  ELSE ValidCommand(Before(ts, Cut(ts, "|"))) /\ ValidPipe(After(ts, Cut(ts, "|")))
ValidPart(ts) ==
  IF ts # <<>> /\ Last(ts) = "&" THEN ValidPart(Front(ts)) ELSE ValidPipe(ts)
Valid(ts) ==
  IF Tops(ts, ";") = {} THEN ValidPart(ts)
  ELSE ValidPart(Before(ts, Cut(ts, ";"))) /\ Valid(After(ts, Cut(ts, ";")))

\* The files once redirections S of ts have been opened, the last one first, and
\* whether all could be.
RECURSIVE Opened(_, _, _)
Opened(ts, S, fs) ==
  IF S = {} THEN [ok |-> TRUE, fs |-> fs]
  ELSE LET i == CHOOSE j \in S : \A k \in S : k <= j
           f == ts[i + 1] IN
         IF ts[i] = "<" THEN IF fs[f] = NoFile THEN [ok |-> FALSE, fs |-> fs] ELSE Opened(ts, S \ {i}, fs)
         ELSE Opened(ts, S \ {i}, [fs EXCEPT ![f] = IF ts[i] = ">" \/ @ = NoFile THEN <<>> ELSE @])

\* The programs: say writes 1 and 2, cat copies its input, head one byte of it.
\* Another name is no program.
Does(name, in, fs) ==
  CASE name = "say"  -> [out |-> <<1, 2>>, rest |-> in, fs |-> fs]
    [] name = "cat"  -> [out |-> in, rest |-> <<>>, fs |-> fs]
    [] name = "head" -> [out |-> SubSeq(in, 1, 1), rest |-> SubSeq(in, 2, Len(in)), fs |-> fs]
    [] OTHER -> [out |-> <<>>, rest |-> in, fs |-> fs]

\* Of several redirections the first in the text counts, and output goes over
\* what the file holds, also with >>.
RECURSIVE Means(_, _, _)
Command(ts, in, fs) ==
  LET R == RedirsOf(Outside(ts))
      from == {i \in R : Outside(ts)[i] = "<"}
      opened == Opened(Outside(ts), R, fs)
      given == IF from = {} THEN in ELSE opened.fs[Outside(ts)[LowestIn(from) + 1]]
      m == IF Grouped(ts) THEN Means(Inside(ts), given, opened.fs)
           ELSE IF Words(ts) = {} THEN [out |-> <<>>, rest |-> given, fs |-> opened.fs]
           ELSE Does(ts[LowestIn(Words(ts))], given, opened.fs)
      rest == IF from = {} THEN m.rest ELSE in IN
    IF ~opened.ok THEN [out |-> <<>>, rest |-> in, fs |-> opened.fs]
    ELSE IF R \subseteq from THEN [m EXCEPT !.rest = rest]
    ELSE LET f == Outside(ts)[LowestIn(R \ from) + 1] IN
           [out |-> <<>>, rest |-> rest,
            fs |-> [m.fs EXCEPT ![f] = m.out \o SubSeq(@, Len(m.out) + 1, Len(@))]]
Means(ts, in, fs) ==
  IF Tops(ts, ";") # {}
  THEN LET l == Means(Before(ts, Cut(ts, ";")), in, fs)
           r == Means(After(ts, Cut(ts, ";")), l.rest, l.fs) IN [r EXCEPT !.out = l.out \o @]
  ELSE IF Tops(ts, "|") # {}
  THEN LET l == Means(Before(ts, Cut(ts, "|")), in, fs)
           r == Means(After(ts, Cut(ts, "|")), l.out, l.fs) IN [r EXCEPT !.rest = l.rest]
  ELSE Command(ts, in, fs)
=============================================================================
