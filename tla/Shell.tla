-------------------------------- MODULE Shell -------------------------------
(***************************************************************************)
(* user/sh.c above the kernel interface: the parser, and runcmd() with the *)
(* processes, descriptors and pipes it sets up for a command.              *)
(*                                                                         *)
(* runcmd() is a script of system calls, one of which is a step; the calls *)
(* do what the kernel promises (Pipe, FileSystem and Sched are about how). *)
(* A line is a sequence of tokens; programs are a few that read and write  *)
(* standard input and output.                                              *)
(***************************************************************************)
EXTENDS ShellMeaning

CONSTANTS Pid, Sh,      \* processes, and the shell among them; 0 is init
          Fd,           \* file descriptors: numbers, with 0, 1 and 2
          OpenFile,     \* the kernel's table of open files: numbers
          Pipe, PIPESIZE,
          Lines         \* bound: the lines typed
-----------------------------------------------------------------------------
(* The parser *)

\* What a parsing function returns: a command and the tokens left, or a panic.
Got(c, ts) == [ok |-> TRUE, cmd |-> c, ts |-> ts]
Bad        == [ok |-> FALSE]
\* What parsing goes on to, unless it has panicked.  (A set of one, so that TLC
\* parses once.)
AndThen(result, F(_, _)) == CHOOSE y \in {IF r.ok THEN F(r.cmd, r.ts) ELSE Bad : r \in {result}} : TRUE
Peek(ts, S) == ts # <<>> /\ Head(ts) \in S

execcmd(argv)        == [type |-> "EXEC", argv |-> argv]
redircmd(c, op, f)   == [type |-> "REDIR", cmd |-> c, file |-> f, op |-> op]
pipecmd(l, r)        == [type |-> "PIPE", left |-> l, right |-> r]
listcmd(l, r)        == [type |-> "LIST", left |-> l, right |-> r]
backcmd(c)           == [type |-> "BACK", cmd |-> c]

MissingFile(ts) == Len(ts) < 2 \/ ts[2] \in Symbols

RECURSIVE parseline(_), parsepipe(_), parseredirs(_, _), parsewords(_, _, _), backs(_, _)

parseredirs(c, ts) ==
  IF ~Peek(ts, Redirs) THEN Got(c, ts)
  ELSE IF MissingFile(ts) THEN Bad
  ELSE parseredirs(redircmd(c, ts[1], ts[2]), SubSeq(ts, 3, Len(ts)))

\* The loop of parseexec(), with the redirections met so far: each goes around
\* what there is.
parsewords(argv, redirs, ts) ==
  IF ts = <<>> \/ Peek(ts, {"|", ")", "&", ";"})
  THEN Got(FoldLeft(LAMBDA c, r : redircmd(c, r[1], r[2]), execcmd(argv), redirs), ts)
  ELSE IF Peek(ts, Redirs)
  THEN IF MissingFile(ts) THEN Bad
       ELSE parsewords(argv, Append(redirs, SubSeq(ts, 1, 2)), SubSeq(ts, 3, Len(ts)))
  ELSE IF Head(ts) = "(" \/ Len(argv) + 1 >= MAXARGS THEN Bad
  ELSE parsewords(Append(argv, Head(ts)), redirs, Tail(ts))

parseblock(ts) ==
  AndThen(parseline(Tail(ts)),
          LAMBDA c, rest : IF Peek(rest, {")"}) THEN parseredirs(c, Tail(rest)) ELSE Bad)

parseexec(ts) == IF Peek(ts, {"("}) THEN parseblock(ts) ELSE parsewords(<<>>, <<>>, ts)

parsepipe(ts) ==
  AndThen(parseexec(ts),
          LAMBDA l, rest :
            IF ~Peek(rest, {"|"}) THEN Got(l, rest)
            ELSE AndThen(parsepipe(Tail(rest)), LAMBDA r, ts2 : Got(pipecmd(l, r), ts2)))

backs(c, ts) == IF Peek(ts, {"&"}) THEN backs(backcmd(c), Tail(ts)) ELSE Got(c, ts)

parseline(ts) ==
  AndThen(AndThen(parsepipe(ts), backs),
          LAMBDA l, rest :
            IF ~Peek(rest, {";"}) THEN Got(l, rest)
            ELSE AndThen(parseline(Tail(rest)), LAMBDA r, ts2 : Got(listcmd(l, r), ts2)))

\* Leftovers are an error.
parsecmd(ts) == AndThen(parseline(ts), LAMBDA c, rest : IF rest = <<>> THEN Got(c, rest) ELSE Bad)
-----------------------------------------------------------------------------
VARIABLES
  todo,    \* the system calls each process still has to make; <<>> is the prompt
  state,   \* "unused", "run" or "zombie"
  parent,
  fds,     \* the descriptor table of each process
  pfd,     \* its variable p[2]
  pipe,    \* the bytes in each pipe
  file,    \* contents of the files there are
  off,     \* offset in each open file
  screen,  \* what has come out on the console
  line,    \* the line under way
  short    \* whether a fork() or pipe() has failed

vars == <<todo, state, parent, fds, pfd, pipe, file, off, screen, line, short>>

Console   == [kind |-> "console", of |-> 0]
End(k, e) == [kind |-> e, of |-> k]              \* "in" and "out" of a pipe

Refers(x) == \E p \in Pid, d \in Fd : fds[p][d] = x
FreeOpens == {o \in OpenFile : ~\E f \in File : Refers([kind |-> "file", of |-> <<f, o>>])}
FreeFds(T) == {d \in DOMAIN T : T[d] = NoFile}
Call(do) == [do |-> do]

\* Mutant of CloseEnds: the process keeps the end it does not use.
CloseEndsNot == <<[do |-> "closep", n |-> 0]>>

CloseEnds == <<[do |-> "closep", n |-> 0], [do |-> "closep", n |-> 1]>>

\* Mutant of BothEnd: the parent of a pipeline waits for one of its two children.
OneEnds == <<Call("wait")>>

BothEnd == <<Call("wait"), Call("wait")>>

\* What runcmd() does for a command, up to its exit(0).
Run(c)      == [do |-> "run", cmd |-> c]
ForkTo(t)   == [do |-> "fork", child |-> t]
Stage(n, c) == ForkTo(<<[do |-> "close", fd |-> n], [do |-> "dup", n |-> n]>> \o CloseEnds \o <<Run(c)>>)
Script(c) ==
  CASE c.type = "EXEC"  -> <<[do |-> "exec", argv |-> c.argv]>>
    [] c.type = "REDIR" -> <<[do |-> "close", fd |-> IF c.op = "<" THEN 0 ELSE 1],
                             [do |-> "open", file |-> c.file, op |-> c.op], Run(c.cmd)>>
    [] c.type = "LIST"  -> <<ForkTo(<<Run(c.left)>>), Call("wait"), Run(c.right)>>
    [] c.type = "PIPE"  -> <<Call("pipe"), Stage(1, c.left), Stage(0, c.right)>>
                           \o CloseEnds \o BothEnd
    [] c.type = "BACK"  -> <<ForkTo(<<Run(c.cmd)>>)>>

\* The programs: one writes two bytes, one copies its input, one its first byte.
\* Another name is no program: exec() fails.
Program(name) == CASE name = "say"  -> <<[do |-> "write", d |-> 1], [do |-> "write", d |-> 2]>>
                   [] name = "cat"  -> <<Call("copyall")>>
                   [] name = "head" -> <<Call("copy")>>
                   [] OTHER -> <<>>

\* runcmd() never returns, and neither does a program.
Expand(t) == IF t # <<>> /\ Head(t).do = "run" THEN Script(Head(t).cmd) \o <<Call("exit")>> ELSE t
Then(p)   == todo' = [todo EXCEPT ![p] = Expand(Tail(@))]
Next_(p, do) == state[p] = "run" /\ todo[p] # <<>> /\ Head(todo[p]).do = do
-----------------------------------------------------------------------------
(* The kernel, as far as the shell can see *)

files == <<pipe, file, off, screen>>

Close(p, d) ==
  /\ fds' = [fds EXCEPT ![p][d] = NoFile] /\ Then(p)
  /\ UNCHANGED <<state, parent, pfd, files, line, short>>
DoClose(p) == \/ Next_(p, "close") /\ Close(p, Head(todo[p]).fd)
              \/ Next_(p, "closep") /\ Close(p, pfd[p][Head(todo[p]).n])
Dup(p) ==
  /\ Next_(p, "dup") /\ Then(p)
  /\ fds' = [fds EXCEPT ![p][LowestIn(FreeFds(fds[p]))] = fds[p][pfd[p][Head(todo[p]).n]]]
  /\ UNCHANGED <<state, parent, pfd, files, line, short>>

\* exit(): the descriptors are closed; init adopts the children, and waits.
Die(p) ==
  /\ state' = [q \in Pid |-> IF q = p THEN IF parent[p] = 0 THEN "unused" ELSE "zombie"
                             ELSE IF parent[q] = p /\ state[q] = "zombie" THEN "unused" ELSE state[q]]
  /\ parent' = [q \in Pid |-> IF parent[q] = p THEN 0 ELSE parent[q]]
  /\ fds' = [fds EXCEPT ![p] = [d \in Fd |-> NoFile]]
  /\ todo' = [todo EXCEPT ![p] = <<>>]
  /\ UNCHANGED <<pfd, files, line>>
Exit(p) == Next_(p, "exit") /\ Die(p) /\ UNCHANGED short

Open(p) ==
  LET f == Head(todo[p]).file  op == Head(todo[p]).op
      d == LowestIn(FreeFds(fds[p]))  o == LowestIn(FreeOpens) IN
    /\ Next_(p, "open")
    /\ IF op = "<" /\ file[f] = NoFile THEN Die(p) /\ UNCHANGED short
       ELSE /\ fds' = [fds EXCEPT ![p][d] = [kind |-> "file", of |-> <<f, o>>]]
            /\ off' = [off EXCEPT ![o] = 0]
            /\ file' = [file EXCEPT ![f] = IF op = ">" \/ @ = NoFile THEN <<>> ELSE @]
            /\ Then(p)
            /\ UNCHANGED <<state, parent, pfd, pipe, screen, line, short>>

\* pipe() and fork1(), or a panic.
PipeCall(p) ==
  LET unused == {k \in Pipe : ~Refers(End(k, "in")) /\ ~Refers(End(k, "out"))}
      r == LowestIn(FreeFds(fds[p]))
      w == LowestIn(FreeFds(fds[p]) \ {r}) IN
    /\ Next_(p, "pipe")
    /\ IF unused = {} \/ Cardinality(FreeFds(fds[p])) < 2 THEN Die(p) /\ short' = TRUE
       ELSE LET k == LowestIn(unused) IN
            /\ fds' = [fds EXCEPT ![p][r] = End(k, "in"), ![p][w] = End(k, "out")]
            /\ pfd' = [pfd EXCEPT ![p] = (0 :> r @@ 1 :> w)]
            /\ pipe' = [pipe EXCEPT ![k] = <<>>]
            /\ Then(p)
            /\ UNCHANGED <<state, parent, file, off, screen, line, short>>
Fork(p) ==
  LET free == {q \in Pid : state[q] = "unused"} IN
    /\ Next_(p, "fork")
    /\ IF free = {} THEN Die(p) /\ short' = TRUE
       ELSE LET c == LowestIn(free) IN
            /\ state' = [state EXCEPT ![c] = "run"]
            /\ parent' = [parent EXCEPT ![c] = p]
            /\ fds' = [fds EXCEPT ![c] = fds[p]]
            /\ pfd' = [pfd EXCEPT ![c] = pfd[p]]
            /\ todo' = [todo EXCEPT ![p] = Expand(Tail(@)), ![c] = Expand(Head(todo[p]).child)]
            /\ UNCHANGED <<files, line, short>>

\* wait(0): any child; without one it returns at once.
Wait(p) ==
  LET kids == {c \in Pid : parent[c] = p /\ state[c] # "unused"} IN
    /\ Next_(p, "wait") /\ Then(p)
    /\ \/ kids = {} /\ UNCHANGED <<state, parent>>
       \/ \E c \in kids : /\ state[c] = "zombie"
                          /\ state' = [state EXCEPT ![c] = "unused"]
                          /\ parent' = [parent EXCEPT ![c] = 0]
    /\ UNCHANGED <<fds, pfd, files, line, short>>

\* exec(), of a program or of nothing; argv[0] = 0 is an exit too.
ExecCall(p) ==
  LET argv == Head(todo[p]).argv IN
    /\ Next_(p, "exec")
    /\ todo' = [todo EXCEPT ![p] = (IF argv = <<>> THEN <<>> ELSE Program(Head(argv))) \o <<Call("exit")>>]
    /\ UNCHANGED <<state, parent, fds, pfd, files, line, short>>

\* A program writes a byte to its standard output, ...
Write(p) ==
  LET x == fds[p][1]  d == Head(todo[p]).d IN
    /\ Next_(p, "write") /\ Then(p)
    /\ CASE x = NoFile \/ x.kind = "in" -> UNCHANGED files
         [] x.kind = "console" -> screen' = Append(screen, d) /\ UNCHANGED <<pipe, file, off>>
         [] x.kind = "out" ->
              IF ~Refers(End(x.of, "in")) THEN UNCHANGED files
              ELSE /\ Len(pipe[x.of]) < PIPESIZE
                   /\ pipe' = [pipe EXCEPT ![x.of] = Append(@, d)]
                   /\ UNCHANGED <<file, off, screen>>
         [] x.kind = "file" ->
              LET f == x.of[1]  o == off[x.of[2]] IN
                /\ file' = [file EXCEPT ![f] = SubSeq(@, 1, o) \o <<d>> \o SubSeq(@, o + 2, Len(@))]
                /\ off' = [off EXCEPT ![x.of[2]] = o + 1]
                /\ UNCHANGED <<pipe, screen>>
    /\ UNCHANGED <<state, parent, fds, pfd, line, short>>

\* ... or reads one from its standard input and goes on to write it.  Nothing is
\* typed on the console but an end of file.
Gets(p, d) ==
  LET now == Head(todo[p]).do IN
    todo' = [todo EXCEPT ![p] = <<[do |-> "write", d |-> d]>> \o (IF now = "copyall" THEN @ ELSE Tail(@))]
Read(p) ==
  LET x == fds[p][0] IN
    /\ Next_(p, "copy") \/ Next_(p, "copyall")
    /\ CASE x = NoFile \/ x.kind \in {"console", "out"} -> Then(p) /\ UNCHANGED <<pipe, off>>
         [] x.kind = "in" ->
              \/ /\ pipe[x.of] # <<>> /\ Gets(p, Head(pipe[x.of]))
                 /\ pipe' = [pipe EXCEPT ![x.of] = Tail(@)] /\ UNCHANGED off
              \/ pipe[x.of] = <<>> /\ ~Refers(End(x.of, "out")) /\ Then(p) /\ UNCHANGED <<pipe, off>>
         [] x.kind = "file" ->
              LET o == off[x.of[2]] IN
                IF o = Len(file[x.of[1]]) THEN Then(p) /\ UNCHANGED <<pipe, off>>
                ELSE /\ Gets(p, file[x.of[1]][o + 1])
                     /\ off' = [off EXCEPT ![x.of[2]] = o + 1] /\ UNCHANGED pipe
    /\ UNCHANGED <<state, parent, fds, pfd, file, screen, line, short>>
-----------------------------------------------------------------------------
(* main() *)

NoLine == <<"no line yet">>

\* getcmd(), then fork1() == 0 and runcmd(parsecmd(buf)) in the child.
GetCmd ==
  /\ line = NoLine
  /\ line' \in Lines
  /\ todo' = [todo EXCEPT ![Sh] = <<ForkTo(<<Call("parse")>>), Call("wait")>>]
  /\ UNCHANGED <<state, parent, fds, pfd, files, short>>
Parse(p) ==
  /\ Next_(p, "parse")
  /\ \E r \in {parsecmd(line)} :
       todo' = [todo EXCEPT ![p] = IF r.ok THEN Expand(<<Run(r.cmd)>>) ELSE <<Call("exit")>>]
  /\ UNCHANGED <<state, parent, fds, pfd, files, line, short>>

Init ==
  /\ todo = [p \in Pid |-> <<>>]
  /\ state = [p \in Pid |-> IF p = Sh THEN "run" ELSE "unused"]
  /\ parent = [p \in Pid |-> 0]
  /\ fds = [p \in Pid |-> [d \in Fd |-> IF p = Sh /\ d < 3 THEN Console ELSE NoFile]]
  /\ pfd = [p \in Pid |-> (0 :> 0 @@ 1 :> 0)]
  /\ pipe = [k \in Pipe |-> <<>>] /\ file = [f \in File |-> NoFile]
  /\ off = [o \in OpenFile |-> 0]
  /\ screen = <<>> /\ line = NoLine /\ short = FALSE

Step(p) ==
  \/ DoClose(p) \/ Dup(p) \/ Exit(p) \/ Open(p) \/ PipeCall(p) \/ Fork(p) \/ Wait(p)
  \/ ExecCall(p) \/ Write(p) \/ Read(p) \/ Parse(p)

Next == GetCmd \/ \E p \in Pid : Step(p)
Spec == Init /\ [][Next]_vars

\* While somebody can run, the scheduler runs somebody.
FairSpec == Spec /\ WF_vars(\E p \in Pid : Step(p))
-----------------------------------------------------------------------------
(* What a line is for *)

AllGone == todo[Sh] = <<>> /\ \A p \in Pid \ {Sh} : state[p] = "unused"

\* When the shell prompts again, the line has been done: its output is on the
\* screen and in its files, and its processes have ended.  A line that is not
\* well formed does nothing; what follows & may go on; and where processes or
\* pipes run out, nothing is promised.
PromptMeansDone ==
  line # NoLine /\ todo[Sh] = <<>> /\ ~short =>
    IF ~Valid(line) THEN AllGone /\ screen = <<>> /\ file = [f \in File |-> NoFile]
    ELSE "&" \notin ToSet(line) =>
           LET m == Means(line, <<>>, [f \in File |-> NoFile]) IN AllGone /\ screen = m.out /\ file = m.fs

\* The prompt returns, and every process of the line ends: nobody waits for a
\* pipe that nobody will write, or for a child that is somebody else's.
EveryLineEnds == line # NoLine ~> AllGone
=============================================================================
