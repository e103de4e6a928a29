-------------------------------- MODULE Sudoku ------------------------------
(***************************************************************************)
(* The backtracking solvers of SUDOKU: Sudoku::recursiveSolve() of the C++ *)
(* program, and solve() of the Lua one, which looks for the first empty    *)
(* cell instead of going on from the last.                                 *)
(*                                                                         *)
(* A step is a call or one turn of the loop over numbers; stack holds the  *)
(* calls whose loop is under way.  Rows and columns count from 1.          *)
(***************************************************************************)
EXTENDS Integers, Sequences, FiniteSets

CONSTANTS Box,      \* boxes are Box by Box cells: 3 in the code
          Solvers,  \* the programs that are run: "c++", "lua"
          Given     \* bound: the puzzles that are loaded

N    == Box * Box
Pos  == 1 .. N
Cell == Pos \X Pos
Grid == [Cell -> 0 .. N]

ASSUME SudokuAssumption == Box \in Nat \ {0} /\ Solvers \subseteq {"c++", "lua"} /\ Given \subseteq Grid

VARIABLES solver,   \* the program
          given,    \* the puzzle that was loaded
          puzzle,
          stack,    \* the cells of the calls under way, each with its number tried last
          next,     \* the cell the next call looks at
          pc        \* "call", "loop", "solved" or "failed"

vars == <<solver, given, puzzle, stack, next, pc>>

End == <<N + 1, 1>>
After(c) == IF c[2] = N THEN <<c[1] + 1, 1>> ELSE <<c[1], c[2] + 1>>
Before(c, d) == c[1] < d[1] \/ (c[1] = d[1] /\ c[2] < d[2])

BoxOf(c) == <<(c[1] - 1) \div Box, (c[2] - 1) \div Box>>
-----------------------------------------------------------------------------
\* Mutant of IsSafe: the box is not looked at.
IsSafeLines(c, num) ==
  \A d \in Cell : d[1] = c[1] \/ d[2] = c[2] => puzzle[d] # num

\* isSafe(): the number is nowhere in the row, the column or the box.
IsSafe(c, num) ==
  \A d \in Cell : d[1] = c[1] \/ d[2] = c[2] \/ BoxOf(d) = BoxOf(c) => puzzle[d] # num

\* isSolved(): the first empty cell.
FirstEmpty ==
  IF \A c \in Cell : puzzle[c] # 0 THEN End
  ELSE CHOOSE c \in Cell : puzzle[c] = 0 /\ \A d \in Cell : Before(d, c) => puzzle[d] # 0

Succeed == pc = "call" /\ next = End /\ pc' = "solved" /\ UNCHANGED <<solver, given, puzzle, stack, next>>

\* A cell that is not empty is passed over.
Skip ==
  /\ pc = "call" /\ next # End /\ puzzle[next] # 0
  /\ next' = After(next)
  /\ UNCHANGED <<solver, given, puzzle, stack, pc>>

Enter ==
  /\ pc = "call" /\ next # End /\ puzzle[next] = 0
  /\ stack' = Append(stack, [cell |-> next, num |-> 0])
  /\ pc' = "loop"
  /\ UNCHANGED <<solver, given, puzzle, next>>

Depth == Len(stack)
Top   == stack[Depth]

\* The call for the cell after a number was put in.
Recurse(c) == next' = IF solver = "lua" THEN FirstEmpty' ELSE After(c)

Try ==
  /\ pc = "loop" /\ Top.num < N
  /\ LET num == Top.num + 1 IN
       /\ stack' = [stack EXCEPT ![Depth].num = num]
       /\ IF IsSafe(Top.cell, num)
          THEN /\ puzzle' = [puzzle EXCEPT ![Top.cell] = num]
               /\ Recurse(Top.cell)
               /\ pc' = "call"
          ELSE UNCHANGED <<puzzle, next, pc>>
  /\ UNCHANGED <<solver, given>>

\* The call returns false and the caller goes on with its next number.  The C++
\* call has emptied its cell; the Lua caller empties its own.
Backtrack ==
  /\ pc = "loop" /\ Top.num = N
  /\ LET emptied == IF solver = "lua" THEN {stack[k].cell : k \in {Depth - 1} \ {0}} ELSE {Top.cell} IN
       puzzle' = [c \in Cell |-> IF c \in emptied THEN 0 ELSE puzzle[c]]
  /\ stack' = SubSeq(stack, 1, Depth - 1)
  /\ pc' = IF Depth = 1 THEN "failed" ELSE "loop"
  /\ UNCHANGED <<solver, given, next>>

\* loadFromFile(), then solve().
Init ==
  /\ solver \in Solvers
  /\ given \in Given /\ puzzle = given
  /\ stack = <<>>
  /\ next = IF solver = "lua" THEN FirstEmpty ELSE <<1, 1>>
  /\ pc = "call"

Next == Succeed \/ Skip \/ Enter \/ Try \/ Backtrack

Spec == Init /\ [][Next]_vars
FairSpec == Spec /\ WF_vars(Next)
-----------------------------------------------------------------------------
(* The reference: what a Sudoku puzzle asks for *)

Related(c, d) == c # d /\ (c[1] = d[1] \/ c[2] = d[2] \/ BoxOf(c) = BoxOf(d))

Consistent(g) == \A c, d \in Cell : Related(c, d) /\ g[c] # 0 => g[c] # g[d]

Extends(g, h) == \A c \in Cell : h[c] # 0 => g[c] = h[c]

Empties(h) == {c \in Cell : h[c] = 0}

\* The grids that answer puzzle h.
Solutions(h) ==
  {g \in {[c \in Cell |-> IF h[c] = 0 THEN f[c] ELSE h[c]] : f \in [Empties(h) -> Pos]} : Consistent(g)}

\* solve() returns true with an answer to the puzzle, whatever it tried before,
\* and false, with the puzzle as it was, only when there is none.  Meanwhile the
\* givens stand, and what is put in is consistent and in the cells of the calls
\* under way.
SolvesCorrectly ==
  /\ pc = "solved" => puzzle \in Solutions(given)
  /\ pc = "failed" => puzzle = given /\ Solutions(given) = {}
  /\ Extends(puzzle, given)
  /\ Consistent(given) => Consistent(puzzle)
  /\ {c \in Cell : puzzle[c] # given[c]} \subseteq {stack[k].cell : k \in 1 .. Depth}

\* The search ends.
Terminates == <>(pc \in {"solved", "failed"})
=============================================================================
