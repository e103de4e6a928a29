----------------------------- MODULE SudokuProofs ---------------------------
(***************************************************************************)
(* Both searches are right for boards of every size: what they answer is a *)
(* solution, and they give up only when there is none.  The invariant says *)
(* which cells are filled, from what, and that no solution has been passed *)
(* over: each still agrees with the calls under way up to a call that will *)
(* try larger numbers.                                                     *)
(***************************************************************************)
EXTENDS Sudoku, SequenceTheorems, WellFoundedInduction, NaturalsInduction, TLAPS
-----------------------------------------------------------------------------
(* Numbers *)

\* A set of natural numbers has a least element.
LEMMA LeastNatural ==
  ASSUME NEW S \in SUBSET Nat, S # {}
  PROVE  \E m \in S : \A n \in S : m <= n
  <1> DEFINE R == OpToRel(<, Nat)
  <1>1. IsWellFoundedOn(R, Nat)
    BY NatLessThanWellFounded
  <1>2. \E m \in S : \A n \in S : ~(<<n, m>> \in R)
    <2> HIDE DEF R
    <2> QED BY <1>1, WFMin
  <1>3. \A m, n \in Nat : n < m => <<n, m>> \in R
    BY DEF OpToRel
  <1> HIDE DEF R
  <1>4. PICK m \in S : \A n \in S : ~(<<n, m>> \in R)
    BY <1>2
  <1>5. \A n \in S : ~(n < m)
    BY <1>3, <1>4
  <1> QED
    BY <1>5
-----------------------------------------------------------------------------
\* Boards have at least one number.
LEMMA NType == ASSUME SudokuAssumption PROVE N \in Nat /\ N >= 1
  BY DEF SudokuAssumption, N
-----------------------------------------------------------------------------
(* Cells in reading order *)

Places == Cell \cup {End}

\* Reading order is a strict total order, and End comes after every cell.
LEMMA CellOrder ==
  ASSUME SudokuAssumption
  PROVE  /\ \A c \in Cell : Before(c, End) /\ c # End
         /\ \A c \in Cell, d \in Cell : Before(c, d) \/ c = d \/ Before(d, c)
         /\ \A c \in Places : ~Before(c, c)
         /\ \A c \in Places, d \in Places, e \in Places : Before(c, d) /\ Before(d, e) => Before(c, e)
  BY NType DEF Places, Cell, Pos, End, Before

\* Nothing lies between a cell and the one after it.
LEMMA AfterNext ==
  ASSUME SudokuAssumption, NEW c \in Cell
  PROVE  /\ After(c) \in Places
         /\ Before(c, After(c))
         /\ \A d \in Cell : Before(d, After(c)) => Before(d, c) \/ d = c
  BY NType DEF Places, Cell, Pos, End, Before, After

\* FirstEmpty, of any grid.
FirstOf(p) ==
  IF \A c \in Cell : p[c] # 0 THEN End
  ELSE CHOOSE c \in Cell : p[c] = 0 /\ \A d \in Cell : Before(d, c) => p[d] # 0

\* It is End, or the first cell that is empty.
LEMMA FirstOfIs ==
  ASSUME SudokuAssumption, NEW p \in Grid
  PROVE  /\ FirstOf(p) \in Places
         /\ \A d \in Cell : Before(d, FirstOf(p)) => p[d] # 0
         /\ FirstOf(p) # End => p[FirstOf(p)] = 0
  <1>1. CASE \A c \in Cell : p[c] # 0
    BY <1>1 DEF FirstOf, Places
  <1>2. CASE \E c \in Cell : p[c] = 0
    <2> DEFINE Rows == {r \in Pos : \E k \in Pos : p[<<r, k>>] = 0}
    <2>1. Rows \in SUBSET Nat /\ Rows # {}
      BY <1>2 DEF Cell, Pos
    <2>2. PICK r \in Rows : \A s \in Rows : r <= s
      <3> HIDE DEF Rows
      <3> QED BY <2>1, LeastNatural
    <2> DEFINE Columns == {k \in Pos : p[<<r, k>>] = 0}
    <2>3. Columns \in SUBSET Nat /\ Columns # {}
      BY <2>2 DEF Pos
    <2>4. PICK k \in Columns : \A l \in Columns : k <= l
      <3> HIDE DEF Rows, Columns
      <3> QED BY <2>3, LeastNatural
    <2>5. <<r, k>> \in Cell /\ p[<<r, k>>] = 0
      BY <2>2, <2>4 DEF Cell
    <2>6. ASSUME NEW d \in Cell, Before(d, <<r, k>>)
          PROVE  p[d] # 0
      <3>1. d = <<d[1], d[2]>> /\ d[1] \in Pos /\ d[2] \in Pos
        BY DEF Cell
      <3>2. d[1] < r \/ (d[1] = r /\ d[2] < k)
        BY <2>6 DEF Before
      <3>3. CASE d[1] < r
        <4>1. d[1] \notin Rows
          BY <2>2, <3>1, <3>3, NType DEF Pos
        <4> QED
          BY <4>1, <3>1
      <3>4. CASE d[1] = r /\ d[2] < k
        <4>1. d[2] \notin Columns
          BY <2>4, <3>1, <3>4, NType DEF Pos
        <4> QED
          BY <4>1, <3>1, <3>4
      <3> QED
        BY <3>2, <3>3, <3>4
    <2>7. \E c \in Cell : p[c] = 0 /\ \A d \in Cell : Before(d, c) => p[d] # 0
      BY <2>5, <2>6
    <2>8. FirstOf(p) = CHOOSE c \in Cell : p[c] = 0 /\ \A d \in Cell : Before(d, c) => p[d] # 0
      BY <1>2 DEF FirstOf
    <2>9. FirstOf(p) \in Cell /\ p[FirstOf(p)] = 0 /\ \A d \in Cell : Before(d, FirstOf(p)) => p[d] # 0
      BY <2>7, <2>8
    <2> QED
      BY <2>9 DEF Places
  <1> QED
    BY <1>1, <1>2
-----------------------------------------------------------------------------
(* Grids and solutions *)

\* Solutions are full, consistent and keep the givens ...
LEMMA SolutionIs ==
  ASSUME SudokuAssumption, NEW h \in Grid, NEW g \in Solutions(h)
  PROVE  g \in [Cell -> Pos] /\ Consistent(g) /\ Extends(g, h)
  <1>1. Consistent(g) /\ \E f \in [Empties(h) -> Pos] : g = [c \in Cell |-> IF h[c] = 0 THEN f[c] ELSE h[c]]
    BY DEF Solutions
  <1>2. PICK f \in [Empties(h) -> Pos] : g = [c \in Cell |-> IF h[c] = 0 THEN f[c] ELSE h[c]]
    BY <1>1
  <1>3. \A c \in Cell : g[c] \in Pos /\ (h[c] # 0 => g[c] = h[c])
    BY <1>2, NType DEF Grid, Empties, Pos
  <1> QED
    BY <1>1, <1>2, <1>3 DEF Extends

\* ... and a grid like that is one.
LEMMA FullIsSolution ==
  ASSUME SudokuAssumption, NEW h \in Grid, NEW g \in Grid,
         \A c \in Cell : g[c] # 0, Extends(g, h), Consistent(g)
  PROVE  g \in Solutions(h)
  <1> DEFINE f == [c \in Empties(h) |-> g[c]]
  <1>1. f \in [Empties(h) -> Pos]
    BY NType DEF Empties, Grid, Pos
  <1>2. g = [c \in Cell |-> IF h[c] = 0 THEN f[c] ELSE h[c]]
    BY DEF Grid, Empties, Extends
  <1> QED
    BY <1>1, <1>2 DEF Solutions

\* isSafe() says whether a number may be put into a cell.
LEMMA SafeIsConsistent ==
  ASSUME NEW c \in Cell, NEW num, puzzle \in Grid, Consistent(puzzle), IsSafe(c, num)
  PROVE  Consistent([puzzle EXCEPT ![c] = num])
  BY DEF Consistent, IsSafe, Related, Grid

\* A number that is not safe is already in a related cell.
LEMMA UnsafeHasReason ==
  ASSUME NEW c \in Cell, NEW num, ~IsSafe(c, num)
  PROVE  \E d \in Cell : puzzle[d] = num /\ (d = c \/ Related(c, d))
  BY DEF IsSafe, Related

\* Emptying cells keeps a grid consistent.
LEMMA EmptyingIsConsistent ==
  ASSUME NEW S, puzzle \in Grid, Consistent(puzzle)
  PROVE  Consistent([c \in Cell |-> IF c \in S THEN 0 ELSE puzzle[c]])
  BY DEF Consistent, Related, Grid
-----------------------------------------------------------------------------
(* The invariant *)

Call == [cell : Cell, num : 0 .. N]

TypeOK ==
  /\ solver \in {"c++", "lua"} /\ given \in Given /\ puzzle \in Grid
  /\ stack \in Seq(Call) /\ next \in Places
  /\ pc \in {"call", "loop", "solved", "failed"}
  /\ pc = "loop" => Depth > 0
  /\ pc = "failed" => Depth = 0

\* The calls under way fill in empty cells of the puzzle, in order, with the
\* numbers they are at; the one whose loop is under way may hold an earlier one.
OnStack(c) == \E k \in 1 .. Depth : stack[k].cell = c
Stacked ==
  /\ \A j, k \in 1 .. Depth : j < k => Before(stack[j].cell, stack[k].cell)
  /\ \A c \in Cell : ~OnStack(c) => puzzle[c] = given[c]
  /\ \A k \in 1 .. Depth : given[stack[k].cell] = 0
  /\ \A k \in 1 .. Depth : k < Depth \/ pc \in {"call", "solved"} =>
       puzzle[stack[k].cell] = stack[k].num /\ stack[k].num # 0
  /\ pc = "loop" => puzzle[Top.cell] <= Top.num /\ (solver = "lua" => puzzle[Top.cell] = 0)

\* The cells that have been passed are filled.
Filled ==
  /\ pc = "loop" => \A d \in Cell : Before(d, Top.cell) => puzzle[d] # 0
  /\ pc \in {"call", "solved"} =>
       /\ \A d \in Cell : Before(d, next) => puzzle[d] # 0
       /\ Depth > 0 => Before(Top.cell, next)
  /\ pc = "solved" => next = End

\* Grid g agrees with the first k calls of s.
Follows(g, s, k) == \A j \in 1 .. k : g[s[j].cell] = s[j].num

\* No solution has been passed over.
Reachable(g) ==
  \/ pc = "call" /\ Follows(g, stack, Depth)
  \/ \E k \in 1 .. Depth : Follows(g, stack, k - 1) /\ g[stack[k].cell] > stack[k].num
Complete == pc # "solved" => \A g \in Solutions(given) : Reachable(g)

IInv == TypeOK /\ Stacked /\ Filled /\ Consistent(puzzle) /\ Complete

GivenConsistent == \A g \in Given : Consistent(g)

\* The puzzle that was loaded, before the first call.
LEMMA Initially ==
  ASSUME SudokuAssumption, GivenConsistent, Init
  PROVE  IInv
  <1>1. given \in Grid /\ puzzle \in Grid /\ Consistent(puzzle)
    BY DEF Init, SudokuAssumption, GivenConsistent
  <1>2. Depth = 0 /\ stack \in Seq(Call)
    BY DEF Init, Depth
  <1>3. next \in Places /\ \A d \in Cell : Before(d, next) => puzzle[d] # 0
    <2>1. CASE solver = "lua"
      <3>1. next = FirstOf(puzzle)
        BY <2>1 DEF Init, FirstEmpty, FirstOf
      <3> QED
        BY <1>1, <3>1, FirstOfIs
    <2>2. CASE solver # "lua"
      <3>1. next = <<1, 1>> /\ \A d \in Cell : ~Before(d, next)
        BY <2>2, NType DEF Init, Before, Cell, Pos
      <3> QED
        BY <3>1, NType DEF Places, Cell, Pos
    <2> QED
      BY <2>1, <2>2
  <1>4. TypeOK
    BY <1>1, <1>2, <1>3 DEF TypeOK, Init, SudokuAssumption
  <1>5. Stacked
    BY <1>2 DEF Stacked, OnStack, Init
  <1>6. Filled
    BY <1>2, <1>3 DEF Filled, Init
  <1>7. Complete
    BY <1>2 DEF Complete, Reachable, Follows, Init
  <1> QED
    BY <1>1, <1>4, <1>5, <1>6, <1>7 DEF IInv
-----------------------------------------------------------------------------
(* Every step keeps the invariant *)

\* The calls on the stack.
LEMMA CallTypes ==
  ASSUME SudokuAssumption, TypeOK
  PROVE  /\ Depth \in Nat
         /\ \A k \in 1 .. Depth : stack[k] \in Call /\ stack[k].cell \in Cell /\ stack[k].num \in 0 .. N
         /\ Depth > 0 => Top = stack[Depth] /\ Top.cell \in Cell /\ Top.num \in 0 .. N
  <1>1. Depth \in Nat /\ \A k \in 1 .. Depth : stack[k] \in Call
    BY DEF TypeOK, Depth
  <1>2. \A k \in 1 .. Depth : stack[k].cell \in Cell /\ stack[k].num \in 0 .. N
    BY <1>1 DEF Call
  <1> QED
    BY <1>1, <1>2 DEF Top

\* The calls under way are at cells before that of the last.
LEMMA LastIsLast ==
  ASSUME SudokuAssumption, TypeOK, Stacked, NEW k \in 1 .. Depth
  PROVE  k = Depth \/ (k < Depth /\ Before(stack[k].cell, Top.cell))
  BY CallTypes DEF Stacked

\* No cell is left: the call returns true.
LEMMA SucceedKeeps ==
  ASSUME IInv, Succeed
  PROVE  IInv'
  <1>1. TypeOK'
    BY DEF IInv, TypeOK, Succeed, Depth
  <1>2. Stacked'
    BY DEF IInv, Stacked, OnStack, Succeed, Depth, Top
  <1>3. Filled'
    BY DEF IInv, Filled, Succeed, Depth, Top
  <1> QED
    BY <1>1, <1>2, <1>3 DEF IInv, Succeed, Complete, Consistent

\* A cell that is not empty is passed over.
LEMMA SkipKeeps ==
  ASSUME SudokuAssumption, IInv, Skip
  PROVE  IInv'
  <1>1. next \in Cell /\ next' = After(next)
    BY DEF IInv, TypeOK, Skip, Places
  <1>2. TypeOK'
    BY <1>1, AfterNext DEF IInv, TypeOK, Skip, Depth
  <1>3. Stacked'
    BY DEF IInv, Stacked, OnStack, Skip, Depth, Top
  <1>4. Filled'
    <2>1. \A d \in Cell : Before(d, next') => puzzle[d] # 0
      BY <1>1, AfterNext DEF IInv, Filled, Skip
    <2>2. Depth > 0 => Before(Top.cell, next')
      <3>1. ASSUME Depth > 0 PROVE Top.cell \in Places
        BY <3>1, CallTypes DEF IInv, Places
      <3> QED
        BY <1>1, <3>1, AfterNext, CellOrder DEF IInv, Filled, Skip, Places
    <2> QED
      BY <2>1, <2>2 DEF Filled, Skip, Depth, Top
  <1>5. Complete'
    BY DEF IInv, Complete, Reachable, Follows, Skip, Depth
  <1> QED
    BY <1>2, <1>3, <1>4, <1>5 DEF IInv, Skip, Consistent

\* A call enters its loop over numbers.
LEMMA EnterKeeps ==
  ASSUME SudokuAssumption, IInv, Enter
  PROVE  IInv'
  <1> DEFINE new == [cell |-> next, num |-> 0]
  <1>1. next \in Cell /\ puzzle[next] = 0 /\ stack' = Append(stack, new) /\ pc = "call" /\ pc' = "loop"
    BY DEF IInv, TypeOK, Enter, Places
  <1>2. new \in Call /\ stack \in Seq(Call) /\ Depth \in Nat
    BY <1>1, NType DEF Call, IInv, TypeOK, Depth
  <1>3. /\ stack' \in Seq(Call) /\ Depth' = Depth + 1 /\ Top' = new
        /\ \A k \in 1 .. Depth : stack'[k] = stack[k]
        /\ stack'[Depth + 1] = new
    BY <1>1, <1>2 DEF Depth, Top
  <1>4. TypeOK'
    BY <1>1, <1>2, <1>3 DEF IInv, TypeOK, Enter
  <1>5. \A k \in 1 .. Depth : stack[k].cell \in Cell /\ Before(stack[k].cell, next)
    <2> SUFFICES ASSUME NEW k \in 1 .. Depth PROVE stack[k].cell \in Cell /\ Before(stack[k].cell, next)
      OBVIOUS
    <2>1. stack[k].cell \in Cell /\ Top.cell \in Cell /\ Depth > 0
      BY CallTypes DEF IInv
    <2>2. Before(Top.cell, next)
      BY <1>1, <2>1 DEF IInv, Filled
    <2>3. stack[k].cell = Top.cell \/ Before(stack[k].cell, Top.cell)
      BY LastIsLast DEF IInv, Top
    <2> QED
      BY <2>1, <2>2, <2>3, <1>1, CellOrder DEF Places
  <1>6. ~OnStack(next)
    BY <1>1, <1>5, CellOrder DEF OnStack, Places
  <1>7. Stacked'
    <2>1. ASSUME NEW j \in 1 .. Depth', NEW k \in 1 .. Depth', j < k
          PROVE  Before(stack'[j].cell, stack'[k].cell)
      <3>1. j \in 1 .. Depth /\ (k \in 1 .. Depth \/ k = Depth + 1)
        BY <2>1, <1>2, <1>3
      <3>2. CASE k \in 1 .. Depth
        BY <2>1, <3>1, <3>2, <1>3 DEF IInv, Stacked
      <3>3. CASE k = Depth + 1
        BY <3>1, <3>3, <1>3, <1>5
      <3> QED
        BY <3>1, <3>2, <3>3
    <2>2. \A c \in Cell : ~OnStack(c)' => ~OnStack(c)
      BY <1>2, <1>3 DEF OnStack
    <2>3. given[next] = 0
      BY <1>1, <1>6 DEF IInv, Stacked
    <2>4. \A k \in 1 .. Depth' : given[stack'[k].cell] = 0
      BY <1>2, <1>3, <2>3 DEF IInv, Stacked
    <2>5. \A k \in 1 .. Depth' : k < Depth' => puzzle[stack'[k].cell] = stack'[k].num /\ stack'[k].num # 0
      BY <1>1, <1>2, <1>3 DEF IInv, Stacked
    <2>6. puzzle' = puzzle /\ given' = given /\ solver' = solver /\ pc' = "loop"
      BY DEF Enter
    <2>7. puzzle[Top'.cell] = 0 /\ Top'.num = 0
      BY <1>1, <1>3
    <2>8. \A c \in Cell : ~OnStack(c)' => puzzle[c] = given[c]
      BY <2>2 DEF IInv, Stacked
    <2> QED
      BY <2>1, <2>4, <2>5, <2>6, <2>7, <2>8 DEF Stacked
  <1>8. Filled'
    BY <1>1, <1>3 DEF IInv, Filled, Enter
  <1>9. Complete'
    <2> SUFFICES ASSUME NEW g \in Solutions(given) PROVE Reachable(g)'
      BY DEF Complete, Enter
    <2>1. g[next] > 0
      <3>1. g \in [Cell -> Pos]
        BY SolutionIs DEF IInv, TypeOK, SudokuAssumption
      <3> QED
        BY <3>1, <1>1, NType DEF Pos
    <2>2. Reachable(g)
      BY <1>1 DEF IInv, Complete
    <2>3. CASE Follows(g, stack, Depth)
      <3>1. (Depth + 1) - 1 = Depth /\ Follows(g, stack', Depth)
        BY <2>3, <1>2, <1>3 DEF Follows
      <3>2. Depth + 1 \in 1 .. Depth' /\ Follows(g, stack', (Depth + 1) - 1) /\ g[stack'[Depth + 1].cell] > stack'[Depth + 1].num
        BY <2>1, <3>1, <1>2, <1>3
      <3> QED
        BY <3>2 DEF Reachable
    <2>4. CASE \E k \in 1 .. Depth : Follows(g, stack, k - 1) /\ g[stack[k].cell] > stack[k].num
      <3>1. PICK k \in 1 .. Depth : Follows(g, stack, k - 1) /\ g[stack[k].cell] > stack[k].num
        BY <2>4
      <3>2. k \in 1 .. Depth' /\ Follows(g, stack', k - 1) /\ g[stack'[k].cell] > stack'[k].num
        BY <3>1, <1>2, <1>3 DEF Follows
      <3> QED
        BY <3>2 DEF Reachable
    <2> QED
      BY <2>2, <2>3, <2>4 DEF Reachable
  <1> QED
    BY <1>4, <1>7, <1>8, <1>9 DEF IInv, Enter, Consistent

\* What a number that is tried does to the stack.
LEMMA TryStack ==
  ASSUME SudokuAssumption, TypeOK, Try
  PROVE  /\ Depth > 0 /\ Depth' = Depth /\ stack' \in Seq(Call)
         /\ \A k \in 1 .. Depth : stack'[k].cell = stack[k].cell
         /\ \A k \in 1 .. Depth : k # Depth => stack'[k].num = stack[k].num
         /\ Top'.cell = Top.cell /\ Top'.num = Top.num + 1 /\ stack'[Depth].num = Top.num + 1
  <1>1. Depth \in Nat /\ Depth > 0 /\ Top = stack[Depth] /\ Top.num \in 0 .. N
    BY CallTypes DEF TypeOK, Try
  <1>2. stack' = [stack EXCEPT ![Depth].num = Top.num + 1]
    BY DEF Try
  <1>3. stack' = [stack EXCEPT ![Depth] = [stack[Depth] EXCEPT !.num = Top.num + 1]]
    BY <1>2
  <1>4. [stack[Depth] EXCEPT !.num = Top.num + 1] \in Call
    BY <1>1, NType, CallTypes DEF Try, Call
  <1>5. stack' \in Seq(Call) /\ Depth' = Depth
    BY <1>1, <1>3, <1>4 DEF TypeOK, Depth
  <1>6. stack'[Depth] = [stack[Depth] EXCEPT !.num = Top.num + 1]
    BY <1>1, <1>3 DEF TypeOK, Depth
  <1>7. \A k \in 1 .. Depth : k # Depth => stack'[k] = stack[k]
    BY <1>1, <1>3 DEF TypeOK, Depth
  <1>8. stack[Depth] \in Call
    BY <1>1, CallTypes
  <1>9. stack'[Depth].cell = stack[Depth].cell /\ stack'[Depth].num = Top.num + 1
    BY <1>6, <1>8 DEF Call
  <1>10. Top' = stack'[Depth]
    BY <1>5 DEF Top
  <1> QED
    BY <1>1, <1>5, <1>7, <1>9, <1>10

\* A solution that is reachable has a larger number for the last call, or differs
\* from an earlier one.
LEMMA TryComplete ==
  ASSUME SudokuAssumption, IInv, Try
  PROVE  Complete'
  <1> SUFFICES ASSUME NEW g \in Solutions(given) PROVE Reachable(g)'
    BY DEF Complete, Try
  <1>1. g \in [Cell -> Pos] /\ Consistent(g) /\ Extends(g, given)
    BY SolutionIs DEF IInv, TypeOK, SudokuAssumption
  <1>2. /\ Depth > 0 /\ Depth' = Depth /\ Depth \in Nat
        /\ \A k \in 1 .. Depth : stack'[k].cell = stack[k].cell
        /\ \A k \in 1 .. Depth : k # Depth => stack'[k].num = stack[k].num
        /\ Top = stack[Depth] /\ stack'[Depth].num = Top.num + 1
        /\ Top.cell \in Cell /\ Top.num \in 0 .. N
    BY TryStack, CallTypes DEF IInv
  <1>3. PICK k \in 1 .. Depth : Follows(g, stack, k - 1) /\ g[stack[k].cell] > stack[k].num
    <2>1. Reachable(g) /\ pc = "loop"
      BY DEF IInv, Complete, Try
    <2> QED
      BY <2>1 DEF Reachable
  <1>4. Follows(g, stack', k - 1)
    BY <1>2, <1>3 DEF Follows
  <1>5. CASE k # Depth
    BY <1>2, <1>3, <1>4, <1>5 DEF Reachable
  <1>6. CASE k = Depth
    <2>1. g[Top.cell] > Top.num /\ g[Top.cell] \in Pos
      BY <1>1, <1>2, <1>3, <1>6
    <2>2. CASE g[Top.cell] > Top.num + 1
      BY <2>2, <1>2, <1>4, <1>6 DEF Reachable
    <2>3. CASE g[Top.cell] = Top.num + 1
      <3>1. CASE IsSafe(Top.cell, Top.num + 1)
        <4>1. pc' = "call"
          BY <3>1 DEF Try
        <4>2. Follows(g, stack', Depth')
          <5> SUFFICES ASSUME NEW j \in 1 .. Depth PROVE g[stack'[j].cell] = stack'[j].num
            BY <1>2 DEF Follows
          <5>1. CASE j = Depth
            BY <5>1, <2>3, <1>2
          <5>2. CASE j # Depth
            <6>1. j \in 1 .. k - 1
              BY <5>2, <1>2, <1>6
            <6> QED
              BY <6>1, <1>4 DEF Follows
          <5> QED
            BY <5>1, <5>2
        <4> QED
          BY <4>1, <4>2 DEF Reachable
      <3>2. CASE ~IsSafe(Top.cell, Top.num + 1)
        <4>1. PICK d \in Cell : puzzle[d] = Top.num + 1 /\ (d = Top.cell \/ Related(Top.cell, d))
          BY <3>2, <1>2, UnsafeHasReason
        <4>2. d # Top.cell
          <5>1. puzzle[Top.cell] <= Top.num /\ puzzle[Top.cell] \in 0 .. N
            BY <1>2 DEF IInv, Stacked, Try, TypeOK, Grid
          <5> QED
            BY <5>1, <4>1, <1>2, NType
        <4>3. g[d] = puzzle[d]
          <5>1. CASE OnStack(d)
            <6>1. PICK j \in 1 .. Depth : stack[j].cell = d
              BY <5>1 DEF OnStack
            <6>2. j # Depth
              BY <6>1, <4>2, <1>2
            <6>3. puzzle[d] = stack[j].num
              BY <6>1, <6>2, <1>2 DEF IInv, Stacked
            <6>4. j \in 1 .. k - 1
              BY <6>2, <1>2, <1>6
            <6>5. g[stack[j].cell] = stack[j].num
              BY <6>4, <1>3 DEF Follows
            <6> QED
              BY <6>1, <6>3, <6>5
          <5>2. CASE ~OnStack(d)
            <6>1. puzzle[d] = given[d]
              BY <5>2 DEF IInv, Stacked
            <6>2. given[d] # 0
              BY <6>1, <4>1, <1>2
            <6> QED
              BY <6>1, <6>2, <1>1 DEF Extends
          <5> QED
            BY <5>1, <5>2
        <4>4. g[d] = g[Top.cell] /\ g[Top.cell] # 0 /\ Related(Top.cell, d)
          BY <4>1, <4>2, <4>3, <2>3, <1>2
        <4> QED
          BY <4>4, <1>1, <1>2 DEF Consistent
      <3> QED
        BY <3>1, <3>2
    <2> QED
      BY <2>1, <2>2, <2>3, <1>2, NType DEF Pos
  <1> QED
    BY <1>5, <1>6

\* A number is tried, and put in if it is safe.
LEMMA TryKeeps ==
  ASSUME SudokuAssumption, IInv, Try
  PROVE  IInv'
  <1> DEFINE num == Top.num + 1
  <1>1. /\ Depth > 0 /\ Depth' = Depth /\ Depth \in Nat /\ stack' \in Seq(Call)
        /\ \A k \in 1 .. Depth : stack'[k].cell = stack[k].cell
        /\ \A k \in 1 .. Depth : k # Depth => stack'[k].num = stack[k].num
        /\ Top = stack[Depth] /\ stack'[Depth].num = num
        /\ Top'.cell = Top.cell /\ Top'.num = num
        /\ Top.cell \in Cell /\ Top.num \in 0 .. N /\ num \in 1 .. N
    BY TryStack, CallTypes, NType DEF IInv, Try
  <1>2. \A k \in 1 .. Depth : stack[k].cell \in Cell /\ (k # Depth => stack[k].cell # Top.cell)
    BY <1>1, CallTypes, LastIsLast, CellOrder DEF IInv, Places
  <1>3. \A c \in Cell : OnStack(c)' <=> OnStack(c)
    BY <1>1 DEF OnStack
  <1>4. puzzle \in Grid /\ given' = given /\ solver' = solver /\ pc = "loop"
    BY DEF IInv, TypeOK, Try
  <1>5. /\ \A j, k \in 1 .. Depth' : j < k => Before(stack'[j].cell, stack'[k].cell)
        /\ \A k \in 1 .. Depth' : given'[stack'[k].cell] = 0
    BY <1>1, <1>4 DEF IInv, Stacked
  <1>6. \A d \in Cell : Before(d, Top.cell) => puzzle[d] # 0
    BY <1>4 DEF IInv, Filled
  <1>7. OnStack(Top.cell)
    BY <1>1 DEF OnStack
  <1>8. CASE IsSafe(Top.cell, num)
    <2>1. puzzle' = [puzzle EXCEPT ![Top.cell] = num] /\ Recurse(Top.cell) /\ pc' = "call"
      BY <1>8 DEF Try
    <2>2. puzzle' \in Grid /\ puzzle'[Top.cell] = num /\ \A c \in Cell : c # Top.cell => puzzle'[c] = puzzle[c]
      BY <2>1, <1>1, <1>4, NType DEF Grid
    <2>3. /\ next' \in Places /\ Before(Top.cell, next')
          /\ \A d \in Cell : Before(d, next') => puzzle'[d] # 0
      <3>1. CASE solver = "lua"
        <4>1. next' = FirstOf(puzzle')
          BY <2>1, <3>1 DEF Recurse, FirstEmpty, FirstOf
        <4>2. /\ next' \in Places /\ (next' # End => puzzle'[next'] = 0)
              /\ \A d \in Cell : Before(d, next') => puzzle'[d] # 0
          BY <4>1, <2>2, FirstOfIs
        <4>3. CASE next' = End
          BY <4>2, <4>3, <1>1, CellOrder
        <4>4. CASE next' # End
          <5>1. next' \in Cell /\ puzzle'[next'] = 0
            BY <4>2, <4>4 DEF Places
          <5>2. next' # Top.cell
            BY <5>1, <2>2, <1>1
          <5>3. ~Before(next', Top.cell)
            BY <5>1, <5>2, <1>6, <2>2
          <5> QED
            BY <4>2, <5>1, <5>2, <5>3, <1>1, CellOrder
        <4> QED
          BY <4>3, <4>4
      <3>2. CASE solver # "lua"
        <4>1. next' = After(Top.cell)
          BY <2>1, <3>2 DEF Recurse
        <4>2. ASSUME NEW d \in Cell, Before(d, next') PROVE puzzle'[d] # 0
          <5>1. d = Top.cell \/ Before(d, Top.cell)
            BY <4>1, <4>2, <1>1, AfterNext
          <5>2. CASE d = Top.cell
            BY <5>2, <2>2, <1>1
          <5>3. CASE d # Top.cell
            BY <5>1, <5>3, <2>2, <1>6
          <5> QED
            BY <5>2, <5>3
        <4> QED
          BY <4>1, <4>2, <1>1, AfterNext
      <3> QED
        BY <3>1, <3>2
    <2>4. TypeOK'
      BY <1>1, <1>4, <2>1, <2>2, <2>3 DEF IInv, TypeOK
    <2>5. Stacked'
      <3>1. \A c \in Cell : ~OnStack(c)' => puzzle'[c] = given'[c]
        BY <1>3, <1>4, <1>7, <2>2 DEF IInv, Stacked
      <3>2. ASSUME NEW k \in 1 .. Depth'
            PROVE  puzzle'[stack'[k].cell] = stack'[k].num /\ stack'[k].num # 0
        <4>1. CASE k = Depth
          BY <4>1, <1>1, <2>2
        <4>2. CASE k # Depth
          <5>1. k < Depth /\ stack'[k].cell = stack[k].cell /\ stack'[k].num = stack[k].num
            BY <4>2, <1>1
          <5>2. puzzle[stack[k].cell] = stack[k].num /\ stack[k].num # 0
            BY <5>1, <1>1 DEF IInv, Stacked
          <5>3. puzzle'[stack[k].cell] = puzzle[stack[k].cell]
            BY <4>2, <1>1, <1>2, <2>2
          <5> QED
            BY <5>1, <5>2, <5>3
        <4> QED
          BY <4>1, <4>2
      <3> QED
        BY <1>5, <3>1, <3>2, <2>1 DEF Stacked
    <2>6. Filled'
      BY <2>1, <2>3, <1>1 DEF Filled
    <2>7. Consistent(puzzle)'
      <3>1. Consistent([puzzle EXCEPT ![Top.cell] = num])
        BY <1>1, <1>4, <1>8, SafeIsConsistent DEF IInv
      <3> QED
        BY <2>1, <3>1 DEF Consistent
    <2> QED
      BY <2>4, <2>5, <2>6, <2>7, TryComplete DEF IInv
  <1>9. CASE ~IsSafe(Top.cell, num)
    <2>1. puzzle' = puzzle /\ next' = next /\ pc' = "loop"
      BY <1>4, <1>9 DEF Try
    <2>2. TypeOK'
      BY <1>1, <1>4, <2>1 DEF IInv, TypeOK
    <2>3. Stacked'
      <3>1. \A c \in Cell : ~OnStack(c)' => puzzle'[c] = given'[c]
        BY <1>3, <1>4, <2>1 DEF IInv, Stacked
      <3>2. \A k \in 1 .. Depth' : k < Depth' => puzzle'[stack'[k].cell] = stack'[k].num /\ stack'[k].num # 0
        BY <1>1, <2>1 DEF IInv, Stacked
      <3>3. puzzle[Top.cell] \in 0 .. N /\ puzzle[Top.cell] <= Top.num /\ (solver = "lua" => puzzle[Top.cell] = 0)
        BY <1>1, <1>4 DEF IInv, Stacked, Grid
      <3>4. puzzle'[Top'.cell] <= Top'.num /\ (solver' = "lua" => puzzle'[Top'.cell] = 0)
        BY <3>3, <1>1, <1>4, <2>1, NType
      <3> QED
        BY <1>5, <3>1, <3>2, <3>4, <2>1 DEF Stacked
    <2>4. Filled'
      BY <1>1, <1>6, <2>1 DEF Filled
    <2>5. Consistent(puzzle)'
      BY <2>1 DEF IInv, Consistent
    <2> QED
      BY <2>2, <2>3, <2>4, <2>5, TryComplete DEF IInv
  <1> QED
    BY <1>8, <1>9
\* What a call that has tried every number leaves of the stack.
LEMMA BacktrackStack ==
  ASSUME SudokuAssumption, TypeOK, Backtrack
  PROVE  /\ Depth > 0 /\ Depth' = Depth - 1 /\ stack' \in Seq(Call)
         /\ \A k \in 1 .. Depth' : stack'[k] = stack[k] /\ k \in 1 .. Depth
         /\ Depth' > 0 => Top' = stack[Depth - 1] /\ Depth - 1 \in 1 .. Depth
  <1>1. Depth \in Nat /\ Depth > 0 /\ stack \in Seq(Call) /\ stack' = SubSeq(stack, 1, Depth - 1)
    BY CallTypes DEF TypeOK, Backtrack
  <1>2. \A k \in 1 .. Depth - 1 : stack[k] \in Call
    BY <1>1, CallTypes
  <1>3. stack' \in Seq(Call) /\ Depth' = Depth - 1 /\ \A k \in 1 .. Depth - 1 : stack'[k] = stack[k]
    <2>1. Depth - 1 <= Len(stack) /\ Depth - 1 \in Nat
      BY <1>1 DEF Depth
    <2>2. stack' \in Seq(Call) /\ Len(stack') = Depth - 1 /\ \A k \in 1 .. Depth - 1 : stack'[k] = stack[k]
      BY <1>1, <1>2, <2>1, SubSeqProperties
    <2> QED
      BY <2>2 DEF Depth
  <1>4. Top' = stack'[Depth']
    BY DEF Top
  <1> QED
    BY <1>1, <1>3, <1>4

\* A solution that is reachable after all numbers were tried is reachable from a
\* caller.
LEMMA BacktrackComplete ==
  ASSUME SudokuAssumption, IInv, Backtrack
  PROVE  Complete'
  <1> SUFFICES ASSUME NEW g \in Solutions(given) PROVE Reachable(g)'
    BY DEF Complete, Backtrack
  <1>1. g \in [Cell -> Pos]
    BY SolutionIs DEF IInv, TypeOK, SudokuAssumption
  <1>2. /\ Depth > 0 /\ Depth' = Depth - 1 /\ Depth \in Nat /\ Top = stack[Depth] /\ Top.cell \in Cell
        /\ \A k \in 1 .. Depth' : stack'[k] = stack[k]
    BY BacktrackStack, CallTypes DEF IInv
  <1>3. PICK k \in 1 .. Depth : Follows(g, stack, k - 1) /\ g[stack[k].cell] > stack[k].num
    <2>1. Reachable(g) /\ pc = "loop"
      BY DEF IInv, Complete, Backtrack
    <2> QED
      BY <2>1 DEF Reachable
  <1>4. k # Depth
    <2>1. Top.num = N /\ g[Top.cell] \in 1 .. N
      BY <1>1, <1>2 DEF Backtrack, Pos
    <2> QED
      BY <2>1, <1>2, <1>3, NType
  <1>5. k \in 1 .. Depth' /\ stack'[k] = stack[k]
    BY <1>2, <1>4
  <1>6. Follows(g, stack', k - 1)
    <2> SUFFICES ASSUME NEW j \in 1 .. k - 1 PROVE g[stack'[j].cell] = stack'[j].num
      BY DEF Follows
    <2>1. j \in 1 .. Depth' /\ stack'[j] = stack[j]
      BY <1>2, <1>5
    <2> QED
      BY <2>1, <1>3 DEF Follows
  <1> QED
    BY <1>3, <1>5, <1>6 DEF Reachable

\* All numbers were tried: the cell is emptied.
LEMMA BacktrackKeeps ==
  ASSUME SudokuAssumption, IInv, Backtrack
  PROVE  IInv'
  <1> DEFINE emptied == IF solver = "lua" THEN {stack[k].cell : k \in {Depth - 1} \ {0}} ELSE {Top.cell}
  <1>1. /\ Depth > 0 /\ Depth \in Nat /\ Depth' = Depth - 1 /\ stack' \in Seq(Call)
        /\ \A k \in 1 .. Depth' : stack'[k] = stack[k] /\ k \in 1 .. Depth
        /\ Depth' > 0 => Top' = stack[Depth - 1] /\ Depth - 1 \in 1 .. Depth
        /\ Top = stack[Depth] /\ Top.cell \in Cell
    BY BacktrackStack, CallTypes DEF IInv
  <1>2. \A k \in 1 .. Depth : stack[k].cell \in Cell /\ stack[k].num \in 0 .. N
    BY CallTypes DEF IInv
  <1>3. puzzle \in Grid /\ given' = given /\ solver' = solver /\ next' = next /\ solver \in {"c++", "lua"} /\ given \in Given
    BY DEF IInv, TypeOK, Backtrack
  <1>4. pc = "loop" /\ puzzle' = [c \in Cell |-> IF c \in emptied THEN 0 ELSE puzzle[c]]
        /\ pc' = IF Depth = 1 THEN "failed" ELSE "loop"
    BY DEF Backtrack
  <1>5. puzzle' \in Grid
    BY <1>3, <1>4, NType DEF Grid
  <1>6. TypeOK'
    BY <1>1, <1>3, <1>4, <1>5 DEF IInv, TypeOK
  <1>7. Consistent(puzzle')
    <2> HIDE DEF emptied
    <2> QED
      BY <1>3, <1>4, EmptyingIsConsistent DEF IInv
  <1>8. \A k \in 1 .. Depth' : k # Depth' => stack'[k].cell \notin emptied /\ stack'[k].cell \in Cell
    <2> SUFFICES ASSUME NEW k \in 1 .. Depth', k # Depth'
                 PROVE  stack'[k].cell \notin emptied /\ stack'[k].cell \in Cell
      OBVIOUS
    <2>1. k \in 1 .. Depth /\ k < Depth - 1 /\ stack'[k] = stack[k] /\ Depth - 1 \in 1 .. Depth /\ Depth \in 1 .. Depth
      BY <1>1
    <2>2. Before(stack[k].cell, stack[Depth - 1].cell) /\ Before(stack[k].cell, stack[Depth].cell)
      BY <2>1, <1>1 DEF IInv, Stacked
    <2>3. stack[k].cell # stack[Depth - 1].cell /\ stack[k].cell # stack[Depth].cell
      BY <2>1, <2>2, <1>2, CellOrder DEF Places
    <2> QED
      BY <2>1, <2>3, <1>1, <1>2
  <1>9. Stacked'
    <2>1. \A j, k \in 1 .. Depth' : j < k => Before(stack'[j].cell, stack'[k].cell)
      BY <1>1 DEF IInv, Stacked
    <2>2. \A k \in 1 .. Depth' : given'[stack'[k].cell] = 0
      BY <1>1, <1>3 DEF IInv, Stacked
    <2>3. ASSUME NEW c \in Cell, ~OnStack(c)' PROVE puzzle'[c] = given'[c]
      <3>1. CASE c = Top.cell
        <4>1. given[c] = 0
          BY <3>1, <1>1 DEF IInv, Stacked
        <4>2. solver = "lua" => puzzle[c] = 0
          BY <3>1, <1>4 DEF IInv, Stacked
        <4>3. c \in emptied \/ puzzle[c] = 0
          BY <3>1, <4>2
        <4> QED
          BY <4>1, <4>3, <1>3, <1>4
      <3>2. CASE c # Top.cell
        <4>1. \A k \in 1 .. Depth : stack[k].cell # c
          <5> SUFFICES ASSUME NEW k \in 1 .. Depth PROVE stack[k].cell # c
            OBVIOUS
          <5>1. CASE k = Depth
            BY <5>1, <3>2, <1>1
          <5>2. CASE k # Depth
            <6>1. k \in 1 .. Depth' /\ stack'[k] = stack[k]
              BY <5>2, <1>1
            <6> QED
              BY <6>1, <2>3 DEF OnStack
          <5> QED
            BY <5>1, <5>2
        <4>2. puzzle[c] = given[c]
          BY <4>1 DEF IInv, Stacked, OnStack
        <4>3. c \notin emptied
          BY <4>1, <3>2, <1>1
        <4> QED
          BY <4>2, <4>3, <1>3, <1>4
      <3> QED
        BY <3>1, <3>2
    <2>4. ASSUME NEW k \in 1 .. Depth', k < Depth' PROVE puzzle'[stack'[k].cell] = stack'[k].num /\ stack'[k].num # 0
      <3>1. k \in 1 .. Depth /\ k < Depth /\ stack'[k] = stack[k]
        BY <2>4, <1>1
      <3>2. puzzle[stack[k].cell] = stack[k].num /\ stack[k].num # 0
        BY <3>1 DEF IInv, Stacked
      <3>3. puzzle'[stack'[k].cell] = puzzle[stack'[k].cell]
        <4> HIDE DEF emptied
        <4> QED BY <2>4, <1>4, <1>8
      <3> QED
        BY <3>1, <3>2, <3>3
    <2>5. ASSUME pc' = "loop" PROVE puzzle'[Top'.cell] <= Top'.num /\ (solver' = "lua" => puzzle'[Top'.cell] = 0)
      <3>1. Depth' > 0 /\ Depth - 1 \in 1 .. Depth /\ Top' = stack[Depth - 1] /\ Depth - 1 < Depth
        BY <2>5, <1>1, <1>4
      <3>2. puzzle[Top'.cell] = Top'.num /\ Top'.cell \in Cell /\ Top'.num \in 0 .. N
        BY <3>1, <1>2 DEF IInv, Stacked
      <3>3. solver = "lua" => Top'.cell \in emptied
        BY <3>1, <1>1
      <3>4. puzzle'[Top'.cell] = IF Top'.cell \in emptied THEN 0 ELSE puzzle[Top'.cell]
        BY <3>2, <1>4
      <3> HIDE DEF emptied
      <3> QED
        BY <3>2, <3>3, <3>4, <1>3, NType
    <2>6. pc' \notin {"call", "solved"}
      BY <1>4
    <2> QED
      BY <2>1, <2>2, <2>3, <2>4, <2>5, <2>6 DEF Stacked
  <1>10. Filled'
    <2>1. ASSUME pc' = "loop", NEW d \in Cell, Before(d, Top'.cell) PROVE puzzle'[d] # 0
      <3>1. Depth' > 0 /\ Depth - 1 \in 1 .. Depth /\ Top' = stack[Depth - 1] /\ Depth - 1 < Depth
        BY <2>1, <1>1, <1>4
      <3>2. Before(Top'.cell, Top.cell) /\ Top'.cell \in Cell
        BY <3>1, <1>1, <1>2 DEF IInv, Stacked
      <3>3. Before(d, Top.cell)
        BY <3>2, <2>1, <1>1, CellOrder DEF Places
      <3>4. puzzle[d] # 0
        BY <3>3, <1>4 DEF IInv, Filled
      <3>5. d # Top.cell /\ d # stack[Depth - 1].cell
        BY <3>1, <3>2, <3>3, <2>1, <1>1, CellOrder DEF Places
      <3>6. d \notin emptied
        BY <3>1, <3>5
      <3> QED
        BY <3>4, <3>6, <1>4
    <2> QED
      BY <2>1, <1>4 DEF Filled
  <1> QED
    BY <1>6, <1>7, <1>9, <1>10, BacktrackComplete DEF IInv, Consistent

\* Every step keeps the invariant.
LEMMA NextKeeps ==
  ASSUME SudokuAssumption, IInv, [Next]_vars
  PROVE  IInv'
  <1>1. CASE UNCHANGED vars
    BY <1>1 DEF vars, IInv, TypeOK, Stacked, OnStack, Filled, Consistent, Complete, Reachable, Follows, Depth, Top
  <1> QED
    BY <1>1, SucceedKeeps, SkipKeeps, EnterKeeps, TryKeeps, BacktrackKeeps DEF Next
-----------------------------------------------------------------------------
(* What follows *)

\* The invariant says that the answers are right: a board that is solved has no
\* empty cell, and one that is given up on has no call left that could reach a
\* solution.
LEMMA InvariantAnswers ==
  ASSUME SudokuAssumption, IInv
  PROVE  SolvesCorrectly
  <1>1. given \in Grid /\ puzzle \in Grid /\ Depth \in Nat
    BY CallTypes DEF IInv, TypeOK, SudokuAssumption
  <1>2. Extends(puzzle, given)
    <2> SUFFICES ASSUME NEW c \in Cell, given[c] # 0 PROVE puzzle[c] = given[c]
      BY DEF Extends
    <2>1. ~OnStack(c)
      BY DEF OnStack, IInv, Stacked
    <2> QED
      BY <2>1 DEF IInv, Stacked
  <1>3. ASSUME pc = "solved" PROVE puzzle \in Solutions(given)
    <2>1. \A c \in Cell : puzzle[c] # 0
      BY <1>3, CellOrder DEF IInv, Filled
    <2> QED
      BY <2>1, <1>1, <1>2, FullIsSolution DEF IInv
  <1>4. ASSUME pc = "failed" PROVE puzzle = given /\ Solutions(given) = {}
    <2>1. Depth = 0
      BY <1>4 DEF IInv, TypeOK
    <2>2. \A c \in Cell : puzzle[c] = given[c]
      BY <2>1 DEF IInv, Stacked, OnStack
    <2>3. \A g \in Solutions(given) : FALSE
      BY <1>4, <2>1 DEF IInv, Complete, Reachable
    <2> QED
      BY <1>1, <2>2, <2>3 DEF Grid
  <1>5. {c \in Cell : puzzle[c] # given[c]} \subseteq {stack[k].cell : k \in 1 .. Depth}
    BY DEF IInv, Stacked, OnStack
  <1> QED
    BY <1>2, <1>3, <1>4, <1>5 DEF SolvesCorrectly, IInv

\* Both solvers, on boards of any size whose givens do not contradict each
\* other: solve() returns true with a solution, false only when there is none,
\* and never writes over a given.
THEOREM SudokuCorrect == GivenConsistent /\ Spec => []SolvesCorrectly
  <1>1. GivenConsistent /\ Init => IInv
    BY SudokuAssumption, Initially
  <1>2. IInv /\ [Next]_vars => IInv'
    BY SudokuAssumption, NextKeeps
  <1>3. IInv => SolvesCorrectly
    BY SudokuAssumption, InvariantAnswers
  <1> QED
    BY <1>1, <1>2, <1>3, PTL DEF Spec
=============================================================================
