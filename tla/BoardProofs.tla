---------------------------- MODULE BoardProofs ----------------------------
(***************************************************************************)
(* On square boards and boards of one row, of every size that a uint32_t   *)
(* counts, the constructor leaves each position in the cell where          *)
(* GetPosition looks for it.                                               *)
(***************************************************************************)
EXTENDS Board, TLAPS

CellsAreCounted == \A params \in Params : params.height * params.width < Word

HasRows(params) == params.height \in {1, params.width}

(* The loops' variables, and the cells, as they are between two rounds.    *)
BoardTypeOK ==
  /\ mParams \in Params
  /\ mState \in [Cells(mParams) -> [x : Nat, y : Nat]]
  /\ at \in [x : Nat, y : Nat]
  /\ at.x < mParams.width

BoardInv == BoardTypeOK /\ PositionsAreFound

(* Rows of n cells: the first y + 1 of them end before the row after y.    *)
LEMMA RowsInOrder ==
  ASSUME NEW n \in Nat, NEW y \in Nat, NEW z \in Nat, y < z
  PROVE  y * n + n <= z * n
<1>1. PICK k \in Nat : z = y + 1 + k
  <2>1. z - y - 1 \in Nat /\ z = y + 1 + (z - y - 1)
    OBVIOUS
  <2>2. QED
    BY <2>1
<1>2. z * n = y * n + n + k * n
  BY <1>1
<1>3. k * n \in Nat /\ y * n \in Nat
  OBVIOUS
<1>4. QED
  BY <1>2, <1>3

(* Two positions of a board with rows of n cells are in different cells.   *)
LEMMA CellsAreApart ==
  ASSUME NEW n \in Nat,
         NEW x \in Nat, NEW y \in Nat, NEW v \in Nat, NEW w \in Nat,
         x < n, v < n, y * n + x = w * n + v
  PROVE  x = v /\ y = w
<1>1. y * n \in Nat /\ w * n \in Nat
  OBVIOUS
<1>2. CASE y < w
  <2>1. y * n + n <= w * n
    BY <1>2, RowsInOrder
  <2>2. QED
    BY <1>1, <2>1
<1>3. CASE w < y
  <2>1. w * n + n <= y * n
    BY <1>3, RowsInOrder
  <2>2. QED
    BY <1>1, <2>1
<1>4. CASE y = w
  BY <1>1, <1>4
<1>5. QED
  BY <1>2, <1>3, <1>4

(* A valid position of such a board has a cell, and no product wraps.      *)
LEMMA CellIsThere ==
  ASSUME NEW params \in Params, CellsAreCounted, HasRows(params),
         NEW x \in Nat, NEW y \in Nat, IsValidPosition(params, x, y)
  PROVE  /\ Cell(params, x, y) = y * params.height + x
         /\ Cell(params, x, y) \in Cells(params)
<1> DEFINE height == params.height
           width == params.width
<1>1. /\ height \in Nat /\ width \in Nat /\ Word \in Nat \ {0}
      /\ height * width < Word /\ height \in {1, width}
  BY ParamsAssumption DEF CellsAreCounted, HasRows
<1>2. x < width /\ y < height
  BY DEF IsValidPosition
<1> HIDE DEF height, width
<1>3. height * width \in Nat /\ y * height + x \in 0 .. height * width - 1
  <2>1. CASE height = 1
    <3>1. y = 0 /\ height * width = width /\ y * height = 0
      BY <1>1, <1>2, <2>1
    <3>2. QED
      BY <1>1, <1>2, <3>1
  <2>2. CASE height = width
    <3>1. y * width + width <= width * width
      BY <1>1, <1>2, <2>2, RowsInOrder
    <3>2. y * width \in Nat /\ width * width \in Nat
      BY <1>1
    <3>3. QED
      BY <1>1, <1>2, <2>2, <3>1, <3>2
  <2>3. QED
    BY <1>1, <2>1, <2>2
<1>4. ASSUME NEW k \in Nat, k < Word PROVE k % Word = k
  BY <1>1, <1>4
<1>5. /\ (height * width) % Word = height * width
      /\ (y * height + x) % Word = y * height + x
  BY <1>1, <1>3, <1>4
<1>6. QED
  BY <1>3, <1>5 DEF Cell, Cells, height, width

(* Two positions of such a board are in different cells.                   *)
LEMMA PositionsAreApart ==
  ASSUME NEW params \in Params, CellsAreCounted, HasRows(params),
         NEW x \in Nat, NEW y \in Nat, IsValidPosition(params, x, y),
         NEW v \in Nat, NEW w \in Nat, IsValidPosition(params, v, w),
         Cell(params, x, y) = Cell(params, v, w)
  PROVE  x = v /\ y = w
<1> DEFINE height == params.height
           width == params.width
<1>1. height \in Nat /\ width \in Nat /\ height \in {1, width}
  BY ParamsAssumption DEF HasRows
<1>2. x < width /\ y < height /\ v < width /\ w < height
  BY DEF IsValidPosition
<1>3. y * height + x = w * height + v
  BY CellIsThere
<1> HIDE DEF height, width
<1>4. CASE height = 1
  <2>1. y = 0 /\ w = 0 /\ y * height = 0 /\ w * height = 0
    BY <1>2, <1>4
  <2>2. QED
    BY <1>3, <2>1
<1>5. CASE height = width
  <2>1. height \in Nat /\ x < height /\ v < height
    BY <1>1, <1>2, <1>5
  <2>2. QED
    BY <1>3, <2>1, CellsAreApart
<1>6. QED
  BY <1>1, <1>4, <1>5

(* A round of the loops writes one position and spares those before it.    *)
LEMMA WriteKeepsBoardInv ==
  ASSUME CellsAreCounted, BoardInv, WritePosition
  PROVE  BoardInv'
<1> USE DEF BoardInv, BoardTypeOK
<1>1. /\ mParams' = mParams /\ mParams \in Params
      /\ mParams.height \in Nat /\ mParams.width \in Nat
      /\ at.x \in Nat /\ at.y \in Nat
      /\ IsValidPosition(mParams, at.x, at.y)
  BY ParamsAssumption DEF WritePosition, IsValidPosition
<1> DEFINE cell == Cell(mParams, at.x, at.y)
<1>2. mState' = IF cell \in Cells(mParams)
                THEN [mState EXCEPT ![cell] = at]
                ELSE mState
  BY DEF WritePosition
<1>3. at' = IF at.x + 1 < mParams.width
            THEN [x |-> at.x + 1, y |-> at.y]
            ELSE [x |-> 0, y |-> at.y + 1]
  BY DEF WritePosition
<1>4. BoardTypeOK'
  <2>1. mState' \in [Cells(mParams) -> [x : Nat, y : Nat]]
    BY <1>2
  <2>2. at' \in [x : Nat, y : Nat] /\ at'.x < mParams.width
    BY <1>1, <1>3, ParamsAssumption
  <2>3. QED
    BY <1>1, <2>1, <2>2
<1>5. ASSUME HasRows(mParams),
             NEW x \in 0 .. mParams.width - 1,
             NEW y \in 0 .. mParams.height - 1, IsWritten(x, y)'
      PROVE  /\ Cell(mParams, x, y) \in Cells(mParams)
             /\ mState'[Cell(mParams, x, y)] = [x |-> x, y |-> y]
  <2>1. x \in Nat /\ y \in Nat /\ IsValidPosition(mParams, x, y)
    BY <1>1 DEF IsValidPosition
  <2>2. Cell(mParams, x, y) \in Cells(mParams) /\ cell \in Cells(mParams)
    BY <1>1, <1>5, <2>1, CellIsThere
  <2>3. CASE x = at.x /\ y = at.y
    <3>1. at = [x |-> x, y |-> y]
      BY <2>3
    <3>2. Cell(mParams, x, y) = cell
      BY <2>3
    <3>3. QED
      BY <1>2, <2>2, <3>1, <3>2
  <2>4. CASE ~ (x = at.x /\ y = at.y)
    <3>1. IsWritten(x, y)
      BY <1>1, <1>3, <1>5, <2>4 DEF IsWritten, IsValidPosition
    <3>2. mState[Cell(mParams, x, y)] = [x |-> x, y |-> y]
      BY <1>5, <3>1 DEF PositionsAreFound, RowsFit, HasRows, IsFound
    <3>3. Cell(mParams, x, y) # cell
      BY <1>1, <1>5, <2>1, <2>4, PositionsAreApart
    <3>4. QED
      BY <1>2, <2>2, <3>2, <3>3
  <2>5. QED
    BY <2>3, <2>4
<1>6. PositionsAreFound'
  BY <1>1, <1>5 DEF PositionsAreFound, RowsFit, HasRows, IsFound
<1>7. QED
  BY <1>4, <1>6

-----------------------------------------------------------------------------
(* On square boards and boards of one row every position that has been     *)
(* written is found again, in a cell of its own and of the board.          *)
THEOREM BoardsHold ==
  ASSUME CellsAreCounted
  PROVE  Spec => []PositionsAreFound
<1>1. Init => BoardInv
  <2> SUFFICES ASSUME Init PROVE BoardInv
    OBVIOUS
  <2>1. mParams \in [height : Nat \ {0}, width : Nat \ {0}]
    BY ParamsAssumption DEF Init
  <2>2. BoardTypeOK
    BY <2>1, ParamsAssumption DEF Init, BoardTypeOK, NoPosition
  <2>3. PositionsAreFound
    BY <2>1 DEF Init, PositionsAreFound, IsWritten
  <2>4. QED
    BY <2>2, <2>3 DEF BoardInv
<1>2. BoardInv /\ [Next]_vars => BoardInv'
  <2> SUFFICES ASSUME BoardInv, [Next]_vars PROVE BoardInv'
    OBVIOUS
  <2>1. CASE WritePosition
    BY <2>1, WriteKeepsBoardInv
  <2>2. CASE UNCHANGED vars
    BY <2>2 DEF vars, BoardInv, BoardTypeOK, PositionsAreFound, RowsFit,
                IsFound, IsWritten, IsValidPosition, Cell, Cells
  <2>3. QED
    BY <2>1, <2>2 DEF Next
<1>3. BoardInv => PositionsAreFound
  BY DEF BoardInv
<1>4. QED
  BY <1>1, <1>2, <1>3, PTL DEF Spec

=============================================================================
