------------------------------- MODULE Board -------------------------------
(***************************************************************************)
(* The board of Game: the constructor allocates height * width cells and   *)
(* writes its position into each, row after row, through GetPosition.      *)
(***************************************************************************)
EXTENDS Naturals

CONSTANTS
  Params,   \* the sizes of boards, [height, width] (Game::Params)
  Word      \* sizes and cells are uint32_t: 0 .. Word - 1, Word = 2^32

ASSUME ParamsAssumption ==
  /\ Word \in Nat \ {0}
  /\ Params \subseteq [height : 1 .. Word - 1, width : 1 .. Word - 1]

VARIABLES
  mParams,  \* mParams of this game
  mState,   \* mState: the position written into each cell, or NoPosition
  at        \* the loops' [x |-> j, y |-> i]; y = height when they are done

vars == <<mParams, mState, at>>

(* The default of Position, UINT32_MAX twice.                              *)
NoPosition == [x |-> Word - 1, y |-> Word - 1]

Cells(params) == 0 .. ((params.height * params.width) % Word) - 1

IsValidPosition(params, x, y) == x < params.width /\ y < params.height

(* Variant of Cell: the rows are one cell too short.                       *)
CellOfShortRows(params, x, y) == (y * (params.height - 1) + x) % Word

(* GetPosition: the cell of a position.  The height stands where the width *)
(* of a row is wanted.                                                     *)
Cell(params, x, y) == (y * params.height + x) % Word

Init ==
  /\ mParams \in Params
  /\ mState = [c \in Cells(mParams) |-> NoPosition]
  /\ at = [x |-> 0, y |-> 0]

(* A write past the last cell leaves the cells as they are, if nothing     *)
(* worse happens.                                                          *)
WritePosition ==
  /\ at.y < mParams.height
  /\ LET cell == Cell(mParams, at.x, at.y)
     IN  mState' = IF cell \in Cells(mParams)
                   THEN [mState EXCEPT ![cell] = at]
                   ELSE mState
  /\ at' = IF at.x + 1 < mParams.width
           THEN [x |-> at.x + 1, y |-> at.y]
           ELSE [x |-> 0, y |-> at.y + 1]
  /\ UNCHANGED mParams

Next == WritePosition

Spec == Init /\ [][Next]_vars

-----------------------------------------------------------------------------
(* Properties.                                                             *)

(* The positions that the loops have passed.                               *)
IsWritten(x, y) ==
  /\ IsValidPosition(mParams, x, y)
  /\ y < at.y \/ (y = at.y /\ x < at.x)

IsFound(x, y) ==
  /\ Cell(mParams, x, y) \in Cells(mParams)
  /\ mState[Cell(mParams, x, y)] = [x |-> x, y |-> y]

(* The boards whose rows fit, although a row is taken to be as long as the *)
(* board is high.                                                          *)
RowsFit == mParams.height \in {1, mParams.width}

(* "Position in the game" (Game.h:97): on these boards a position that has *)
(* been written is still found where GetPosition looks for it, so that no  *)
(* two positions share a cell and none is past the last cell.              *)
PositionsAreFound ==
  RowsFit =>
    \A x \in 0 .. mParams.width - 1, y \in 0 .. mParams.height - 1 :
      IsWritten(x, y) => IsFound(x, y)

=============================================================================
