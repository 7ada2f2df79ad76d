------------------------------ MODULE MCBoard ------------------------------
(* Board for boards of every shape up to a size.                           *)
EXTENDS Board

CONSTANT MaxSide   \* bound: the longest side of a board

MCParams == [height : 1 .. MaxSide, width : 1 .. MaxSide]

=============================================================================
