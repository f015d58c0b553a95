--------------------------------- MODULE Maze ---------------------------------
(***************************************************************************)
(* The board of the game: the walls boundaryBank.sv puts on the buses      *)
(* xWalls and yWalls, the answer wallVerifiers.sv reads off them (which    *)
(* of the four turns are open on a tile), and the pixel arithmetic that    *)
(* playerMovement.sv and ghostMovement.sv share.                           *)
(*                                                                         *)
(* A coordinate is a number of pixels.  The hardware keeps it in ten bits: *)
(* the upper five are the tile, the lower five the offset in the tile.     *)
(* TILE stands for the 32 pixels of a tile, so that small boards can be    *)
(* checked; a coordinate wraps at 32 tiles whatever TILE is.               *)
(*                                                                         *)
(* Rows and columns of the board are numbered from 1.  Row 0 and column 0  *)
(* are the margin above and left of it, row ROWS+1 and column COLS+1 the   *)
(* margin below and right of it.                                           *)
(***************************************************************************)
EXTENDS Integers

CONSTANTS
    COLS,     \* number of columns (12)
    ROWS,     \* number of rows (12)
    TILE,     \* pixels per tile (32)
    levelX,   \* levelX[l][c]: a wall on line l (0 on top of row 1) of column c
    levelY    \* levelY[r][l]: a wall on line l (0 left of column 1) of row r

\* The tables of the level are total, the board fits the 5-bit tile numbers
\* with room for the sign bit the ghosts compare with, and a tile has at
\* least one pixel that is not a crossroad.
ASSUME MazeAssumption ==
    /\ COLS \in 1..14 /\ ROWS \in 1..14
    /\ TILE \in Nat /\ TILE >= 2
    /\ levelX \in [0..ROWS -> [1..COLS -> BOOLEAN]]
    /\ levelY \in [1..ROWS -> [0..COLS -> BOOLEAN]]

\* The border of the level is closed above, below and on the left.  On the
\* right it is not: rows 6 and 7 of the level have no wall on line 12.
ASSUME BorderAssumption ==
    /\ \A c \in 1..COLS : levelX[0][c] /\ levelX[ROWS][c]
    /\ \A r \in 1..ROWS : levelY[r][0]

-----------------------------------------------------------------------------
(* Directions.  An inertia register pair (posXInertia, posYInertia) only   *)
(* ever holds (0,0), (-1,0), (1,0), (0,-1) or (0,1).                       *)

Directions == {"left", "right", "up", "down"}
Inertias   == Directions \cup {"none"}

Opposite(d) == CASE d = "left" -> "right" [] d = "right" -> "left"
                 [] d = "up" -> "down"    [] d = "down" -> "up"
                 [] OTHER -> "none"

DeltaX(d) == CASE d = "left" -> -1 [] d = "right" -> 1 [] OTHER -> 0
DeltaY(d) == CASE d = "up" -> -1   [] d = "down" -> 1  [] OTHER -> 0

-----------------------------------------------------------------------------
(* Coordinates.                                                            *)

PosMod       == 32 * TILE
Coordinates  == 0..(PosMod - 1)
Tile(p)      == p \div TILE
Aligned(p)   == p % TILE = 0
Add(p, s)    == (p + s) % PosMod

\* crossroadCheck: the lower bits of both coordinates are zero.
Crossroad(x, y) == Aligned(x) /\ Aligned(y)

-----------------------------------------------------------------------------
(* boundaries: with startCheck up, or off the level, every wall is there.  *)

Closed(level, startCheck) == startCheck \/ level = 0

xWalls(closed, line, col) == closed \/ levelX[line][col]
yWalls(closed, row, line) == closed \/ levelY[row][line]

\* Mutant: no way back from the margin on the right.
rowWallVerify_NoMargin(closed, tx, ty) ==
    IF tx = 0 THEN {"right"}
    ELSE IF tx > COLS THEN {}
    ELSE {d \in Directions :
            /\ d = "left"  => ~yWalls(closed, ty, tx - 1)
            /\ d = "right" => ~yWalls(closed, ty, tx)
            /\ d = "up"    => ~xWalls(closed, ty - 1, tx)
            /\ d = "down"  => ~xWalls(closed, ty, tx)}

\* Mutant: the wall below is read off the line above.
rowWallVerify_DownReadsUp(closed, tx, ty) ==
    IF tx = 0 THEN {"right"}
    ELSE IF tx > COLS THEN {"left"}
    ELSE {d \in Directions :
            /\ d = "left"  => ~yWalls(closed, ty, tx - 1)
            /\ d = "right" => ~yWalls(closed, ty, tx)
            /\ d \in {"up", "down"} => ~xWalls(closed, ty - 1, tx)}

\* rowWallVerify: the open turns in a row of the board.
rowWallVerify(closed, tx, ty) ==
    IF tx = 0 THEN {"right"}
    ELSE IF tx > COLS THEN {"left"}
    ELSE {d \in Directions :
            /\ d = "left"  => ~yWalls(closed, ty, tx - 1)
            /\ d = "right" => ~yWalls(closed, ty, tx)
            /\ d = "up"    => ~xWalls(closed, ty - 1, tx)
            /\ d = "down"  => ~xWalls(closed, ty, tx)}

\* wallVerify: the open turns on tile (tx, ty); margins lead back inside.
wallVerify(closed, tx, ty) ==
    IF ty = 0 THEN {"down"}
    ELSE IF ty > ROWS THEN {"up"}
    ELSE rowWallVerify(closed, tx, ty)

-----------------------------------------------------------------------------
(* Places of the level, used to state properties.                          *)

\* A tile a piece may stand on: on the board, or the right margin of a row
\* whose right border is open.
OpenTile(tx, ty) ==
    /\ ty \in 1..ROWS
    /\ \/ tx \in 1..COLS
       \/ tx = COLS + 1 /\ ~levelY[ty][COLS]

\* No wall of the level between tiles (tx, ty) and (tx+1, ty).
OpenToRight(tx, ty) == tx \in 1..COLS /\ ty \in 1..ROWS /\ ~levelY[ty][tx]

\* No wall of the level between tiles (tx, ty) and (tx, ty+1).
OpenToBelow(tx, ty) == tx \in 1..COLS /\ ty \in 1..(ROWS - 1) /\ ~levelX[ty][tx]

\* The pixels of the corridors of the level.
InCorridor(x, y) ==
    \/ Aligned(x) /\ Aligned(y) /\ OpenTile(Tile(x), Tile(y))
    \/ ~Aligned(x) /\ Aligned(y) /\ OpenToRight(Tile(x), Tile(y))
    \/ Aligned(x) /\ ~Aligned(y) /\ OpenToBelow(Tile(x), Tile(y))
=============================================================================
