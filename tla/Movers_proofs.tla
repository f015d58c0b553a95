------------------------------ MODULE Movers_proofs ---------------------------
(***************************************************************************)
(* The player stays in the corridors and the ghosts stay on their tracks:  *)
(* proofs for all boards with a closed border on three sides, all sizes of *)
(* a tile, all start tiles and any number of ghosts.                       *)
(***************************************************************************)
EXTENDS PlayerMovement, GhostMovement, TLAPS

-----------------------------------------------------------------------------
(* Pixels and tiles, for all boards and all sizes of a tile.               *)

\* Tile and offset determine a coordinate.
LEMMA TileValue ==
    ASSUME NEW p \in Int
    PROVE  /\ Tile(p) \in Int /\ p % TILE \in 0..(TILE - 1)
           /\ p = TILE * Tile(p) + (p % TILE)
  BY MazeAssumption, SMT DEF Tile

LEMMA TileUnique ==
    ASSUME NEW q \in Int, NEW r \in 0..(TILE - 1)
    PROVE  Tile(TILE * q + r) = q /\ (TILE * q + r) % TILE = r
  BY MazeAssumption, SMT DEF Tile

\* One pixel on from a tile boundary, and one pixel back.
LEMMA LeaveTile ==
    ASSUME NEW p \in Int, Aligned(p)
    PROVE  /\ Tile(p + 1) = Tile(p) /\ ~Aligned(p + 1)
           /\ Tile(p - 1) = Tile(p) - 1 /\ ~Aligned(p - 1)
<1> DEFINE q == Tile(p)
           r == p % TILE
<1>1. q \in Int /\ p = TILE * q
  <2>1. q \in Int /\ r \in 0..(TILE - 1) /\ p = TILE * q + r
    BY TileValue
  <2>2. r = 0
    BY DEF Aligned
  <2> HIDE DEF q, r
  <2> QED  BY <2>1, <2>2, MazeAssumption
<1>2. p + 1 = TILE * q + 1
  BY <1>1, MazeAssumption
<1>3. p - 1 = TILE * (q - 1) + (TILE - 1)
  BY <1>1, MazeAssumption
<1>4. 1 \in 0..(TILE - 1) /\ TILE - 1 \in 0..(TILE - 1) /\ TILE - 1 # 0 /\ q - 1 \in Int
  BY <1>1, MazeAssumption
<1> HIDE DEF q
<1>5. Tile(p + 1) = q /\ (p + 1) % TILE = 1
  BY <1>1, <1>2, <1>4, TileUnique
<1>6. Tile(p - 1) = q - 1 /\ (p - 1) % TILE = TILE - 1
  BY <1>3, <1>4, TileUnique
<1> QED  BY <1>4, <1>5, <1>6 DEF Aligned, q

\* Between tile boundaries a pixel on leads at most to the next boundary, a
\* pixel back at most to the last one.
LEMMA StayInTile ==
    ASSUME NEW p \in Int, ~Aligned(p)
    PROVE  /\ Tile(p + 1) = IF Aligned(p + 1) THEN Tile(p) + 1 ELSE Tile(p)
           /\ Tile(p - 1) = Tile(p)
<1> DEFINE q == Tile(p)
           r == p % TILE
<1>1. q \in Int /\ r \in 1..(TILE - 1) /\ p = TILE * q + r
  <2>1. q \in Int /\ r \in 0..(TILE - 1) /\ p = TILE * q + r
    BY TileValue
  <2>2. r # 0
    BY DEF Aligned
  <2> HIDE DEF q, r
  <2> QED  BY <2>1, <2>2, MazeAssumption
<1>2. TILE \in Int
  BY MazeAssumption
<1> HIDE DEF q, r
<1>3. Tile(p - 1) = q
  <2>1. r - 1 \in 0..(TILE - 1) /\ p - 1 = TILE * q + (r - 1)
    BY <1>1, <1>2
  <2> QED  BY <1>1, <2>1, TileUnique
<1>4. CASE r = TILE - 1
  <2>1. p + 1 = TILE * (q + 1) + 0 /\ q + 1 \in Int /\ 0 \in 0..(TILE - 1)
    BY <1>1, <1>2, <1>4
  <2>2. Tile(p + 1) = q + 1 /\ (p + 1) % TILE = 0
    BY <2>1, TileUnique
  <2> QED  BY <1>3, <2>2 DEF Aligned, q
<1>5. CASE r # TILE - 1
  <2>1. r + 1 \in 1..(TILE - 1) /\ p + 1 = TILE * q + (r + 1)
    BY <1>1, <1>2, <1>5
  <2>2. Tile(p + 1) = q /\ (p + 1) % TILE = r + 1
    BY <1>1, <2>1, TileUnique
  <2> QED  BY <1>3, <2>1, <2>2 DEF Aligned, q
<1> QED  BY <1>4, <1>5

\* On the board and its margins a step of one pixel does not wrap.
LEMMA AddInBoard ==
    ASSUME NEW p \in Int, Tile(p) \in 0..15, NEW s \in {-1, 0, 1},
           s = -1 => ~(Tile(p) = 0 /\ Aligned(p))
    PROVE  /\ Add(p, s) = p + s
           /\ p \in Coordinates /\ p + s \in Coordinates
           /\ p < 16 * TILE
<1> DEFINE q == Tile(p)
           r == p % TILE
<1>1. q \in 0..15 /\ r \in 0..(TILE - 1) /\ p = TILE * q + r /\ TILE \in Nat /\ TILE >= 2
  BY MazeAssumption, TileValue
<1>2. s = -1 => ~(q = 0 /\ r = 0)
  BY DEF Aligned
<1> HIDE DEF q, r
<1>3. TILE * q >= 0 /\ TILE * q <= 15 * TILE
  BY <1>1
<1>4. p >= 0 /\ p < 16 * TILE
  BY <1>1, <1>3
<1>5. p + s >= 0
  BY <1>1, <1>2, <1>4
<1>6. p + s \in 0..(32 * TILE - 1)
  BY <1>1, <1>4, <1>5
<1>7. (p + s) % (32 * TILE) = p + s
  BY <1>1, <1>6, SMT
<1> QED  BY <1>1, <1>4, <1>6, <1>7 DEF Add, Coordinates, PosMod

\* A start tile: its upper left pixel is on it.
LEMMA TileStart ==
    ASSUME NEW q \in 0..15
    PROVE  /\ q * TILE \in Int /\ Aligned(q * TILE) /\ Tile(q * TILE) = q
           /\ q * TILE \in Coordinates
<1>1. q * TILE = TILE * q + 0 /\ 0 \in 0..(TILE - 1) /\ q * TILE \in Int
  BY MazeAssumption
<1>2. Aligned(q * TILE) /\ Tile(q * TILE) = q
  BY <1>1, TileUnique DEF Aligned
<1> QED  BY <1>1, <1>2, AddInBoard

-----------------------------------------------------------------------------
\* An open turn on a tile of the level leads into a corridor, and a corridor
\* joins two tiles of the level: the border is closed, and the margin on the
\* right only leads back (boundaryBank.sv, wallVerifiers.sv).
LEMMA OpenTurn ==
    ASSUME NEW tx \in Int, NEW ty \in Int, OpenTile(tx, ty),
           NEW closed \in BOOLEAN, NEW d \in wallVerify(closed, tx, ty)
    PROVE  /\ d \in Directions
           /\ d = "left"  => OpenToRight(tx - 1, ty)
           /\ d = "right" => OpenToRight(tx, ty)
           /\ d = "up"    => OpenToBelow(tx, ty - 1)
           /\ d = "down"  => OpenToBelow(tx, ty)
<1>1. wallVerify(closed, tx, ty) = rowWallVerify(closed, tx, ty)
  BY MazeAssumption DEF wallVerify, OpenTile
<1>2. CASE tx = COLS + 1
  <2>1. COLS \in 1..14 /\ ty \in 1..ROWS /\ ~levelY[ty][COLS]
    BY <1>2, MazeAssumption DEF OpenTile
  <2>2. d = "left"
    BY <1>1, <1>2, <2>1 DEF rowWallVerify
  <2>3. OpenToRight(tx - 1, ty)
    BY <1>2, <2>1 DEF OpenToRight
  <2> QED  BY <2>2, <2>3 DEF Directions
<1>3. CASE tx \in 1..COLS
  <2>1. COLS \in 1..14 /\ ROWS \in 1..14 /\ ty \in 1..ROWS
    BY <1>3, MazeAssumption DEF OpenTile
  <2>2. /\ d \in Directions
        /\ d = "left"  => ~levelY[ty][tx - 1]
        /\ d = "right" => ~levelY[ty][tx]
        /\ d = "up"    => ~levelX[ty - 1][tx]
        /\ d = "down"  => ~levelX[ty][tx]
    BY <1>1, <1>3, <2>1 DEF rowWallVerify, xWalls, yWalls
  <2>3. levelX[0][tx] /\ levelX[ROWS][tx] /\ levelY[ty][0]
    BY <1>3, <2>1, BorderAssumption
  <2>4. d = "left" => tx # 1
    BY <2>2, <2>3
  <2>5. d = "up" => ty # 1
    BY <2>2, <2>3
  <2>6. d = "down" => ty # ROWS
    BY <2>2, <2>3
  <2> QED  BY <1>3, <2>1, <2>2, <2>4, <2>5, <2>6 DEF OpenToRight, OpenToBelow
<1> QED  BY <1>2, <1>3 DEF OpenTile

LEMMA CorridorEnds ==
    ASSUME NEW tx \in Int, NEW ty \in Int
    PROVE  /\ OpenToRight(tx, ty) => OpenTile(tx, ty) /\ OpenTile(tx + 1, ty)
           /\ OpenToBelow(tx, ty) => OpenTile(tx, ty) /\ OpenTile(tx, ty + 1)
  BY MazeAssumption DEF OpenToRight, OpenToBelow, OpenTile

\* On the level a coordinate is on one of the tiles 1..15.
LEMMA CorridorTiles ==
    ASSUME NEW x \in Int, NEW y \in Int, InCorridor(x, y)
    PROVE  Tile(x) \in 1..15 /\ Tile(y) \in 1..15
<1>1. COLS \in 1..14 /\ ROWS \in 1..14
  BY MazeAssumption
<1>2. Tile(x) \in 1..COLS + 1 /\ Tile(y) \in 1..ROWS
  <2>1. CASE OpenTile(Tile(x), Tile(y))
    BY <1>1, <2>1 DEF OpenTile
  <2>2. CASE OpenToRight(Tile(x), Tile(y))
    BY <1>1, <2>2 DEF OpenToRight
  <2>3. CASE OpenToBelow(Tile(x), Tile(y))
    BY <1>1, <2>3 DEF OpenToBelow
  <2> QED  BY <2>1, <2>2, <2>3 DEF InCorridor
<1> QED  BY <1>1, <1>2

\* A piece that turns where turns are open and between crossroads follows its
\* corridor stays in the corridors.
LEMMA CorridorStep ==
    ASSUME NEW x \in Int, NEW y \in Int, InCorridor(x, y),
           NEW d \in Inertias, NEW closed \in BOOLEAN,
           Crossroad(x, y) => d = "none" \/ d \in wallVerify(closed, Tile(x), Tile(y)),
           ~Aligned(x) => d \in {"left", "right"},
           ~Aligned(y) => d \in {"up", "down"}
    PROVE  LET nx == Add(x, DeltaX(d))
               ny == Add(y, DeltaY(d))
           IN  /\ nx = x + DeltaX(d) /\ ny = y + DeltaY(d)
               /\ nx \in Coordinates /\ ny \in Coordinates
               /\ InCorridor(nx, ny)
               /\ ~Aligned(nx) => d \in {"left", "right"}
               /\ ~Aligned(ny) => d \in {"up", "down"}
<1> DEFINE nx == x + DeltaX(d)
           ny == y + DeltaY(d)
<1>1. Tile(x) \in 1..15 /\ Tile(y) \in 1..15
  BY CorridorTiles
<1>2. DeltaX(d) \in {-1, 0, 1} /\ DeltaY(d) \in {-1, 0, 1}
  BY DEF DeltaX, DeltaY
<1>3. /\ Add(x, DeltaX(d)) = nx /\ nx \in Coordinates
      /\ Add(y, DeltaY(d)) = ny /\ ny \in Coordinates
  BY <1>1, <1>2, AddInBoard
<1>4. /\ InCorridor(nx, ny)
      /\ ~Aligned(nx) => d \in {"left", "right"}
      /\ ~Aligned(ny) => d \in {"up", "down"}
  <2>1. CASE d = "none"
    BY <2>1 DEF DeltaX, DeltaY
  <2>2. CASE d = "right"
    <3>1. nx = x + 1 /\ ny = y /\ Aligned(y)
      BY <2>2 DEF DeltaX, DeltaY
    <3>2. OpenToRight(Tile(x), Tile(y))
      BY <1>1, <2>2, <3>1, OpenTurn DEF InCorridor, Crossroad
    <3> HIDE DEF nx, ny
    <3>3. CASE Aligned(x)
      BY <2>2, <3>1, <3>2, <3>3, LeaveTile DEF InCorridor
    <3>4. CASE ~Aligned(x)
      BY <1>1, <2>2, <3>1, <3>2, <3>4, StayInTile, CorridorEnds DEF InCorridor
    <3> QED  BY <3>3, <3>4
  <2>3. CASE d = "left"
    <3>1. nx = x - 1 /\ ny = y /\ Aligned(y)
      BY <2>3 DEF DeltaX, DeltaY
    <3> HIDE DEF nx, ny
    <3>2. CASE Aligned(x)
      <4>1. OpenToRight(Tile(x) - 1, Tile(y))
        BY <1>1, <2>3, <3>1, <3>2, OpenTurn DEF InCorridor, Crossroad
      <4> QED  BY <2>3, <3>1, <3>2, <4>1, LeaveTile DEF InCorridor
    <3>3. CASE ~Aligned(x)
      <4>1. OpenToRight(Tile(x), Tile(y))
        BY <3>1, <3>3 DEF InCorridor
      <4> QED  BY <1>1, <2>3, <3>1, <3>3, <4>1, StayInTile, CorridorEnds DEF InCorridor
    <3> QED  BY <3>2, <3>3
  <2>4. CASE d = "down"
    <3>1. nx = x /\ ny = y + 1 /\ Aligned(x)
      BY <2>4 DEF DeltaX, DeltaY
    <3>2. OpenToBelow(Tile(x), Tile(y))
      BY <1>1, <2>4, <3>1, OpenTurn DEF InCorridor, Crossroad
    <3> HIDE DEF nx, ny
    <3>3. CASE Aligned(y)
      BY <2>4, <3>1, <3>2, <3>3, LeaveTile DEF InCorridor
    <3>4. CASE ~Aligned(y)
      BY <1>1, <2>4, <3>1, <3>2, <3>4, StayInTile, CorridorEnds DEF InCorridor
    <3> QED  BY <3>3, <3>4
  <2>5. CASE d = "up"
    <3>1. nx = x /\ ny = y - 1 /\ Aligned(x)
      BY <2>5 DEF DeltaX, DeltaY
    <3> HIDE DEF nx, ny
    <3>2. CASE Aligned(y)
      <4>1. OpenToBelow(Tile(x), Tile(y) - 1)
        BY <1>1, <2>5, <3>1, <3>2, OpenTurn DEF InCorridor, Crossroad
      <4> QED  BY <2>5, <3>1, <3>2, <4>1, LeaveTile DEF InCorridor
    <3>3. CASE ~Aligned(y)
      <4>1. OpenToBelow(Tile(x), Tile(y))
        BY <3>1, <3>3 DEF InCorridor
      <4> QED  BY <1>1, <2>5, <3>1, <3>3, <4>1, StayInTile, CorridorEnds DEF InCorridor
    <3> QED  BY <3>2, <3>3
  <2> QED  BY <2>1, <2>2, <2>3, <2>4, <2>5 DEF Inertias, Directions
<1> QED  BY <1>3, <1>4

-----------------------------------------------------------------------------
(* The player.                                                             *)

PlayerInv == PlayerTypeOK /\ PlayerInMaze

LEMMA PlayerStartInv ==
    /\ PlayerAtStart => PlayerInv
    /\ PlayerReset => PlayerInv'
<1> DEFINE x == PlayerStart[1] * TILE
           y == PlayerStart[2] * TILE
<1>1. /\ PlayerStart[1] \in 1..COLS /\ PlayerStart[1] \in 0..15
      /\ PlayerStart[2] \in 1..ROWS /\ PlayerStart[2] \in 0..15
  <2>1. PlayerStart[1] \in 1..COLS /\ PlayerStart[2] \in 1..ROWS
    BY PlayerStartAssumption
  <2>2. COLS \in 1..14 /\ ROWS \in 1..14
    BY MazeAssumption
  <2> QED  BY <2>1, <2>2
<1>2. /\ x \in Coordinates /\ Aligned(x) /\ Tile(x) = PlayerStart[1]
      /\ y \in Coordinates /\ Aligned(y) /\ Tile(y) = PlayerStart[2]
  BY <1>1, TileStart
<1>3. OpenTile(Tile(x), Tile(y))
  BY <1>1, <1>2 DEF OpenTile
<1> HIDE DEF x, y
<1>4. ASSUME playerX = x, playerY = y, playerInertia = "none"
      PROVE  PlayerInv
  BY <1>2, <1>3, <1>4 DEF PlayerInv, PlayerTypeOK, PlayerInMaze, InCorridor, Inertias
<1>5. ASSUME playerX' = x, playerY' = y, playerInertia' = "none"
      PROVE  PlayerInv'
  BY <1>2, <1>3, <1>5 DEF PlayerInv, PlayerTypeOK, PlayerInMaze, InCorridor, Inertias
<1> QED  BY <1>4, <1>5 DEF PlayerAtStart, PlayerReset, x, y

\* What the key logic of playerMovement.sv:25-139 can choose: an open turn or
\* a stop on a crossroad; on or back between crossroads.
LEMMA PlayerChoice ==
    ASSUME PlayerInv, NEW key \in Keys, NEW closed \in BOOLEAN
    PROVE  LET d == PlayerNextInertia(key, closed)
           IN  /\ d \in Inertias
               /\ Crossroad(playerX, playerY) =>
                    d = "none" \/ d \in wallVerify(closed, Tile(playerX), Tile(playerY))
               /\ ~Aligned(playerX) => d \in {"left", "right"}
               /\ ~Aligned(playerY) => d \in {"up", "down"}
<1> DEFINE open == wallVerify(closed, Tile(playerX), Tile(playerY))
<1>1. CASE Crossroad(playerX, playerY)
  <2>1. open \subseteq Directions
    BY DEF wallVerify, rowWallVerify, Directions
  <2>2. PlayerNextInertia(key, closed) = CrossroadInertia(key, open)
    BY <1>1 DEF PlayerNextInertia
  <2> HIDE DEF open
  <2>3. CrossroadInertia(key, open) \in open \cup {"none"}
    BY DEF CrossroadInertia
  <2> QED  BY <1>1, <2>1, <2>2, <2>3 DEF Crossroad, Inertias, open
<1>2. CASE ~Crossroad(playerX, playerY)
  <2>1. PlayerNextInertia(key, closed) = CorridorInertia(key)
    BY <1>2 DEF PlayerNextInertia
  <2> QED
    BY <1>2, <2>1 DEF CorridorInertia, PlayerInv, PlayerTypeOK, PlayerInMaze,
       Opposite, Inertias, Directions, Keys
<1> QED  BY <1>1, <1>2

LEMMA CoordinatesInt == Coordinates \subseteq Int
  BY MazeAssumption DEF Coordinates, PosMod

LEMMA PlayerStepInv ==
    ASSUME PlayerInv, NEW walls \in SUBSET BOOLEAN, PlayerStep(walls)
    PROVE  PlayerInv'
<1>1. PICK key \in Keys, closed \in walls : PlayerMove(PlayerNextInertia(key, closed))
  BY DEF PlayerStep
<1> DEFINE d == PlayerNextInertia(key, closed)
<1>2. /\ playerX \in Int /\ playerY \in Int /\ InCorridor(playerX, playerY)
      /\ closed \in BOOLEAN
  BY CoordinatesInt DEF PlayerInv, PlayerTypeOK, PlayerInMaze
<1>3. /\ d \in Inertias
      /\ Crossroad(playerX, playerY) =>
           d = "none" \/ d \in wallVerify(closed, Tile(playerX), Tile(playerY))
      /\ ~Aligned(playerX) => d \in {"left", "right"}
      /\ ~Aligned(playerY) => d \in {"up", "down"}
  BY <1>2, PlayerChoice
<1>4. /\ playerInertia' = d
      /\ playerX' = Add(playerX, DeltaX(d))
      /\ playerY' = Add(playerY, DeltaY(d))
  BY <1>1 DEF PlayerMove
<1> HIDE DEF d
<1>5. /\ playerX' \in Coordinates /\ playerY' \in Coordinates
      /\ InCorridor(playerX', playerY')
      /\ ~Aligned(playerX') => d \in {"left", "right"}
      /\ ~Aligned(playerY') => d \in {"up", "down"}
  BY <1>2, <1>3, <1>4, CorridorStep
<1> QED  BY <1>3, <1>4, <1>5 DEF PlayerInv, PlayerTypeOK, PlayerInMaze

LEMMA PlayerNextInv == PlayerInv /\ [PlayerNext]_playerVars => PlayerInv'
<1> SUFFICES ASSUME PlayerInv, [PlayerNext]_playerVars
             PROVE  PlayerInv'
  OBVIOUS
<1>1. CASE PlayerStep(BOOLEAN)
  BY <1>1, PlayerStepInv
<1>2. CASE PlayerReset
  BY <1>2, PlayerStartInv
<1>3. CASE UNCHANGED playerVars
  BY <1>3 DEF playerVars, PlayerInv, PlayerTypeOK, PlayerInMaze
<1> QED  BY <1>1, <1>2, <1>3 DEF PlayerNext

\* A move that ends on a crossroad came out of a corridor, and that corridor is
\* open at both of its ends.
LEMMA WayBackOpen ==
    ASSUME NEW tx \in Int, NEW ty \in Int
    PROVE  /\ OpenToRight(tx, ty) => /\ "right" \in wallVerify(FALSE, tx, ty)
                                     /\ "left" \in wallVerify(FALSE, tx + 1, ty)
           /\ OpenToBelow(tx, ty) => /\ "down" \in wallVerify(FALSE, tx, ty)
                                     /\ "up" \in wallVerify(FALSE, tx, ty + 1)
<1>1. COLS \in 1..14 /\ ROWS \in 1..14
  BY MazeAssumption
<1>2. OpenToRight(tx, ty) => "right" \in wallVerify(FALSE, tx, ty)
  BY <1>1 DEF OpenToRight, wallVerify, rowWallVerify, xWalls, yWalls, Directions
<1>3. OpenToRight(tx, ty) => "left" \in wallVerify(FALSE, tx + 1, ty)
  BY <1>1 DEF OpenToRight, wallVerify, rowWallVerify, xWalls, yWalls, Directions
<1>4. OpenToBelow(tx, ty) => "down" \in wallVerify(FALSE, tx, ty)
  BY <1>1 DEF OpenToBelow, wallVerify, rowWallVerify, xWalls, yWalls, Directions
<1>5. OpenToBelow(tx, ty) => "up" \in wallVerify(FALSE, tx, ty + 1)
  BY <1>1 DEF OpenToBelow, wallVerify, rowWallVerify, xWalls, yWalls, Directions
<1> QED  BY <1>2, <1>3, <1>4, <1>5

LEMMA ArrivalCanTurnBack ==
    ASSUME PlayerInv, NEW walls \in SUBSET BOOLEAN, PlayerStep(walls)
    PROVE  PlayerCanTurnBack'
<1>1. PICK key \in Keys, closed \in walls : PlayerMove(PlayerNextInertia(key, closed))
  BY DEF PlayerStep
<1> DEFINE d  == PlayerNextInertia(key, closed)
           tx == Tile(playerX)
           ty == Tile(playerY)
<1>2. /\ playerX \in Int /\ playerY \in Int /\ InCorridor(playerX, playerY)
      /\ closed \in BOOLEAN /\ tx \in Int /\ ty \in Int
  BY CoordinatesInt, TileValue DEF PlayerInv, PlayerTypeOK, PlayerInMaze
<1>3. /\ d \in Inertias
      /\ Crossroad(playerX, playerY) => d = "none" \/ d \in wallVerify(closed, tx, ty)
      /\ ~Aligned(playerX) => d \in {"left", "right"}
      /\ ~Aligned(playerY) => d \in {"up", "down"}
  BY <1>2, PlayerChoice
<1>4. /\ playerInertia' = d
      /\ playerX' = playerX + DeltaX(d) /\ playerY' = playerY + DeltaY(d)
  <2>1. /\ playerInertia' = d
        /\ playerX' = Add(playerX, DeltaX(d)) /\ playerY' = Add(playerY, DeltaY(d))
    BY <1>1 DEF PlayerMove
  <2> HIDE DEF d
  <2> QED  BY <1>2, <1>3, <2>1, CorridorStep
<1> HIDE DEF d
<1> SUFFICES ASSUME Aligned(playerX'), Aligned(playerY'), d # "none"
             PROVE  Opposite(d) \in wallVerify(FALSE, Tile(playerX'), Tile(playerY'))
  BY <1>4 DEF PlayerCanTurnBack, Crossroad
<1>5. CASE d \in {"left", "right"}
  <2>1. playerY' = playerY /\ Aligned(playerY)
    BY <1>2, <1>4, <1>5 DEF DeltaY
  <2>2. playerX' = playerX + 1 \/ playerX' = playerX - 1
    BY <1>4, <1>5 DEF DeltaX
  <2>3. ~Aligned(playerX)
    BY <1>2, <2>2, LeaveTile
  <2>4. OpenToRight(tx, ty)
    BY <1>2, <2>1, <2>3 DEF InCorridor
  <2>5. CASE d = "right"
    <3>1. Tile(playerX') = tx + 1
      BY <1>2, <1>4, <2>3, <2>5, StayInTile DEF DeltaX
    <3> QED  BY <1>2, <2>1, <2>4, <2>5, <3>1, WayBackOpen DEF Opposite
  <2>6. CASE d = "left"
    <3>1. Tile(playerX') = tx
      <4>1. playerX' = playerX - 1
        BY <1>4, <2>6, <1>2 DEF DeltaX
      <4> QED  BY <1>2, <2>3, <4>1, StayInTile
    <3> QED  BY <1>2, <2>1, <2>4, <2>6, <3>1, WayBackOpen DEF Opposite
  <2> QED  BY <1>5, <2>5, <2>6
<1>6. CASE d \in {"up", "down"}
  <2>1. playerX' = playerX /\ Aligned(playerX)
    BY <1>2, <1>4, <1>6 DEF DeltaX
  <2>2. playerY' = playerY + 1 \/ playerY' = playerY - 1
    BY <1>4, <1>6 DEF DeltaY
  <2>3. ~Aligned(playerY)
    BY <1>2, <2>2, LeaveTile
  <2>4. OpenToBelow(tx, ty)
    BY <1>2, <2>1, <2>3 DEF InCorridor
  <2>5. CASE d = "down"
    <3>1. Tile(playerY') = ty + 1
      BY <1>2, <1>4, <2>3, <2>5, StayInTile DEF DeltaY
    <3> QED  BY <1>2, <2>1, <2>4, <2>5, <3>1, WayBackOpen DEF Opposite
  <2>6. CASE d = "up"
    <3>1. Tile(playerY') = ty
      <4>1. playerY' = playerY - 1
        BY <1>4, <2>6, <1>2 DEF DeltaY
      <4> QED  BY <1>2, <2>3, <4>1, StayInTile
    <3> QED  BY <1>2, <2>1, <2>4, <2>6, <3>1, WayBackOpen DEF Opposite
  <2> QED  BY <1>6, <2>5, <2>6
<1> QED  BY <1>3, <1>5, <1>6 DEF Inertias, Directions

\* On every board the player's registers stay in their ranges ...
THEOREM PlayerTypeCorrect == PlayerSpec => []PlayerTypeOK
<1>1. PlayerInit => PlayerInv
  BY PlayerStartInv DEF PlayerInit
<1>2. PlayerInv => PlayerTypeOK
  BY DEF PlayerInv
<1> QED  BY <1>1, <1>2, PlayerNextInv, PTL DEF PlayerSpec

\* ... and the player stays in the corridors, whatever keys come and however
\* the walls open and close (playerMovement.sv, wallVerifiers.sv).
THEOREM PlayerCorrect == PlayerSpec => []PlayerInMaze
<1>1. PlayerInit => PlayerInv
  BY PlayerStartInv DEF PlayerInit
<1>2. PlayerInv => PlayerInMaze
  BY DEF PlayerInv
<1> QED  BY <1>1, <1>2, PlayerNextInv, PTL DEF PlayerSpec

\* No one-way doors: wherever the player arrives it can go back the way it
\* came (boundaryBank.sv, wallVerifiers.sv).
THEOREM PlayerTurnsBack == PlayerSpec => []PlayerCanTurnBack
<1> DEFINE Inv == PlayerInv /\ PlayerCanTurnBack
<1>1. PlayerInit => Inv
  BY PlayerStartInv DEF PlayerInit, PlayerAtStart, PlayerCanTurnBack
<1>2. Inv /\ [PlayerNext]_playerVars => Inv'
  <2>1. SUFFICES ASSUME Inv, [PlayerNext]_playerVars PROVE PlayerCanTurnBack'
    BY PlayerNextInv
  <2>2. CASE PlayerStep(BOOLEAN)
    BY <2>1, <2>2, ArrivalCanTurnBack
  <2>3. CASE PlayerReset
    BY <2>3 DEF PlayerReset, PlayerCanTurnBack
  <2>4. CASE UNCHANGED playerVars
    BY <2>1, <2>4 DEF playerVars, PlayerCanTurnBack
  <2> QED  BY <2>1, <2>2, <2>3, <2>4 DEF PlayerNext
<1> QED  BY <1>1, <1>2, PTL DEF PlayerSpec

-----------------------------------------------------------------------------
(* The ghosts.                                                             *)

\* In a bend a ghost goes back the way it came exactly on rSelect = 3
\* (ghostMovement.sv:134-283).
LEMMA BendTurn ==
    ASSUME NEW inertia \in Inertias, NEW rSelect \in 0..3,
           NEW a \in Directions, NEW b \in Directions, a # b,
           Opposite(inertia) \in {a, b}
    PROVE  TwoWayTurn({a, b}, inertia, rSelect) = Opposite(inertia) <=> rSelect = 3
<1> DEFINE open == {a, b}
<1>1. \/ open = {"left", "right"} \/ open = {"left", "up"} \/ open = {"left", "down"}
      \/ open = {"right", "up"} \/ open = {"right", "down"} \/ open = {"up", "down"}
  BY DEF Directions
<1>2. inertia \in Directions
  BY DEF Opposite, Inertias, Directions
<1> HIDE DEF open
<1>3. TwoWayTurn(open, inertia, rSelect) = Opposite(inertia) <=> rSelect = 3
  <2> SUFFICES ASSUME Opposite(inertia) \in open
               PROVE  TwoWayTurn(open, inertia, rSelect) = Opposite(inertia) <=> rSelect = 3
    BY DEF open
  <2>1. CASE open = {"left", "right"}
    BY <1>2, <2>1 DEF TwoWayTurn, Opposite, Directions
  <2>2. CASE open = {"left", "up"}
    BY <1>2, <2>2 DEF TwoWayTurn, Opposite, Directions
  <2>3. CASE open = {"left", "down"}
    BY <1>2, <2>3 DEF TwoWayTurn, Opposite, Directions
  <2>4. CASE open = {"right", "up"}
    BY <1>2, <2>4 DEF TwoWayTurn, Opposite, Directions
  <2>5. CASE open = {"right", "down"}
    BY <1>2, <2>5 DEF TwoWayTurn, Opposite, Directions
  <2>6. CASE open = {"up", "down"}
    BY <1>2, <2>6 DEF TwoWayTurn, Opposite, Directions
  <2> QED  BY <1>1, <2>1, <2>2, <2>3, <2>4, <2>5, <2>6
<1> QED  BY <1>3 DEF open

LEMMA BendsTurnRound == GhostsTypeOK => GhostsTurnRoundOnThree
<1> SUFFICES ASSUME GhostsTypeOK, NEW i \in GHOSTS, NEW rSelect \in 0..3,
                    Crossroad(ghosts[i].x, ghosts[i].y),
                    NEW a \in Directions, NEW b \in Directions, a # b,
                    wallVerify(FALSE, Tile(ghosts[i].x), Tile(ghosts[i].y)) = {a, b},
                    CameFrom(ghosts[i]) \in {a, b}
             PROVE  GhostNextInertia(ghosts[i], FALSE, 0, 0, rSelect) = CameFrom(ghosts[i])
                      <=> rSelect = 3
  BY DEF GhostsTurnRoundOnThree
<1> DEFINE g == ghosts[i]
<1>1. g.inertia \in Inertias
  BY DEF GhostsTypeOK, Ghost
<1>2. GhostNextInertia(g, FALSE, 0, 0, rSelect) = GhostTurn({a, b}, g, 0, 0, rSelect)
  BY DEF GhostNextInertia
<1>3. /\ {a, b} # {} /\ {a, b} # Directions
      /\ ~\E d \in Directions : {a, b} = {d}
      /\ ~\E d \in Directions : {a, b} = Directions \ {d}
  BY DEF Directions
<1>4. GhostTurn({a, b}, g, 0, 0, rSelect) = TwoWayTurn({a, b}, g.inertia, rSelect)
  BY <1>3 DEF GhostTurn
<1>5. TwoWayTurn({a, b}, g.inertia, rSelect) = Opposite(g.inertia) <=> rSelect = 3
  BY <1>1, BendTurn DEF CameFrom
<1> QED  BY <1>2, <1>4, <1>5 DEF CameFrom

\* The case split of ghostMovement.sv:113-390 is complete: on some open turns
\* a ghost takes one of them, on none it goes up.
LEMMA GhostTurnOpen ==
    ASSUME NEW open \in SUBSET Directions, NEW g, NEW px, NEW py, NEW rSelect \in 0..3
    PROVE  LET d == GhostTurn(open, g, px, py, rSelect)
           IN  IF open = {} THEN d = "up" ELSE d \in open
<1> DEFINE none   == open = {}
           all    == open = Directions
           one    == \E e \in Directions : open = {e}
           three  == \E e \in Directions : open = Directions \ {e}
           two    == \E a, b \in Directions : a # b /\ open = {a, b}
           d      == GhostTurn(open, g, px, py, rSelect)
<1>1. none \/ all \/ one \/ three \/ two
  <2>1. CASE "left" \in open /\ "right" \in open
    <3>1. \/ open = {"left", "right"}
          \/ open = {"left", "right", "up"}
          \/ open = {"left", "right", "down"}
          \/ open = {"left", "right", "up", "down"}
      BY <2>1 DEF Directions
    <3> QED  BY <3>1 DEF Directions
  <2>2. CASE "left" \in open /\ "right" \notin open
    <3>1. \/ open = {"left"}
          \/ open = {"left", "up"}
          \/ open = {"left", "down"}
          \/ open = {"left", "up", "down"}
      BY <2>2 DEF Directions
    <3> QED  BY <3>1 DEF Directions
  <2>3. CASE "left" \notin open /\ "right" \in open
    <3>1. \/ open = {"right"}
          \/ open = {"right", "up"}
          \/ open = {"right", "down"}
          \/ open = {"right", "up", "down"}
      BY <2>3 DEF Directions
    <3> QED  BY <3>1 DEF Directions
  <2>4. CASE "left" \notin open /\ "right" \notin open
    <3>1. \/ open = {}
          \/ open = {"up"}
          \/ open = {"down"}
          \/ open = {"up", "down"}
      BY <2>4 DEF Directions
    <3> QED  BY <3>1 DEF Directions
  <2> QED  BY <2>1, <2>2, <2>3, <2>4
<1>2. /\ none => ~all /\ ~one /\ ~three
      /\ all => ~one /\ ~three
      /\ one => ~three
      /\ two => ~none /\ ~all /\ ~one /\ ~three
  BY DEF Directions
<1>3. d = CASE none  -> "up"
            [] all   -> FourWayTurn(rSelect)
            [] one   -> CHOOSE e \in open : TRUE
            [] three -> ThreeWayTurn(open, g, px, py)
            [] OTHER -> TwoWayTurn(open, g.inertia, rSelect)
  BY DEF GhostTurn
<1>4. all => FourWayTurn(rSelect) \in open
  BY DEF FourWayTurn, Directions
<1>5. one => (CHOOSE e \in open : TRUE) \in open
  OBVIOUS
<1>6. three => ThreeWayTurn(open, g, px, py) \in open
  BY DEF ThreeWayTurn, Directions
<1>7. two => TwoWayTurn(open, g.inertia, rSelect) \in open
  BY DEF TwoWayTurn, Directions
<1> HIDE DEF none, all, one, three, two, d
<1>8. IF none THEN d = "up" ELSE d \in open
  BY <1>1, <1>2, <1>3, <1>4, <1>5, <1>6, <1>7
<1> QED  BY <1>8 DEF none, d

-----------------------------------------------------------------------------
GhostInv(g) == g \in Ghost /\ GhostOnTrack(g)

LEMMA GhostFields ==
    ASSUME NEW g \in Ghost
    PROVE  /\ g.x \in Int /\ g.y \in Int /\ g.inertia \in Inertias
           /\ g.x \in Coordinates /\ g.y \in Coordinates
  BY MazeAssumption DEF Ghost, Coordinates, PosMod

\* Two of the places of GhostOnTrack, as a shape of their own: the corridors,
\* and the shafts through the walls up to the row above the board.
InShaft(g) ==
    /\ Aligned(g.x)
    /\ \/ Aligned(g.y) /\ Tile(g.x) \in 1..COLS /\ Tile(g.y) = 0
       \/ /\ ~Aligned(g.y) /\ Tile(g.x) \in 1..COLS /\ Tile(g.y) \in 0..(ROWS - 1)
          /\ g.inertia = "up" \/ (g.inertia = "down" /\ Tile(g.y) = 0)

InCorridorAlong(g) ==
    /\ InCorridor(g.x, g.y)
    /\ ~Aligned(g.x) => g.inertia \in {"left", "right"}
    /\ ~Aligned(g.y) => g.inertia \in {"up", "down"}

LEMMA TrackShape ==
    ASSUME NEW g \in Ghost
    PROVE  GhostOnTrack(g) <=> InShaft(g) \/ InCorridorAlong(g)
<1>1. ROWS \in 1..14 /\ COLS \in 1..14
  BY MazeAssumption
<1>2. Tile(g.x) \in Int /\ Tile(g.y) \in Int
  BY GhostFields, TileValue
<1>3. GhostOnTrack(g) => InShaft(g) \/ InCorridorAlong(g)
  BY <1>1, <1>2 DEF GhostOnTrack, InShaft, InCorridorAlong, InCorridor
<1>4. InShaft(g) => GhostOnTrack(g)
  BY <1>1, <1>2 DEF GhostOnTrack, InShaft
<1>5. InCorridorAlong(g) => GhostOnTrack(g)
  BY <1>1, <1>2 DEF GhostOnTrack, InCorridorAlong, InCorridor, OpenToRight, OpenToBelow
<1> QED  BY <1>3, <1>4, <1>5

LEMMA GhostStartTile ==
    /\ GhostStart[1] \in 1..COLS /\ GhostStart[2] \in 1..ROWS
    /\ LET x == GhostStart[1] * TILE
       IN  x \in Int /\ Aligned(x) /\ Tile(x) = GhostStart[1]
<1>1. GhostStart \in (1..COLS) \X (1..ROWS)
  BY GhostAssumption
<1>2. GhostStart[1] \in 1..COLS /\ GhostStart[2] \in 1..ROWS
  BY <1>1
<1>3. GhostStart[1] \in 0..15
  <2>1. COLS \in 1..14
    BY MazeAssumption
  <2> QED  BY <1>2, <2>1
<1> QED  BY <1>2, <1>3, TileStart

LEMMA GhostStartInv == GhostInv(GhostAtStart)
<1> DEFINE x == GhostStart[1] * TILE
           y == GhostStart[2] * TILE
<1>1. /\ GhostStart[1] \in 1..COLS /\ GhostStart[1] \in 0..15
      /\ GhostStart[2] \in 1..ROWS /\ GhostStart[2] \in 0..15
  <2>1. GhostStart \in (1..COLS) \X (1..ROWS)
    BY GhostAssumption
  <2>2. COLS \in 1..14 /\ ROWS \in 1..14
    BY MazeAssumption
  <2> QED  BY <2>1, <2>2
<1>2. /\ x \in Coordinates /\ Aligned(x) /\ Tile(x) = GhostStart[1]
      /\ y \in Coordinates /\ Aligned(y) /\ Tile(y) = GhostStart[2]
  BY <1>1, TileStart
<1>3. OpenTile(Tile(x), Tile(y))
  BY <1>1, <1>2 DEF OpenTile
<1> HIDE DEF x, y
<1>4. GhostInv([x |-> x, y |-> y, inertia |-> "none"])
  BY <1>2, <1>3 DEF GhostInv, Ghost, GhostOnTrack, Inertias
<1> QED  BY <1>4 DEF GhostAtStart, x, y

\* One pixel up or down inside the shaft of a column.
LEMMA ShaftStep ==
    ASSUME NEW g \in Ghost, Aligned(g.x), Tile(g.x) \in 1..COLS, NEW d \in {"up", "down"},
           \/ d = "up" /\ Aligned(g.y) /\ Tile(g.y) \in 1..ROWS
           \/ d = "up" /\ ~Aligned(g.y) /\ Tile(g.y) \in 0..(ROWS - 1)
           \/ d = "down" /\ Tile(g.y) = 0
    PROVE  GhostInv(GhostMove(g, d))
<1> DEFINE h == GhostMove(g, d)
<1>1. g.x \in Int /\ g.y \in Int /\ COLS \in 1..14 /\ ROWS \in 1..14
  BY GhostFields, MazeAssumption
<1>2. Tile(g.x) \in 0..15 /\ Tile(g.y) \in 0..15
  BY <1>1
<1>3. /\ h.x = g.x /\ h.x \in Coordinates /\ h.inertia = d
      /\ h.y = g.y + DeltaY(d) /\ h.y \in Coordinates
  <2>1. DeltaX(d) = 0 /\ DeltaY(d) \in {-1, 0, 1}
    BY DEF DeltaX, DeltaY
  <2>2. DeltaY(d) = -1 => ~(Tile(g.y) = 0 /\ Aligned(g.y))
    BY <1>1 DEF DeltaY
  <2>3. Add(g.x, 0) = g.x + 0 /\ g.x \in Coordinates
    BY <1>1, <1>2, AddInBoard
  <2>4. Add(g.y, DeltaY(d)) = g.y + DeltaY(d) /\ g.y + DeltaY(d) \in Coordinates
    BY <1>1, <1>2, <2>1, <2>2, AddInBoard
  <2> QED  BY <1>1, <2>1, <2>3, <2>4 DEF GhostMove
<1>4. h \in Ghost
  BY <1>3 DEF GhostMove, Ghost, Inertias, Directions
<1> SUFFICES GhostInv(h)
  OBVIOUS
<1> HIDE DEF h
<1>5. Tile(h.x) = Tile(g.x) /\ Tile(h.x) \in 1..COLS /\ Aligned(h.x)
  BY <1>3
<1>6. InShaft(h) \/ (Aligned(h.y) /\ OpenTile(Tile(h.x), Tile(h.y))) => GhostInv(h)
  BY <1>4, <1>5, TrackShape DEF GhostInv, GhostOnTrack
<1>7. CASE d = "up"
  <2>1. h.y = g.y - 1
    BY <1>1, <1>3, <1>7 DEF DeltaY
  <2>2. CASE Aligned(g.y)
    <3>1. Tile(h.y) = Tile(g.y) - 1 /\ ~Aligned(h.y)
      BY <1>1, <2>1, <2>2, LeaveTile
    <3>2. Tile(h.y) \in 0..(ROWS - 1)
      BY <1>1, <1>7, <2>2, <3>1
    <3> QED  BY <1>3, <1>7, <1>5, <1>6, <3>1, <3>2 DEF InShaft
  <2>3. CASE ~Aligned(g.y)
    <3>1. Tile(h.y) = Tile(g.y) /\ Tile(h.y) \in 0..(ROWS - 1)
      BY <1>1, <1>7, <2>1, <2>3, StayInTile
    <3>2. CASE Aligned(h.y)
      <4>1. OpenTile(Tile(h.x), Tile(h.y)) \/ Tile(h.y) = 0
        BY <1>1, <1>5, <3>1 DEF OpenTile
      <4> QED  BY <1>5, <1>6, <3>2, <4>1 DEF InShaft
    <3>3. CASE ~Aligned(h.y)
      BY <1>3, <1>7, <1>5, <1>6, <3>1, <3>3 DEF InShaft
    <3> QED  BY <3>2, <3>3
  <2> QED  BY <2>2, <2>3
<1>8. CASE d = "down"
  <2>1. h.y = g.y + 1 /\ Tile(g.y) = 0
    BY <1>1, <1>3, <1>8 DEF DeltaY
  <2>2. Tile(h.y) = IF Aligned(h.y) THEN 1 ELSE 0
    <3>1. CASE Aligned(g.y)
      BY <1>1, <2>1, <3>1, LeaveTile
    <3>2. CASE ~Aligned(g.y)
      BY <1>1, <2>1, <3>2, StayInTile
    <3> QED  BY <3>1, <3>2
  <2>3. Aligned(h.y) => OpenTile(Tile(h.x), Tile(h.y))
    BY <1>1, <1>5, <2>2 DEF OpenTile
  <2> QED  BY <1>1, <1>3, <1>8, <1>5, <1>6, <2>2, <2>3 DEF InShaft
<1> QED  BY <1>7, <1>8

\* Whatever a ghost sees, its next turn keeps it on its track, and it moves.
LEMMA GhostStepInv ==
    ASSUME NEW g, GhostInv(g), NEW walls \in SUBSET BOOLEAN, NEW places,
           NEW d \in GhostInertias(g, walls, places)
    PROVE  d \in Directions /\ GhostInv(GhostMove(g, d))
<1>1. PICK closed \in walls, p \in places, rSelect \in 0..3 :
           d = GhostNextInertia(g, closed, p[1], p[2], rSelect)
  BY DEF GhostInertias
<1> DEFINE tx   == Tile(g.x)
           ty   == Tile(g.y)
           open == wallVerify(closed, tx, ty)
           h    == GhostMove(g, d)
<1>2. /\ g \in Ghost /\ GhostOnTrack(g) /\ closed \in BOOLEAN
      /\ g.x \in Int /\ g.y \in Int /\ g.inertia \in Inertias
      /\ COLS \in 1..14 /\ ROWS \in 1..14 /\ tx \in Int /\ ty \in Int
  BY GhostFields, MazeAssumption, TileValue DEF GhostInv
<1>3. open \in SUBSET Directions
  BY DEF wallVerify, rowWallVerify, Directions
<1>4. Crossroad(g.x, g.y) => IF open = {} THEN d = "up" ELSE d \in open
  BY <1>1, <1>3, GhostTurnOpen DEF GhostNextInertia
<1>5. ~Crossroad(g.x, g.y) => d = g.inertia
  BY <1>1 DEF GhostNextInertia
<1>6. d \in Directions
  <2>1. CASE Crossroad(g.x, g.y)
    BY <1>3, <1>4, <2>1 DEF Directions
  <2>2. CASE ~Crossroad(g.x, g.y)
    BY <1>2, <1>5, <2>2 DEF GhostOnTrack, Crossroad, Directions
  <2> QED  BY <2>1, <2>2
<1>7. CASE InCorridorAlong(g) /\ (Crossroad(g.x, g.y) => d \in open)
  <2>1. /\ h.x \in Coordinates /\ h.y \in Coordinates
        /\ InCorridor(h.x, h.y) /\ h.inertia = d
        /\ ~Aligned(h.x) => d \in {"left", "right"}
        /\ ~Aligned(h.y) => d \in {"up", "down"}
    <3>1. d \in Inertias
      BY <1>6 DEF Inertias
    <3>2. /\ ~Aligned(g.x) => d \in {"left", "right"}
          /\ ~Aligned(g.y) => d \in {"up", "down"}
      BY <1>5, <1>7 DEF InCorridorAlong, Crossroad
    <3> QED
      BY <1>2, <1>7, <3>1, <3>2, CorridorStep DEF InCorridorAlong, GhostMove
  <2>2. h \in Ghost
    BY <1>6, <2>1 DEF GhostMove, Ghost, Inertias
  <2> HIDE DEF h
  <2>3. InCorridorAlong(h)
    BY <2>1 DEF InCorridorAlong
  <2>4. GhostInv(h)
    BY <2>2, <2>3, TrackShape DEF GhostInv
  <2> QED  BY <1>6, <2>4 DEF h
<1>8. CASE Crossroad(g.x, g.y) /\ open = {}
  <2>1. d = "up"
    BY <1>4, <1>8
  <2>2. tx \in 1..COLS /\ ty \in 1..ROWS
    <3>1. OpenTile(tx, ty) \/ (tx \in 1..COLS /\ ty = 0)
      BY <1>2, <1>8 DEF GhostOnTrack, Crossroad
    <3>2. ty # 0 /\ tx # COLS + 1
      BY <1>2, <1>8 DEF wallVerify, rowWallVerify
    <3> QED  BY <1>2, <3>1, <3>2 DEF OpenTile
  <2> HIDE DEF tx, ty
  <2> QED  BY <1>2, <1>6, <1>8, <2>1, <2>2, ShaftStep DEF Crossroad, tx, ty
<1>9. CASE InShaft(g)
  <2>1. CASE Aligned(g.y)
    <3>1. tx \in 1..COLS /\ ty = 0 /\ Aligned(g.x)
      BY <1>9, <2>1 DEF InShaft
    <3>2. open = {"down"}
      BY <3>1 DEF wallVerify
    <3>3. d = "down"
      BY <1>4, <2>1, <3>1, <3>2 DEF Crossroad
    <3> QED  BY <1>2, <1>6, <3>1, <3>3, ShaftStep
  <2>2. CASE ~Aligned(g.y)
    <3>1. /\ tx \in 1..COLS /\ ty \in 0..(ROWS - 1) /\ Aligned(g.x)
          /\ d = "up" \/ (d = "down" /\ ty = 0)
      BY <1>5, <1>9, <2>2 DEF InShaft, Crossroad
    <3> QED  BY <1>2, <1>6, <2>2, <3>1, ShaftStep
  <2> QED  BY <2>1, <2>2
<1> QED
  <2>1. InShaft(g) \/ InCorridorAlong(g)
    BY <1>2, TrackShape
  <2>2. Crossroad(g.x, g.y) => open = {} \/ d \in open
    BY <1>4
  <2> QED  BY <2>1, <2>2, <1>7, <1>8, <1>9

\* A ghost is never left of the board nor past its right margin, and goes
\* down from the row above it: its coordinates do not wrap.
LEMMA GhostTiles ==
    ASSUME NEW g, GhostInv(g)
    PROVE  /\ g.x \in 0..(16 * TILE - 1) /\ g.y \in 0..(16 * TILE - 1)
           /\ Tile(g.x) \in 1..15 /\ Tile(g.y) \in 0..15
<1>1. /\ g \in Ghost /\ GhostOnTrack(g) /\ g.x \in Int /\ g.y \in Int
      /\ g.x \in Coordinates /\ g.y \in Coordinates
  BY GhostFields DEF GhostInv
<1>2. COLS \in 1..14 /\ ROWS \in 1..14
  BY MazeAssumption
<1>3. InShaft(g) \/ InCorridorAlong(g)
  BY <1>1, TrackShape
<1>4. Tile(g.x) \in 1..15 /\ Tile(g.y) \in 0..15
  <2>1. CASE InShaft(g)
    BY <1>2, <2>1 DEF InShaft
  <2>2. CASE InCorridorAlong(g)
    BY <1>1, <2>2, CorridorTiles DEF InCorridorAlong
  <2> QED  BY <1>3, <2>1, <2>2
<1>5. g.x < 16 * TILE /\ g.y < 16 * TILE
  BY <1>1, <1>4, AddInBoard
<1>6. g.x >= 0 /\ g.y >= 0
  BY <1>1, MazeAssumption DEF Coordinates, PosMod
<1>7. 16 * TILE \in Int
  BY MazeAssumption
<1> QED  BY <1>1, <1>4, <1>5, <1>6, <1>7

LEMMA GhostMoves ==
    ASSUME NEW g, GhostInv(g), NEW walls \in SUBSET BOOLEAN, NEW places,
           NEW d \in GhostInertias(g, walls, places)
    PROVE  LET h == GhostMove(g, d)
           IN  /\ d \in Directions /\ h.inertia = d
               /\ h.x = g.x + DeltaX(d) /\ h.y = g.y + DeltaY(d)
<1>1. PICK closed \in walls, p \in places, rSelect \in 0..3 :
           d = GhostNextInertia(g, closed, p[1], p[2], rSelect)
  BY DEF GhostInertias
<1>2. /\ Tile(g.x) \in 1..15 /\ Tile(g.y) \in 0..15 /\ d \in Directions
      /\ g \in Ghost /\ GhostOnTrack(g) /\ g.x \in Int /\ g.y \in Int
  BY GhostTiles, GhostStepInv, GhostFields DEF GhostInv
<1>3. Tile(g.y) = 0 /\ Aligned(g.y) => d = "down"
  <2> SUFFICES ASSUME Tile(g.y) = 0, Aligned(g.y)
               PROVE  d = "down"
    OBVIOUS
  <2>1. Aligned(g.x)
    BY <1>2, MazeAssumption DEF GhostOnTrack, OpenToRight
  <2>2. wallVerify(closed, Tile(g.x), Tile(g.y)) = {"down"}
    BY DEF wallVerify
  <2>3. d = GhostTurn({"down"}, g, p[1], p[2], rSelect)
    BY <1>1, <2>1, <2>2 DEF GhostNextInertia, Crossroad
  <2>4. GhostTurn({"down"}, g, p[1], p[2], rSelect) \in {"down"}
    BY GhostTurnOpen DEF Directions
  <2> QED  BY <2>3, <2>4
<1>4. /\ DeltaX(d) \in {-1, 0, 1} /\ DeltaY(d) \in {-1, 0, 1}
      /\ DeltaY(d) = -1 => d = "up"
  BY DEF DeltaX, DeltaY
<1>5. Add(g.x, DeltaX(d)) = g.x + DeltaX(d)
  BY <1>2, <1>4, AddInBoard
<1>6. Add(g.y, DeltaY(d)) = g.y + DeltaY(d)
  BY <1>2, <1>3, <1>4, AddInBoard
<1> QED  BY <1>2, <1>5, <1>6 DEF GhostMove

\* A ghost never rests (ghostMovement.sv:113-404): wherever it is, with walls
\* open or closed and the player anywhere, an edge of its clock finds it a turn
\* and moves it one pixel, and no coordinate wraps on the way.
THEOREM GhostsMove ==
    ASSUME NEW places
    PROVE  GhostsSpec(places) => GhostsNeverRest
<1> DEFINE Inv   == ghosts \in [GHOSTS -> Ghost] /\ \A i \in GHOSTS : GhostInv(ghosts[i])
           moved == \/ ghosts' = [i \in GHOSTS |-> GhostAtStart]
                    \/ \A i \in GHOSTS : Moved(ghosts[i], ghosts'[i])
<1>1. GhostsInit => Inv
  BY GhostStartInv DEF GhostsInit, GhostInv
<1>2. Inv /\ [GhostsNext(places)]_ghosts => Inv' /\ [moved]_ghosts
  <2>1. CASE UNCHANGED ghosts
    BY <2>1
  <2>2. CASE GhostsReset
    BY <2>2, GhostStartInv DEF GhostsReset, GhostInv
  <2>3. CASE Inv /\ GhostsStep(BOOLEAN, places, {})
    <3>1. PICK d \in [GHOSTS -> Inertias] :
              /\ \A i \in GHOSTS : d[i] \in GhostInertias(ghosts[i], BOOLEAN, places)
              /\ ghosts' = [i \in GHOSTS |-> GhostMove(ghosts[i], d[i])]
      BY <2>3 DEF GhostsStep
    <3>2. ASSUME NEW i \in GHOSTS
          PROVE  GhostInv(ghosts'[i]) /\ Moved(ghosts[i], ghosts'[i])
      <4> DEFINE g == ghosts[i]
                 h == ghosts'[i]
      <4>1. /\ GhostInv(g) /\ BOOLEAN \in SUBSET BOOLEAN
            /\ d[i] \in GhostInertias(g, BOOLEAN, places) /\ h = GhostMove(g, d[i])
        BY <2>3, <3>1
      <4> HIDE DEF g, h
      <4>2. /\ GhostInv(h) /\ d[i] \in Directions
            /\ h.x = g.x + DeltaX(d[i]) /\ h.y = g.y + DeltaY(d[i])
        BY <4>1, GhostStepInv, GhostMoves
      <4>3. g.x \in Int /\ g.y \in Int
        BY <4>1, GhostFields DEF GhostInv
      <4>4. \/ DeltaX(d[i]) = 0 /\ DeltaY(d[i]) \in {1, -1}
            \/ DeltaY(d[i]) = 0 /\ DeltaX(d[i]) \in {1, -1}
        BY <4>2 DEF Directions, DeltaX, DeltaY
      <4>5. h.x - g.x = DeltaX(d[i]) /\ h.y - g.y = DeltaY(d[i])
        BY <4>2, <4>3, <4>4
      <4>6. Moved(g, h)
        BY <4>4, <4>5 DEF Moved
      <4> QED  BY <4>2, <4>6 DEF g, h
    <3>3. \A i \in GHOSTS : ghosts'[i] \in Ghost
      BY <3>2 DEF GhostInv
    <3> QED  BY <3>1, <3>2, <3>3
  <2> QED  BY <2>1, <2>2, <2>3 DEF GhostsNext
<1> QED  BY <1>1, <1>2, PTL DEF GhostsSpec, GhostsNeverRest

\* Closed walls: a ghost on a tile of the board or above it stays in its column.
LEMMA ClosedGoesUpOrDown ==
    ASSUME NEW g, GhostInv(g), Aligned(g.x), Tile(g.x) \in 1..COLS, NEW places,
           NEW walls \in SUBSET BOOLEAN, \A closed \in walls : closed,
           NEW d \in GhostInertias(g, walls, places)
    PROVE  d \in {"up", "down"}
<1>1. PICK closed \in walls, p \in places, rSelect \in 0..3 :
           d = GhostNextInertia(g, closed, p[1], p[2], rSelect)
  BY DEF GhostInertias
<1>2. GhostOnTrack(g) /\ Tile(g.y) \in 0..15 /\ COLS \in 1..14 /\ ROWS \in 1..14
  BY GhostTiles, MazeAssumption DEF GhostInv
<1>3. CASE Aligned(g.y)
  <2> DEFINE open == wallVerify(closed, Tile(g.x), Tile(g.y))
  <2>1. open \subseteq {"up", "down"}
    BY <1>1, <1>2 DEF wallVerify, rowWallVerify, xWalls, yWalls, Directions
  <2>2. d = GhostTurn(open, g, p[1], p[2], rSelect)
    BY <1>1, <1>3 DEF GhostNextInertia, Crossroad
  <2> HIDE DEF open
  <2>3. IF open = {} THEN d = "up" ELSE d \in open
    BY <2>1, <2>2, GhostTurnOpen DEF Directions
  <2> QED  BY <2>1, <2>3
<1>4. CASE ~Aligned(g.y)
  BY <1>1, <1>2, <1>4 DEF GhostNextInertia, Crossroad, GhostOnTrack
<1> QED  BY <1>3, <1>4

-----------------------------------------------------------------------------
(* Ghosts in play: walls open, and closed-in tiles out of reach.           *)

WayOut(g) == wallVerify(FALSE, Tile(g.x), Tile(g.y)) # {}

AtLarge(g) ==
    \/ g.x = GhostStart[1] * TILE
    \/ InCorridorAlong(g) /\ (Crossroad(g.x, g.y) => WayOut(g))

\* Both ends of a corridor have a way out: into the corridor.
LEMMA CorridorWayOut ==
    ASSUME NEW tx \in Int, NEW ty \in Int
    PROVE  /\ OpenToRight(tx, ty) => /\ wallVerify(FALSE, tx, ty) # {}
                                     /\ wallVerify(FALSE, tx + 1, ty) # {}
           /\ OpenToBelow(tx, ty) => /\ wallVerify(FALSE, tx, ty) # {}
                                     /\ wallVerify(FALSE, tx, ty + 1) # {}
<1>1. COLS \in 1..14 /\ ROWS \in 1..14
  BY MazeAssumption
<1>2. OpenToRight(tx, ty) => "right" \in wallVerify(FALSE, tx, ty)
  BY <1>1 DEF OpenToRight, wallVerify, rowWallVerify, yWalls, Directions
<1>3. OpenToRight(tx, ty) => "left" \in wallVerify(FALSE, tx + 1, ty)
  BY <1>1 DEF OpenToRight, wallVerify, rowWallVerify, yWalls, Directions
<1>4. OpenToBelow(tx, ty) => "down" \in wallVerify(FALSE, tx, ty)
  BY <1>1 DEF OpenToBelow, wallVerify, rowWallVerify, xWalls, Directions
<1>5. OpenToBelow(tx, ty) => "up" \in wallVerify(FALSE, tx, ty + 1)
  BY <1>1 DEF OpenToBelow, wallVerify, rowWallVerify, xWalls, Directions
<1> QED  BY <1>2, <1>3, <1>4, <1>5

\* A ghost that takes an open turn, or follows its corridor, comes to a tile
\* with a way out.
LEMMA CorridorArrival ==
    ASSUME NEW g \in Ghost, InCorridorAlong(g), NEW d \in Directions,
           Crossroad(g.x, g.y) => d \in wallVerify(FALSE, Tile(g.x), Tile(g.y)),
           ~Crossroad(g.x, g.y) => d = g.inertia
    PROVE  AtLarge(GhostMove(g, d))
<1> DEFINE h == GhostMove(g, d)
           tx == Tile(g.x)
           ty == Tile(g.y)
<1>1. /\ g.x \in Int /\ g.y \in Int /\ tx \in Int /\ ty \in Int
      /\ InCorridor(g.x, g.y) /\ d \in Inertias
      /\ ~Aligned(g.x) => d \in {"left", "right"}
      /\ ~Aligned(g.y) => d \in {"up", "down"}
  BY GhostFields, TileValue DEF InCorridorAlong, Crossroad, Inertias
<1>2. /\ h.x = g.x + DeltaX(d) /\ h.y = g.y + DeltaY(d) /\ h.inertia = d
      /\ InCorridor(h.x, h.y)
      /\ ~Aligned(h.x) => d \in {"left", "right"}
      /\ ~Aligned(h.y) => d \in {"up", "down"}
  BY <1>1, CorridorStep DEF GhostMove
<1> HIDE DEF h, tx, ty
<1>3. ASSUME Crossroad(h.x, h.y)
      PROVE  WayOut(h)
  <2>1. CASE d \in {"left", "right"}
    <3>1. /\ h.y = g.y /\ h.x \in {g.x - 1, g.x + 1}
      BY <1>1, <1>2, <2>1 DEF DeltaX, DeltaY
    <3>2. ~Aligned(g.x)
      BY <1>1, <1>3, <3>1, LeaveTile DEF Crossroad
    <3>3. OpenToRight(tx, ty)
      BY <1>1, <3>2 DEF InCorridor, tx, ty
    <3>4. Tile(h.x) \in {tx, tx + 1} /\ Tile(h.y) = ty
      BY <1>1, <3>1, <3>2, StayInTile DEF tx, ty
    <3> QED  BY <1>1, <3>3, <3>4, CorridorWayOut DEF WayOut
  <2>2. CASE d \in {"up", "down"}
    <3>1. /\ h.x = g.x /\ h.y \in {g.y - 1, g.y + 1}
      BY <1>1, <1>2, <2>2 DEF DeltaX, DeltaY
    <3>2. ~Aligned(g.y)
      BY <1>1, <1>3, <3>1, LeaveTile DEF Crossroad
    <3>3. OpenToBelow(tx, ty)
      BY <1>1, <3>2 DEF InCorridor, tx, ty
    <3>4. Tile(h.y) \in {ty, ty + 1} /\ Tile(h.x) = tx
      BY <1>1, <3>1, <3>2, StayInTile DEF tx, ty
    <3> QED  BY <1>1, <3>3, <3>4, CorridorWayOut DEF WayOut
  <2> QED  BY <2>1, <2>2 DEF Directions
<1> QED  BY <1>2, <1>3 DEF AtLarge, InCorridorAlong, h

\* No crossroad a ghost at large stands on is closed in.
LEMMA LargeWayOut ==
    ASSUME NEW g, GhostInv(g), AtLarge(g), Crossroad(g.x, g.y)
    PROVE  WayOut(g)
<1>1. CASE g.x = GhostStart[1] * TILE
  <2>1. Tile(g.x) = GhostStart[1] /\ Tile(g.x) \in 1..COLS
    BY <1>1, GhostStartTile
  <2>2. Tile(g.y) \in 1..ROWS \/ Tile(g.y) = 0
    BY DEF GhostInv, GhostOnTrack, Crossroad, OpenTile
  <2>3. CASE Tile(g.y) = 0
    BY <2>3 DEF WayOut, wallVerify
  <2>4. CASE Tile(g.y) \in 1..ROWS
    BY <2>1, <2>4, ColumnAssumption DEF WayOut
  <2> QED  BY <2>2, <2>3, <2>4
<1> QED  BY <1>1 DEF AtLarge

\* A ghost at large that finds open walls stays at large.
LEMMA StaysAtLarge ==
    ASSUME NEW g, GhostInv(g), AtLarge(g), NEW places,
           NEW walls \in SUBSET BOOLEAN, \A closed \in walls : ~closed,
           NEW d \in GhostInertias(g, walls, places)
    PROVE  AtLarge(GhostMove(g, d))
<1>1. PICK p \in places, rSelect \in 0..3 :
           d = GhostNextInertia(g, FALSE, p[1], p[2], rSelect)
  <2>1. PICK closed \in walls, p \in places, rSelect \in 0..3 :
             d = GhostNextInertia(g, closed, p[1], p[2], rSelect)
    BY DEF GhostInertias
  <2>2. closed = FALSE
    BY <2>1
  <2> QED  BY <2>1, <2>2
<1> DEFINE open == wallVerify(FALSE, Tile(g.x), Tile(g.y))
<1>2. /\ g \in Ghost /\ GhostOnTrack(g) /\ d \in Directions
      /\ GhostMove(g, d).x = g.x + DeltaX(d)
  BY GhostMoves DEF GhostInv
<1>3. Crossroad(g.x, g.y) => IF open = {} THEN d = "up" ELSE d \in open
  <2>1. open \in SUBSET Directions
    BY DEF wallVerify, rowWallVerify, Directions
  <2> QED  BY <1>1, <2>1, GhostTurnOpen DEF GhostNextInertia
<1>4. ~Crossroad(g.x, g.y) => d = g.inertia
  BY <1>1 DEF GhostNextInertia
<1>5. CASE g.x = GhostStart[1] * TILE /\ d \in {"up", "down"}
  <2>1. DeltaX(d) = 0 /\ g.x \in Int
    BY <1>2, <1>5, GhostFields DEF DeltaX
  <2> QED  BY <1>2, <1>5, <2>1 DEF AtLarge
<1>6. CASE InCorridorAlong(g) /\ (Crossroad(g.x, g.y) => WayOut(g))
  BY <1>2, <1>3, <1>4, <1>6, CorridorArrival DEF WayOut
<1>7. CASE g.x = GhostStart[1] * TILE /\ d \notin {"up", "down"}
  <2>1. Aligned(g.x) /\ Tile(g.x) = GhostStart[1] /\ Tile(g.x) \in 1..COLS
    BY <1>7, GhostStartTile
  <2>2. Aligned(g.y)
    BY <1>2, <1>4, <1>7, <2>1 DEF GhostOnTrack, Crossroad
  <2>3. Tile(g.y) # 0
    BY <1>3, <1>7, <2>1, <2>2 DEF wallVerify, Crossroad
  <2>4. WayOut(g)
    BY <1>7, <2>1, <2>2, LargeWayOut DEF Crossroad
  <2>5. InCorridorAlong(g)
    BY <1>2, <2>2, <2>3, TrackShape DEF InShaft
  <2> QED  BY <1>6, <2>4, <2>5
<1> QED  BY <1>5, <1>6, <1>7 DEF AtLarge

\* Where a step takes a ghost through a wall of the level, it goes up through
\* walls it finds closed, or down from the row above the board.
LEMMA ThroughWalls ==
    ASSUME NEW g, GhostInv(g), Crossroad(g.x, g.y), NEW places,
           NEW walls \in SUBSET BOOLEAN, NEW d \in GhostInertias(g, walls, places),
           TRUE \in walls \/ WayOut(g)
    PROVE  /\ d = "up" => TRUE \in walls \/ OpenToBelow(Tile(g.x), Tile(g.y) - 1)
           /\ d = "down" => Tile(g.y) = 0 \/ OpenToBelow(Tile(g.x), Tile(g.y))
<1>1. PICK closed \in walls, p \in places, rSelect \in 0..3 :
           d = GhostNextInertia(g, closed, p[1], p[2], rSelect)
  BY DEF GhostInertias
<1> DEFINE tx   == Tile(g.x)
           ty   == Tile(g.y)
           open == wallVerify(closed, tx, ty)
<1>2. IF open = {} THEN d = "up" ELSE d \in open
  <2>1. open \in SUBSET Directions
    BY DEF wallVerify, rowWallVerify, Directions
  <2> QED  BY <1>1, <2>1, GhostTurnOpen DEF GhostNextInertia
<1>3. tx \in Int /\ ty \in Int /\ (OpenTile(tx, ty) \/ ty = 0)
  <2>1. g \in Ghost /\ GhostOnTrack(g)
    BY DEF GhostInv
  <2> QED  BY <2>1, GhostFields, TileValue DEF GhostOnTrack, Crossroad
<1>4. open = {} => closed \/ TRUE \in walls
  BY <1>1 DEF WayOut
<1> HIDE DEF tx, ty
<1>5. CASE ty = 0
  BY <1>2, <1>5 DEF wallVerify, ty
<1>6. CASE OpenTile(tx, ty)
  <2>1. ASSUME d \in open
        PROVE  /\ d = "up" => OpenToBelow(tx, ty - 1)
               /\ d = "down" => OpenToBelow(tx, ty)
    <3> HIDE DEF tx, ty
    <3>1. d \in wallVerify(closed, tx, ty) /\ closed \in BOOLEAN
      BY <1>1, <2>1
    <3>2. tx \in Int /\ ty \in Int
      BY <1>3
    <3> QED  BY <1>6, <3>1, <3>2, OpenTurn, Zenon
  <2>2. open = {} => d = "up" /\ TRUE \in walls
    BY <1>1, <1>2, <1>3, <1>4
  <2> QED  BY <1>2, <2>1, <2>2 DEF tx, ty
<1> QED  BY <1>3, <1>5, <1>6

-----------------------------------------------------------------------------
\* The ten bit comparisons of ghostMovement.sv:27-56 say what they seem to say.
LEMMA SmallMod ==
    ASSUME NEW m \in Nat, m > 0, NEW z \in Int, -m <= z, z < m
    PROVE  z % m = IF z < 0 THEN z + m ELSE z
  OBVIOUS

LEMMA ContactValue ==
    ASSUME NEW a \in 0..(16 * TILE - 1), NEW b \in 0..(16 * TILE - 1)
    PROVE  LET d == Difference(a, b)
           IN  /\ AtContact(d) <=> a - b = lenContact \/ b - a = lenContact
               /\ Within(d) <=> a - b < lenContact /\ b - a < lenContact
<1> DEFINE m == PosMod
           n == 16 * TILE
           d == Difference(a, b)
<1>1. /\ m \in Nat /\ m > 0 /\ m = 2 * n /\ n \in Nat /\ m \div 2 = n
      /\ lenContact \in Int /\ 1 <= lenContact /\ lenContact < n
  BY MazeAssumption, GhostAssumption DEF PosMod
<1>2. a \in Int /\ b \in Int /\ 0 <= a /\ a < n /\ 0 <= b /\ b < n
  BY <1>1
<1> HIDE DEF m, n
<1>3. ASSUME NEW x \in Int, NEW y \in Int, 0 <= x, x < n, 0 <= y, y < n
      PROVE  /\ (x - y) % m = IF x < y THEN x - y + m ELSE x - y
             /\ (x - y) % m >= n <=> x < y
  BY <1>1, <1>3, SmallMod
<1>4. d = IF a < b THEN b - a ELSE a - b
  BY <1>1, <1>2, <1>3 DEF d, Difference, Negative, Minus, m
<1>5. d \in Int /\ 0 <= d /\ d < n
  BY <1>1, <1>2, <1>4
<1> HIDE DEF d
<1>6. Within(d) <=> d < lenContact
  BY <1>1, <1>3, <1>5 DEF Within, Negative, Minus, m
<1>7. AtContact(d) <=> d = lenContact
  BY <1>1, <1>3, <1>5 DEF AtContact, Minus, m
<1> QED  BY <1>1, <1>2, <1>4, <1>6, <1>7 DEF d

\* killPlayer: the squares touch along a side.
LEMMA ContactMeaning ==
    ASSUME NEW g, g.x \in 0..(16 * TILE - 1), g.y \in 0..(16 * TILE - 1),
           NEW px \in 0..(16 * TILE - 1), NEW py \in 0..(16 * TILE - 1)
    PROVE  LET near(a, b)  == a - b < lenContact /\ b - a < lenContact
               touch(a, b) == a - b = lenContact \/ b - a = lenContact
           IN  killPlayer(g, px, py) <=> \/ touch(g.x, px) /\ near(g.y, py)
                                         \/ touch(g.y, py) /\ near(g.x, px)
  BY ContactValue DEF killPlayer
=============================================================================
