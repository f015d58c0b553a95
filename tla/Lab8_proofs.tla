------------------------------ MODULE Lab8_proofs -----------------------------
(***************************************************************************)
(* The safety of the game, for all boards, all sizes of a tile, any number *)
(* of ghosts, any keys and any timing of the divided clocks.               *)
(***************************************************************************)
EXTENDS Lab8, Movers_proofs

-----------------------------------------------------------------------------
(* Two kinds of ticks: one that starts over and one that goes on.          *)

StartsOver ==
    /\ state' = "NEWGAME" /\ resetGame' = TRUE
    /\ PlayerReset /\ GhostsReset /\ CoinsReset

GhostStays(i) == ghosts'[i] = ghosts[i]

GhostSteps(i) ==
    \E d \in GhostInertias(ghosts[i], {walls, walls'},
                           {<<playerX, playerY>>, <<playerX', playerY'>>}) :
        ghosts'[i] = GhostMove(ghosts[i], d)

GoesOn ==
    /\ ~gameReset' /\ ~Reset_h /\ ~playerHitDetect
    /\ state' \in {NextState(key, boardCheck) : key \in {"enter", "other"}}
    /\ IF gameReset THEN CoinsReset ELSE CoinsStep(playerX, playerY)
    /\ UNCHANGED playerVars \/ PlayerStep({walls, walls'})
    /\ ghosts' \in [GHOSTS -> {ghosts'[i] : i \in GHOSTS}]
    /\ \A i \in GHOSTS : GhostStays(i) \/ GhostSteps(i)

LEMMA NextCases ==
    ASSUME Next, GhostsTypeOK
    PROVE  (gameReset' /\ StartsOver) \/ GoesOn
<1>1. ClkRegisters
  BY DEF Next, Tick, PlayerTick, GhostTick, BothTick
<1>2. CASE gameReset'
  <2>1. state' = "NEWGAME" /\ resetGame' = TRUE
    BY <1>1, <1>2 DEF ClkRegisters, GameStateReset, GameStateStep, gameReset
  <2>2. PlayerReset /\ GhostsReset
    BY <1>2 DEF Next, Tick, PlayerTick, GhostTick, BothTick,
       PlayerHolds, PlayerClocked, GhostsHold, GhostsClocked
  <2>3. CoinsReset
    BY <1>1, <1>2 DEF ClkRegisters
  <2> QED  BY <1>2, <2>1, <2>2, <2>3 DEF StartsOver
<1>3. CASE ~gameReset'
  <2>1. ~Reset_h /\ ~Reset_h' /\ GameStateStep(playerHitDetect, boardCheck)
    BY <1>1, <1>3 DEF ClkRegisters, GameStateReset, gameReset
  <2>2. /\ ~playerHitDetect
        /\ state' \in {NextState(key, boardCheck) : key \in {"enter", "other"}}
    BY <1>3, <2>1 DEF GameStateStep, gameReset
  <2>3. IF gameReset THEN CoinsReset ELSE CoinsStep(playerX, playerY)
    BY <1>1, <1>3 DEF ClkRegisters
  <2>4. UNCHANGED playerVars \/ PlayerStep({walls, walls'})
    BY <1>3 DEF Next, Tick, PlayerTick, GhostTick, BothTick, PlayerHolds, PlayerClocked
  <2>5. /\ \A i \in GHOSTS : GhostStays(i) \/ GhostSteps(i)
        /\ ghosts' \in [GHOSTS -> {ghosts'[i] : i \in GHOSTS}]
    <3>1. CASE UNCHANGED ghosts
      BY <3>1 DEF GhostStays, GhostsTypeOK
    <3>2. CASE \E held \in SUBSET GHOSTS :
                 GhostsStep({walls, walls'},
                            {<<playerX, playerY>>, <<playerX', playerY'>>}, held)
      BY <3>2 DEF GhostsStep, GhostStays, GhostSteps
    <3>3. GhostsHold \/ GhostsClocked
      BY DEF Next, Tick, PlayerTick, GhostTick, BothTick
    <3> QED  BY <1>3, <3>1, <3>2, <3>3 DEF GhostsHold, GhostsClocked
  <2> QED  BY <1>3, <2>1, <2>2, <2>3, <2>4, <2>5 DEF GoesOn
<1> QED  BY <1>2, <1>3

-----------------------------------------------------------------------------
(* Types and places.                                                       *)

GhostsInv == ghosts \in [GHOSTS -> Ghost] /\ \A i \in GHOSTS : GhostInv(ghosts[i])

BoardInv ==
    /\ PlayerInv /\ GhostsInv
    /\ CoinsTypeOK /\ GameStateTypeOK /\ Reset_h \in BOOLEAN

LEMMA WallsBoolean == walls \in BOOLEAN /\ walls' \in BOOLEAN
  BY DEF walls, Closed, startCheck

LEMMA GhostsStartInv ==
    /\ GhostsInit => GhostsInv
    /\ GhostsReset => GhostsInv'
  BY GhostStartInv DEF GhostsInit, GhostsReset, GhostsInv, GhostInv

LEMMA GhostStepsInv ==
    ASSUME GhostsInv, NEW i \in GHOSTS, GhostStays(i) \/ GhostSteps(i)
    PROVE  GhostInv(ghosts'[i])
<1>1. GhostInv(ghosts[i]) /\ {walls, walls'} \in SUBSET BOOLEAN
  BY WallsBoolean DEF GhostsInv
<1>2. CASE GhostSteps(i)
  BY <1>1, <1>2, GhostStepInv DEF GhostSteps
<1> QED  BY <1>1, <1>2 DEF GhostStays

LEMMA BoardInit == Init => BoardInv
<1> SUFFICES ASSUME Init PROVE BoardInv
  OBVIOUS
<1>1. PlayerInv /\ GhostsInv
  BY PlayerStartInv, GhostsStartInv DEF Init, PlayerInit
<1>2. CoinsTypeOK /\ GameStateTypeOK /\ Reset_h \in BOOLEAN
  BY DEF Init, CoinsInit, CoinsTypeOK, GameStateInit, GameStateTypeOK, GameStates
<1> QED  BY <1>1, <1>2 DEF BoardInv

LEMMA BoardNext == BoardInv /\ [Next]_vars => BoardInv'
<1> SUFFICES ASSUME BoardInv, [Next]_vars PROVE BoardInv'
  OBVIOUS
<1>1. PlayerInv /\ GhostsInv /\ GhostsTypeOK
  BY DEF BoardInv, GhostsInv, GhostsTypeOK
<1>2. CASE UNCHANGED vars
  BY <1>2 DEF vars, playerVars, gameStateVars, BoardInv, PlayerInv, PlayerTypeOK,
     PlayerInMaze, GhostsInv, CoinsTypeOK, GameStateTypeOK
<1>3. CASE Next
  <2>1. (gameReset' /\ StartsOver) \/ GoesOn
    BY <1>1, <1>3, NextCases
  <2>2. PlayerInv'
    <3>1. CASE StartsOver
      BY <3>1, PlayerStartInv DEF StartsOver
    <3>2. CASE GoesOn
      <4>1. CASE UNCHANGED playerVars
        BY <1>1, <4>1 DEF playerVars, PlayerInv, PlayerTypeOK, PlayerInMaze
      <4>2. CASE PlayerStep({walls, walls'})
        BY <1>1, <4>2, PlayerStepInv, WallsBoolean
      <4> QED  BY <3>2, <4>1, <4>2 DEF GoesOn
    <3> QED  BY <2>1, <3>1, <3>2
  <2>3. GhostsInv'
    <3>1. CASE StartsOver
      BY <3>1, GhostsStartInv DEF StartsOver
    <3>2. CASE GoesOn
      <4>1. \A i \in GHOSTS : GhostInv(ghosts'[i])
        BY <1>1, <3>2, GhostStepsInv DEF GoesOn
      <4>2. \A i \in GHOSTS : ghosts'[i] \in Ghost
        BY <4>1 DEF GhostInv
      <4> QED  BY <3>2, <4>1, <4>2 DEF GhostsInv, GoesOn
    <3> QED  BY <2>1, <3>1, <3>2
  <2>4. CoinsTypeOK' /\ Reset_h' \in BOOLEAN
    BY <1>3 DEF BoardInv, Next, Tick, PlayerTick, GhostTick, BothTick, ClkRegisters,
       CoinsReset, CoinsStep, CoinsTypeOK, CoinsUnder
  <2>5. GameStateTypeOK'
    BY <1>3 DEF BoardInv, Next, Tick, PlayerTick, GhostTick, BothTick, ClkRegisters,
       GameStateReset, GameStateStep, NextState, GameStateTypeOK, GameStates
  <2> QED  BY <2>2, <2>3, <2>4, <2>5 DEF BoardInv
<1> QED  BY <1>2, <1>3

\* The player keeps to the corridors and the ghosts to their tracks in the
\* whole game (lab8.sv:160-178).
THEOREM Lab8OnBoard == Spec => [](PlayerInMaze /\ GhostsOnTrack)
<1>1. BoardInv => PlayerInMaze /\ GhostsOnTrack
  BY DEF BoardInv, PlayerInv, GhostsInv, GhostInv, GhostsOnTrack
<1> QED  BY <1>1, BoardInit, BoardNext, PTL DEF Spec

\* Every register of the game keeps its range.
THEOREM Lab8TypeCorrect == Spec => []TypeOK
<1>1. BoardInv => TypeOK
  BY DEF BoardInv, PlayerInv, GhostsInv, TypeOK, GhostsTypeOK
<1> QED  BY <1>1, BoardInit, BoardNext, PTL DEF Spec

\* Wherever it comes from, a ghost in a bend goes back the way it came exactly
\* when its two random bits are 3 (ghostMovement.sv, the two way turns).
THEOREM BendsCorrect == Spec => []GhostsTurnRoundOnThree
<1>1. BoardInv => GhostsTurnRoundOnThree
  BY BendsTurnRound DEF BoardInv, GhostsInv, GhostsTypeOK
<1> QED  BY <1>1, BoardInit, BoardNext, PTL DEF Spec

-----------------------------------------------------------------------------
(* The rules of the game.  ResetInv and ColumnInv strengthen them: a reset *)
(* that is up has done its work, and ghosts that find the walls closed     *)
(* never leave the column they start in.                                   *)

ResetInv  == gameReset => state = "NEWGAME" /\ PlayerAtStart /\ invisible = {}
ColumnInv == state = "NEWGAME" => \A i \in GHOSTS : ghosts[i].x = GhostStart[1] * TILE

GameInv == BoardInv /\ ResetInv /\ ColumnInv /\ NewGameIsFresh /\ WonMeansCleared

LEMMA GameInit == Init => GameInv
<1> SUFFICES ASSUME Init PROVE GameInv
  OBVIOUS
<1>1. BoardInv
  BY BoardInit
<1>2. state = "NEWGAME" /\ PlayerAtStart /\ invisible = {}
  BY DEF Init, GameStateInit, PlayerInit, CoinsInit
<1>3. ColumnInv
  BY DEF Init, GhostsInit, GhostAtStart, ColumnInv
<1> QED  BY <1>1, <1>2, <1>3 DEF GameInv, ResetInv, NewGameIsFresh, WonMeansCleared

LEMMA StartCrossroad == Crossroad(PlayerStart[1] * TILE, PlayerStart[2] * TILE)
<1>1. PlayerStart \in (1..COLS) \X (1..ROWS)
  BY PlayerStartAssumption
<1>2. COLS \in 1..14 /\ ROWS \in 1..14
  BY MazeAssumption
<1>3. PlayerStart[1] \in 0..15 /\ PlayerStart[2] \in 0..15
  BY <1>1, <1>2
<1> QED  BY <1>3, TileStart DEF Crossroad

\* The start tiles are tiles of the board, and pixels of the board.
LEMMA PlayerStartTile ==
    PlayerAtStart => /\ Crossroad(playerX, playerY)
                     /\ Tile(playerX) = PlayerStart[1] /\ Tile(playerX) \in 1..COLS
                     /\ Tile(playerY) = PlayerStart[2] /\ Tile(playerY) \in 1..ROWS
                     /\ PlayerStart = <<Tile(playerX), Tile(playerY)>>
<1>1. PlayerStart \in (1..COLS) \X (1..ROWS)
  BY PlayerStartAssumption
<1>2. PlayerStart[1] \in 1..COLS /\ PlayerStart[2] \in 1..ROWS
      /\ PlayerStart = <<PlayerStart[1], PlayerStart[2]>>
  BY <1>1
<1>3. PlayerStart[1] \in 0..15 /\ PlayerStart[2] \in 0..15
  BY <1>2, MazeAssumption
<1> QED  BY <1>2, <1>3, TileStart DEF PlayerAtStart, Crossroad

\* Between closed walls the player on its start tile stays there.
LEMMA ClosedKeepsPlayer ==
    ASSUME PlayerInv, PlayerAtStart,
           NEW seen \in SUBSET BOOLEAN, \A closed \in seen : closed, PlayerStep(seen)
    PROVE  PlayerAtStart'
<1>1. PICK key \in Keys, closed \in seen : PlayerMove(PlayerNextInertia(key, closed))
  BY DEF PlayerStep
<1>2. closed
  BY <1>1
<1>3. wallVerify(closed, Tile(playerX), Tile(playerY)) = {}
  BY <1>2, PlayerStartTile, MazeAssumption
     DEF wallVerify, rowWallVerify, xWalls, yWalls, Directions
<1>4. PlayerNextInertia(key, closed) = "none"
  BY <1>3, PlayerStartTile DEF PlayerNextInertia, CrossroadInertia
<1>5. /\ playerInertia' = "none"
      /\ playerX' = Add(playerX, 0) /\ playerY' = Add(playerY, 0)
  BY <1>1, <1>4 DEF PlayerMove, DeltaX, DeltaY
<1>6. Add(playerX, 0) = playerX + 0 /\ Add(playerY, 0) = playerY + 0
      /\ playerX \in Int /\ playerY \in Int
  <2>1. Tile(playerX) \in 0..15 /\ Tile(playerY) \in 0..15
    <3>1. COLS \in 1..14 /\ ROWS \in 1..14
      BY MazeAssumption
    <3> QED  BY <3>1, PlayerStartTile
  <2>2. playerX \in Int /\ playerY \in Int
    BY CoordinatesInt DEF PlayerInv, PlayerTypeOK
  <2> QED  BY <2>1, <2>2, AddInBoard
<1> QED  BY <1>5, <1>6 DEF PlayerAtStart

LEMMA ClosedKeepsColumn ==
    ASSUME GhostsInv, walls, walls', NEW i \in GHOSTS, GhostStays(i) \/ GhostSteps(i),
           ghosts[i].x = GhostStart[1] * TILE
    PROVE  ghosts'[i].x = ghosts[i].x
<1>1. CASE GhostSteps(i)
  <2> DEFINE seen   == {walls, walls'}
             places == {<<playerX, playerY>>, <<playerX', playerY'>>}
  <2>1. PICK d \in GhostInertias(ghosts[i], seen, places) :
             ghosts'[i] = GhostMove(ghosts[i], d)
    BY <1>1 DEF GhostSteps
  <2>2. GhostInv(ghosts[i]) /\ Aligned(ghosts[i].x) /\ Tile(ghosts[i].x) \in 1..COLS
    BY GhostStartTile DEF GhostsInv
  <2>3. seen \in SUBSET BOOLEAN /\ \A closed \in seen : closed
    BY WallsBoolean
  <2> HIDE DEF seen, places
  <2>4. d \in {"up", "down"}
    BY <2>2, <2>3, ClosedGoesUpOrDown
  <2>5. GhostMove(ghosts[i], d).x = ghosts[i].x + DeltaX(d)
    BY <2>2, <2>3, GhostMoves
  <2>6. DeltaX(d) = 0 /\ ghosts[i].x \in Int
    BY <2>4, GhostStartTile DEF DeltaX
  <2> QED  BY <2>1, <2>5, <2>6
<1> QED  BY <1>1 DEF GhostStays

LEMMA GameNext == GameInv /\ [Next]_vars => GameInv'
<1> SUFFICES ASSUME GameInv, [Next]_vars PROVE GameInv'
  OBVIOUS
<1>1. BoardInv /\ BoardInv' /\ PlayerInv /\ GhostsInv /\ GhostsTypeOK
  BY BoardNext DEF GameInv, BoardInv, GhostsInv, GhostsTypeOK
<1>2. CASE UNCHANGED vars
  BY <1>1, <1>2 DEF vars, playerVars, gameStateVars, GameInv, ResetInv, ColumnInv,
     NewGameIsFresh, WonMeansCleared, gameReset, PlayerAtStart, coinLocs
<1>3. CASE Next /\ gameReset' /\ StartsOver
  <2>1. state' = "NEWGAME" /\ PlayerAtStart' /\ invisible' = {}
    BY <1>3 DEF StartsOver, PlayerReset, PlayerAtStart, CoinsReset
  <2>2. ColumnInv'
    BY <1>3 DEF StartsOver, GhostsReset, GhostAtStart, ColumnInv
  <2> QED
    BY <1>1, <2>1, <2>2 DEF GameInv, ResetInv, NewGameIsFresh, WonMeansCleared
<1>4. CASE Next /\ GoesOn
  <2>1. ResetInv'
    BY <1>4 DEF GoesOn, ResetInv
  <2>2. PICK key \in {"enter", "other"} : state' = NextState(key, boardCheck)
    BY <1>4 DEF GoesOn
  <2>3. WonMeansCleared'
    <3>1. SUFFICES ASSUME state' = "BEAT1"
                   PROVE  coinLocs' = {}
      BY DEF WonMeansCleared
    <3>2. state # "NEWGAME" /\ coinLocs = {}
      BY <1>1, <2>2, <3>1 DEF NextState, boardCheck, GameInv, WonMeansCleared,
         BoardInv, GameStateTypeOK, GameStates
    <3>3. invisible' = invisible \cup CoinsUnder(playerX, playerY)
      BY <1>4, <3>2 DEF GoesOn, GameInv, ResetInv, CoinsStep
    <3> QED  BY <3>2, <3>3 DEF coinLocs
  <2>4. ASSUME state' = "NEWGAME"
        PROVE  state = "NEWGAME" /\ walls /\ walls'
    BY <1>1, <2>2, <2>4 DEF NextState, walls, Closed, startCheck,
       BoardInv, GameStateTypeOK, GameStates
  <2>5. NewGameIsFresh'
    <3>1. SUFFICES ASSUME state' = "NEWGAME"
                   PROVE  PlayerAtStart' /\ invisible' \subseteq {PlayerStart}
      BY DEF NewGameIsFresh
    <3>2. walls /\ walls' /\ PlayerAtStart /\ invisible \subseteq {PlayerStart}
      BY <2>4, <3>1 DEF GameInv, NewGameIsFresh
    <3>3. PlayerAtStart'
      <4>1. CASE UNCHANGED playerVars
        BY <3>2, <4>1 DEF playerVars, PlayerAtStart
      <4>2. CASE PlayerStep({walls, walls'})
        <5>1. {walls, walls'} \in SUBSET BOOLEAN /\ \A closed \in {walls, walls'} : closed
          BY <3>2, WallsBoolean
        <5> QED  BY <1>1, <3>2, <4>2, <5>1, ClosedKeepsPlayer
      <4> QED  BY <1>4, <4>1, <4>2 DEF GoesOn
    <3>4. CoinsUnder(playerX, playerY) \subseteq {PlayerStart}
      BY <3>2, PlayerStartTile DEF CoinsUnder
    <3> QED  BY <1>4, <3>2, <3>3, <3>4 DEF GoesOn, CoinsReset, CoinsStep
  <2>6. ColumnInv'
    <3>1. SUFFICES ASSUME state' = "NEWGAME", NEW i \in GHOSTS
                   PROVE  ghosts'[i].x = GhostStart[1] * TILE
      BY DEF ColumnInv
    <3>2. walls /\ walls' /\ ghosts[i].x = GhostStart[1] * TILE
      BY <2>4, <3>1 DEF GameInv, ColumnInv
    <3>3. GhostStays(i) \/ GhostSteps(i)
      BY <1>4 DEF GoesOn
    <3> QED  BY <1>1, <3>2, <3>3, ClosedKeepsColumn
  <2> QED  BY <1>1, <2>1, <2>3, <2>5, <2>6 DEF GameInv
<1> QED  BY <1>1, <1>2, <1>3, <1>4, NextCases

\* The game is won only with every coin eaten, and stays won with none left:
\* neither a reset nor a ghost brings coins back into state BEAT1
\* (gameState.sv:47-68, coinBank.sv).
THEOREM WonCorrect == Spec => []WonMeansCleared
<1>1. GameInv => WonMeansCleared
  BY DEF GameInv
<1> QED  BY <1>1, GameInit, GameNext, PTL DEF Spec

\* A new game is fresh however long it waits (gameState.sv:36-46, lab8.sv:60).
THEOREM FreshCorrect == Spec => []NewGameIsFresh
<1>1. GameInv => NewGameIsFresh
  BY DEF GameInv
<1> QED  BY <1>1, GameInit, GameNext, PTL DEF Spec

-----------------------------------------------------------------------------
(* Collisions.                                                             *)

LEMMA PlayerPixels ==
    PlayerInv => /\ playerX \in 0..(16 * TILE - 1) /\ playerY \in 0..(16 * TILE - 1)
                 /\ Tile(playerX) \in 1..15 /\ Tile(playerY) \in 1..15
<1> SUFFICES ASSUME PlayerInv
             PROVE  /\ playerX \in 0..(16 * TILE - 1) /\ playerY \in 0..(16 * TILE - 1)
                    /\ Tile(playerX) \in 1..15 /\ Tile(playerY) \in 1..15
  OBVIOUS
<1>1. /\ playerX \in Int /\ playerY \in Int /\ InCorridor(playerX, playerY)
      /\ playerX >= 0 /\ playerY >= 0
  BY MazeAssumption DEF PlayerInv, PlayerTypeOK, PlayerInMaze, Coordinates, PosMod
<1>2. Tile(playerX) \in 1..15 /\ Tile(playerY) \in 1..15
  BY <1>1, CorridorTiles
<1>3. playerX < 16 * TILE /\ playerY < 16 * TILE
  BY <1>1, <1>2, AddInBoard
<1>4. 16 * TILE \in Int
  BY MazeAssumption
<1> QED  BY <1>1, <1>2, <1>3, <1>4

\* Pieces in the columns of their start tiles are farther apart than a contact.
LEMMA StartsApart ==
    ASSUME NEW gx, NEW px, gx = GhostStart[1] * TILE, px = PlayerStart[1] * TILE
    PROVE  /\ gx \in Int /\ px \in Int
           /\ gx - px > lenContact \/ px - gx > lenContact
<1>1. GhostStart[1] \in Int /\ PlayerStart[1] \in Int /\ TILE \in Nat /\ TILE >= 2
  <2>1. PlayerStart \in (1..COLS) \X (1..ROWS) /\ GhostStart \in (1..COLS) \X (1..ROWS)
    BY PlayerStartAssumption, GhostAssumption
  <2> QED  BY <2>1, MazeAssumption
<1>2. lenContact \in Int /\ lenContact < TILE
  BY <1>1, GhostAssumption
<1>3. GhostStart[1] - PlayerStart[1] >= 1 \/ PlayerStart[1] - GhostStart[1] >= 1
  BY <1>1, StartAssumption
<1> DEFINE gc == GhostStart[1]
           pc == PlayerStart[1]
<1>4. gc * TILE \in Int /\ pc * TILE \in Int
  BY <1>1
<1>5. (gc - pc) * TILE = gc * TILE - pc * TILE /\ (pc - gc) * TILE = pc * TILE - gc * TILE
  BY <1>1
<1>6. ASSUME NEW k \in Int, k >= 1
      PROVE  k * TILE >= TILE
  BY <1>1, <1>6
<1> HIDE DEF gc, pc
<1>7. gc * TILE - pc * TILE >= TILE \/ pc * TILE - gc * TILE >= TILE
  <2>1. gc - pc \in Int /\ pc - gc \in Int /\ (gc - pc >= 1 \/ pc - gc >= 1)
    BY <1>1, <1>3 DEF gc, pc
  <2>2. (gc - pc) * TILE >= TILE \/ (pc - gc) * TILE >= TILE
    BY <1>6, <2>1
  <2> QED  BY <1>5, <2>2
<1>8. gx = gc * TILE /\ px = pc * TILE
  BY DEF gc, pc
<1> QED  BY <1>1, <1>2, <1>4, <1>7, <1>8

\* One pixel of one piece leads from no overlap to an overlap only from a
\* contact, which killPlayer reports.
LEMMA OverlapAfterContact ==
    ASSUME NEW g, NEW h, NEW px, NEW py, NEW qx, NEW qy,
           g.x \in 0..(16 * TILE - 1), g.y \in 0..(16 * TILE - 1),
           px \in 0..(16 * TILE - 1), py \in 0..(16 * TILE - 1),
           NEW sx \in {-1, 0, 1}, NEW sy \in {-1, 0, 1}, sx = 0 \/ sy = 0,
           \/ h.x = g.x + sx /\ h.y = g.y + sy /\ qx = px /\ qy = py
           \/ h.x = g.x /\ h.y = g.y /\ qx = px + sx /\ qy = py + sy,
           ~Overlap(g, px, py), Overlap(h, qx, qy)
    PROVE  killPlayer(g, px, py)
<1>1. /\ g.x \in Int /\ g.y \in Int /\ px \in Int /\ py \in Int
      /\ lenContact \in Int /\ lenContact >= 1
  BY MazeAssumption, GhostAssumption
<1>2. \/ (g.x - px = lenContact \/ px - g.x = lenContact)
         /\ g.y - py < lenContact /\ py - g.y < lenContact
      \/ (g.y - py = lenContact \/ py - g.y = lenContact)
         /\ g.x - px < lenContact /\ px - g.x < lenContact
  BY <1>1 DEF Overlap
<1> QED  BY <1>2, ContactMeaning

\* A step of the player, and of a ghost, is at most one pixel on one axis.
LEMMA PlayerStepsOne ==
    ASSUME PlayerInv, NEW seen \in SUBSET BOOLEAN, PlayerStep(seen)
    PROVE  \E sx, sy \in {-1, 0, 1} : /\ sx = 0 \/ sy = 0
                                      /\ playerX' = playerX + sx /\ playerY' = playerY + sy
<1>1. PICK key \in Keys, closed \in seen : PlayerMove(PlayerNextInertia(key, closed))
  BY DEF PlayerStep
<1> DEFINE d == PlayerNextInertia(key, closed)
<1>2. /\ playerX' = Add(playerX, DeltaX(d)) /\ playerY' = Add(playerY, DeltaY(d))
  BY <1>1 DEF PlayerMove
<1> HIDE DEF d
<1>3. /\ DeltaX(d) \in {-1, 0, 1} /\ DeltaY(d) \in {-1, 0, 1}
      /\ DeltaX(d) = 0 \/ DeltaY(d) = 0
  BY DEF DeltaX, DeltaY
<1>4. /\ playerX \in Int /\ playerY \in Int
      /\ Tile(playerX) \in 0..15 /\ Tile(playerX) # 0
      /\ Tile(playerY) \in 0..15 /\ Tile(playerY) # 0
  BY PlayerPixels
<1>5. Add(playerX, DeltaX(d)) = playerX + DeltaX(d)
  BY <1>3, <1>4, AddInBoard
<1>6. Add(playerY, DeltaY(d)) = playerY + DeltaY(d)
  BY <1>3, <1>4, AddInBoard
<1> QED  BY <1>2, <1>3, <1>5, <1>6

LEMMA GhostStepsOne ==
    ASSUME GhostsInv, NEW i \in GHOSTS, GhostSteps(i)
    PROVE  \E sx, sy \in {-1, 0, 1} :
               /\ sx = 0 \/ sy = 0
               /\ ghosts'[i].x = ghosts[i].x + sx /\ ghosts'[i].y = ghosts[i].y + sy
<1> DEFINE seen   == {walls, walls'}
           places == {<<playerX, playerY>>, <<playerX', playerY'>>}
<1>1. PICK d \in GhostInertias(ghosts[i], seen, places) : ghosts'[i] = GhostMove(ghosts[i], d)
  BY DEF GhostSteps
<1>2. GhostInv(ghosts[i]) /\ seen \in SUBSET BOOLEAN
  BY WallsBoolean DEF GhostsInv
<1> HIDE DEF seen, places
<1>3. /\ GhostMove(ghosts[i], d).x = ghosts[i].x + DeltaX(d)
      /\ GhostMove(ghosts[i], d).y = ghosts[i].y + DeltaY(d)
  BY <1>2, GhostMoves
<1>4. /\ DeltaX(d) \in {-1, 0, 1} /\ DeltaY(d) \in {-1, 0, 1}
      /\ DeltaX(d) = 0 \/ DeltaY(d) = 0
  BY DEF DeltaX, DeltaY
<1> QED  BY <1>1, <1>3, <1>4

\* A tick that starts over leaves nobody touching.
LEMMA StartingOverSeparates ==
    ASSUME NEW i \in GHOSTS, StartsOver
    PROVE  ~Overlap(ghosts'[i], playerX', playerY')
<1>1. ghosts'[i].x = GhostStart[1] * TILE /\ playerX' = PlayerStart[1] * TILE
  BY DEF StartsOver, GhostsReset, GhostAtStart, PlayerReset
<1>2. /\ ghosts'[i].x \in Int /\ playerX' \in Int
      /\ ghosts'[i].x - playerX' > lenContact \/ playerX' - ghosts'[i].x > lenContact
  BY <1>1, StartsApart
<1>3. lenContact \in Int
  BY GhostAssumption, MazeAssumption
<1> QED  BY <1>2, <1>3 DEF Overlap

LEMMA OverlapStep ==
    ASSUME BoardInv, [Next]_vars, NEW i \in GHOSTS,
           Overlap(ghosts'[i], playerX', playerY'), ~Overlap(ghosts[i], playerX, playerY)
    PROVE  /\ GoesOn
           /\ <<playerX', playerY'>> # <<playerX, playerY>> /\ ghosts'[i] # ghosts[i]
<1>1. PlayerInv /\ GhostsInv /\ GhostsTypeOK
  BY DEF BoardInv, GhostsInv, GhostsTypeOK
<1>2. /\ ghosts[i].x \in 0..(16 * TILE - 1) /\ ghosts[i].y \in 0..(16 * TILE - 1)
      /\ playerX \in 0..(16 * TILE - 1) /\ playerY \in 0..(16 * TILE - 1)
  BY <1>1, GhostTiles, PlayerPixels DEF GhostsInv
<1>3. GoesOn
  <2>1. ~UNCHANGED vars
    BY DEF vars, playerVars
  <2> QED  BY <1>1, <2>1, NextCases, StartingOverSeparates
<1>4. ~killPlayer(ghosts[i], playerX, playerY)
  BY <1>3 DEF GoesOn, playerHitDetect
<1>5. ASSUME ghosts'[i] = ghosts[i], PlayerStep({walls, walls'})
      PROVE  FALSE
  <2>1. PICK sx, sy \in {-1, 0, 1} :
             /\ sx = 0 \/ sy = 0
             /\ playerX' = playerX + sx /\ playerY' = playerY + sy
    BY <1>1, <1>5, PlayerStepsOne, WallsBoolean
  <2> QED  BY <1>2, <1>4, <1>5, <2>1, OverlapAfterContact
<1>6. ASSUME playerX' = playerX, playerY' = playerY, GhostSteps(i)
      PROVE  FALSE
  <2>1. PICK sx, sy \in {-1, 0, 1} :
             /\ sx = 0 \/ sy = 0
             /\ ghosts'[i].x = ghosts[i].x + sx /\ ghosts'[i].y = ghosts[i].y + sy
    BY <1>1, <1>6, GhostStepsOne
  <2> QED  BY <1>2, <1>4, <1>6, <2>1, OverlapAfterContact
<1>7. ghosts'[i] # ghosts[i] \/ ~(playerX' = playerX /\ playerY' = playerY)
  OBVIOUS
<1>8. GhostStays(i) \/ GhostSteps(i)
  BY <1>3 DEF GoesOn
<1>9. UNCHANGED playerVars \/ PlayerStep({walls, walls'})
  BY <1>3 DEF GoesOn
<1> QED
  BY <1>3, <1>5, <1>6, <1>7, <1>8, <1>9 DEF GhostStays, playerVars

\* A ghost and the player come to overlap only in a tick that moves both: a
\* contact that a single step would deepen has been seen by the tick before
\* (ghostMovement.sv:51, gameState.sv:28-32).
THEOREM ContactIsSeen == Spec => OverlapOnlyWhenBothMove
<1>1. BoardInv /\ [Next]_vars =>
        [\A i \in GHOSTS : Overlaps(i)' /\ ~Overlaps(i)
           => <<playerX, playerY>>' # <<playerX, playerY>> /\ ghosts'[i] # ghosts[i]]_vars
  BY OverlapStep DEF Overlaps
<1> QED  BY <1>1, BoardInit, BoardNext, PTL DEF Spec, OverlapOnlyWhenBothMove

\* No ghost touches the player of a game that waits: the ghosts stay in their
\* column between closed walls, the player on its tile (gameState.sv:78-81).
THEOREM NewGameSafe == Spec => []NewGameIsSafe
<1>1. GameInv => NewGameIsSafe
  <2>1. SUFFICES ASSUME GameInv, state = "NEWGAME", NEW i \in GHOSTS
                 PROVE  ~killPlayer(ghosts[i], playerX, playerY)
    BY DEF NewGameIsSafe, playerHitDetect
  <2>2. PlayerInv /\ GhostInv(ghosts[i])
    BY <2>1 DEF GameInv, BoardInv, GhostsInv
  <2>3. ghosts[i].x = GhostStart[1] * TILE /\ playerX = PlayerStart[1] * TILE
    BY <2>1 DEF GameInv, ColumnInv, NewGameIsFresh, PlayerAtStart
  <2>4. /\ ghosts[i].x \in Int /\ playerX \in Int /\ lenContact \in Int
        /\ ghosts[i].x - playerX > lenContact \/ playerX - ghosts[i].x > lenContact
    BY <2>3, StartsApart, GhostAssumption, MazeAssumption
  <2> QED  BY <2>2, <2>4, GhostTiles, PlayerPixels, ContactMeaning
<1> QED  BY <1>1, GameInit, GameNext, PTL DEF Spec

\* A collision seen starts everything over in the same tick (lab8.sv:60-61,
\* gameState.sv:28-32): the reset it registers is asynchronous elsewhere.
THEOREM CollisionCorrect == Spec => CollisionStartsOver
<1> DEFINE over == playerHitDetect =>
                     /\ state' = "NEWGAME" /\ invisible' = {}
                     /\ PlayerAtStart' /\ \A i \in GHOSTS : ghosts'[i] = GhostAtStart
<1>1. BoardInv /\ [Next]_vars => [over]_vars
  <2>1. SUFFICES ASSUME BoardInv, Next, playerHitDetect PROVE over
    OBVIOUS
  <2>2. StartsOver
    BY <2>1, NextCases DEF BoardInv, GhostsInv, GhostsTypeOK, GoesOn
  <2> QED
    BY <2>2 DEF StartsOver, PlayerReset, PlayerAtStart, GhostsReset, CoinsReset
<1> QED  BY <1>1, BoardInit, BoardNext, PTL DEF Spec, CollisionStartsOver

\* Coins come back only with a new game (coinBank.sv:5-14, lab8.sv:60): the
\* tick in which a reset ends finds them all back already.
THEOREM CoinsCorrect == Spec => CoinsReturnOnlyWithNewGame
<1> DEFINE fresh == ~(coinLocs' \subseteq coinLocs)
                      => state' = "NEWGAME" /\ PlayerAtStart' /\ coinLocs' = levelCoins
<1>1. GameInv /\ [Next]_vars => [fresh]_vars
  <2>1. SUFFICES ASSUME GameInv, Next PROVE fresh
    OBVIOUS
  <2>2. CASE StartsOver
    BY <2>2 DEF StartsOver, PlayerReset, PlayerAtStart, CoinsReset, coinLocs
  <2>3. CASE GoesOn
    <3>1. invisible \subseteq invisible'
      BY <2>1, <2>3 DEF GoesOn, CoinsReset, CoinsStep, GameInv, ResetInv
    <3> QED  BY <3>1 DEF coinLocs
  <2> QED  BY <2>1, <2>2, <2>3, NextCases DEF GameInv, BoardInv, GhostsInv, GhostsTypeOK
<1> QED  BY <1>1, GameInit, GameNext, PTL DEF Spec, CoinsReturnOnlyWithNewGame

-----------------------------------------------------------------------------
(* Ghosts and walls.                                                       *)

\* Play with coins left finds no ghost on a closed-in tile.  It begins with
\* the ghosts in their start column; the one tick of play after Enter in
\* BEAT1, with ghosts anywhere, has no coins.
RoamInv == state = "LEVEL1" /\ coinLocs # {} => \A i \in GHOSTS : AtLarge(ghosts[i])

LEMMA RoamNext == GameInv /\ RoamInv /\ [Next]_vars => RoamInv'
<1> SUFFICES ASSUME GameInv, RoamInv, [Next]_vars, state' = "LEVEL1", coinLocs' # {},
                    NEW i \in GHOSTS
             PROVE  AtLarge(ghosts'[i])
  BY DEF RoamInv
<1>1. BoardInv /\ GhostsInv /\ GhostsTypeOK /\ GhostInv(ghosts[i])
  BY DEF GameInv, BoardInv, GhostsInv, GhostsTypeOK
<1>2. CASE UNCHANGED vars
  BY <1>2 DEF vars, gameStateVars, RoamInv, coinLocs
<1>3. CASE GoesOn
  <2> DEFINE g      == ghosts[i]
             places == {<<playerX, playerY>>, <<playerX', playerY'>>}
  <2>1. ~walls' /\ (walls <=> state # "LEVEL1")
    BY <1>1 DEF walls, Closed, startCheck, level, BoardInv, GameStateTypeOK, GameStates
  <2>2. state # "BEAT1"
    <3>1. SUFFICES ASSUME state = "BEAT1" PROVE FALSE
      OBVIOUS
    <3>2. coinLocs = {} /\ ~gameReset
      BY <3>1 DEF GameInv, WonMeansCleared, ResetInv
    <3> QED  BY <1>3, <3>2 DEF GoesOn, CoinsStep, coinLocs
  <2>3. /\ state \in {"NEWGAME", "LEVEL1"}
        /\ state = "LEVEL1" => coinLocs # {}
    <3>1. ASSUME state = "LEVEL1" PROVE coinLocs # {}
      BY <1>3, <3>1 DEF GoesOn, NextState, boardCheck
    <3> QED  BY <1>1, <2>2, <3>1 DEF BoardInv, GameStateTypeOK, GameStates
  <2>4. AtLarge(g)
    BY <2>3 DEF RoamInv, GameInv, ColumnInv, AtLarge
  <2>5. CASE GhostStays(i)
    BY <2>4, <2>5 DEF GhostStays
  <2>6. CASE GhostSteps(i)
    <3>1. PICK d \in GhostInertias(g, {walls, walls'}, places) : ghosts'[i] = GhostMove(g, d)
      BY <2>6 DEF GhostSteps
    <3>2. PICK closed \in {walls, walls'} : d \in GhostInertias(g, {closed}, places)
      BY DEF GhostInertias
    <3> HIDE DEF g, places
    <3>3. CASE ~closed
      <4>1. {closed} \in SUBSET BOOLEAN /\ \A c \in {closed} : ~c
        BY <3>2, <3>3, WallsBoolean
      <4> QED  BY <1>1, <2>4, <3>1, <3>2, <4>1, StaysAtLarge DEF g
    <3>4. CASE closed
      <4>1. g.x = GhostStart[1] * TILE
        BY <2>1, <2>3, <3>2, <3>4 DEF GameInv, ColumnInv, g
      <4>2. GhostInv(g) /\ Aligned(g.x) /\ Tile(g.x) \in 1..COLS
        BY <1>1, <4>1, GhostStartTile DEF g
      <4>3. {closed} \in SUBSET BOOLEAN /\ \A c \in {closed} : c
        BY <3>2, <3>4, WallsBoolean
      <4>4. d \in {"up", "down"}
        BY <3>2, <4>2, <4>3, ClosedGoesUpOrDown
      <4>5. GhostMove(g, d).x = g.x + DeltaX(d)
        BY <3>2, <4>2, <4>3, GhostMoves
      <4>6. DeltaX(d) = 0 /\ g.x \in Int
        BY <4>1, <4>4, GhostStartTile DEF DeltaX
      <4> QED  BY <3>1, <4>1, <4>5, <4>6 DEF AtLarge
    <3> QED  BY <3>3, <3>4
  <2> QED  BY <1>3, <2>5, <2>6 DEF GoesOn
<1> QED  BY <1>1, <1>2, <1>3, NextCases DEF StartsOver

\* A ghost passes a wall of the level only upwards, in a tick that finds or
\* leaves the walls closed, or down from the row above the board
\* (wallVerifiers.sv:48-76, ghostMovement.sv:113-404, lab8.sv:160-172): however
\* the edge of clkGhost and the change of the walls fall into the tick.
THEOREM WallsPassedUpwards == Spec => GhostsPassWallsUpwards
<1> DEFINE Upwards(i) ==
               ThroughWall(ghosts[i], ghosts'[i])
                 => \/ ghosts'[i].y < ghosts[i].y /\ (walls \/ walls')
                    \/ ghosts'[i].y > ghosts[i].y /\ Tile(ghosts[i].y) = 0
<1>1. GameInv /\ RoamInv /\ [Next]_vars => [\A i \in GHOSTS : Upwards(i)]_vars
  <2>1. SUFFICES ASSUME GameInv, RoamInv, Next, NEW i \in GHOSTS,
                        ThroughWall(ghosts[i], ghosts'[i])
                 PROVE  \/ ghosts'[i].y < ghosts[i].y /\ (walls \/ walls')
                        \/ ghosts'[i].y > ghosts[i].y /\ Tile(ghosts[i].y) = 0
    OBVIOUS
  <2> DEFINE g == ghosts[i]
             h == ghosts'[i]
  <2>2. /\ GhostInv(g) /\ g.x \in Int /\ g.y \in Int /\ GhostsInv /\ GhostsTypeOK
    BY <2>1, GhostFields DEF GameInv, BoardInv, GhostsInv, GhostsTypeOK, GhostInv
  <2>3. /\ Crossroad(g.x, g.y) /\ h.x = g.x /\ h.y \in {g.y - 1, g.y + 1}
        /\ ~OpenToBelow(Tile(g.x), Tile(IF h.y < g.y THEN h.y ELSE g.y))
    BY <2>1 DEF ThroughWall
  <2>4. CASE StartsOver
    <3>1. h.y = GhostStart[2] * TILE
      BY <2>4 DEF StartsOver, GhostsReset, GhostAtStart
    <3>2. Aligned(h.y)
      <4>1. ROWS \in 1..14
        BY MazeAssumption
      <4>2. GhostStart[2] \in 0..15
        BY <4>1, GhostStartTile
      <4> QED  BY <3>1, <4>2, TileStart
    <3>3. ~Aligned(g.y + 1) /\ ~Aligned(g.y - 1)
      BY <2>2, <2>3, LeaveTile DEF Crossroad
    <3> QED  BY <2>3, <3>2, <3>3
  <2>5. CASE GhostStays(i)
    BY <2>2, <2>3, <2>5 DEF GhostStays
  <2>6. CASE GhostSteps(i) /\ GoesOn
    <3> DEFINE seen   == {walls, walls'}
               places == {<<playerX, playerY>>, <<playerX', playerY'>>}
    <3>1. PICK d \in GhostInertias(g, seen, places) : h = GhostMove(g, d)
      BY <2>6 DEF GhostSteps
    <3>2. seen \in SUBSET BOOLEAN /\ (TRUE \in seen <=> walls \/ walls')
      BY WallsBoolean
    <3>3. TRUE \in seen \/ WayOut(g)
      <4>1. SUFFICES ASSUME ~walls, ~walls' PROVE WayOut(g)
        BY <3>2
      <4>2. state = "LEVEL1" /\ state' = "LEVEL1"
        <5>1. state \in GameStates /\ state' \in GameStates
          BY <2>1, BoardNext DEF GameInv, BoardInv, GameStateTypeOK
        <5> QED  BY <4>1, <5>1 DEF walls, Closed, startCheck, GameStates
      <4>3. coinLocs # {}
        BY <2>6, <4>2 DEF GoesOn, NextState, boardCheck
      <4>4. AtLarge(g)
        BY <2>1, <4>2, <4>3 DEF RoamInv
      <4> QED  BY <2>2, <2>3, <4>4, LargeWayOut
    <3> HIDE DEF seen, places, g, h
    <3>4. d \in Directions /\ h.y = g.y + DeltaY(d)
      BY <2>2, <3>1, <3>2, GhostMoves
    <3>5. /\ d = "up" => TRUE \in seen \/ OpenToBelow(Tile(g.x), Tile(g.y) - 1)
          /\ d = "down" => Tile(g.y) = 0 \/ OpenToBelow(Tile(g.x), Tile(g.y))
      BY <2>2, <2>3, <3>2, <3>3, ThroughWalls
    <3>6. CASE d = "up"
      <4>1. h.y = g.y - 1 /\ h.y < g.y
        BY <2>2, <3>4, <3>6 DEF DeltaY
      <4>2. Tile(g.y - 1) = Tile(g.y) - 1
        BY <2>2, <2>3, LeaveTile DEF Crossroad
      <4> QED  BY <2>3, <3>2, <3>5, <3>6, <4>1, <4>2 DEF g, h
    <3>7. CASE d = "down"
      <4>1. h.y = g.y + 1 /\ h.y > g.y /\ ~(h.y < g.y)
        BY <2>2, <3>4, <3>7 DEF DeltaY
      <4> QED  BY <2>3, <3>5, <3>7, <4>1 DEF g, h
    <3>8. d \in {"up", "down"}
      BY <2>2, <2>3, <3>4 DEF DeltaY
    <3> QED  BY <3>6, <3>7, <3>8
  <2> QED  BY <2>1, <2>2, <2>4, <2>5, <2>6, NextCases DEF GoesOn
<1>2. Init => RoamInv
  BY DEF Init, GameStateInit, RoamInv
<1> QED
  BY <1>1, <1>2, GameInit, GameNext, RoamNext, PTL DEF Spec, GhostsPassWallsUpwards

-----------------------------------------------------------------------------
(* No coin is left behind.                                                 *)

\* Off a crossroad the two ends of the corridor stay the same ...
LEMMA SameEnds ==
    ASSUME NEW x \in Int, NEW y \in Int, InCorridor(x, y), ~Crossroad(x, y),
           NEW sx \in {-1, 0, 1}, NEW sy \in {-1, 0, 1}, sx = 0 \/ sy = 0,
           InCorridor(x + sx, y + sy), ~Crossroad(x + sx, y + sy)
    PROVE  Ends(x + sx, y + sy) = Ends(x, y)
<1> DEFINE nx == x + sx
           ny == y + sy
<1>1. nx \in Int /\ ny \in Int
  OBVIOUS
<1>2. CASE ~Aligned(x) /\ Aligned(y)
  <2>1. sy = 0 /\ ny = y /\ ~Aligned(nx)
    <3>1. sy = 0
      <4>1. SUFFICES ASSUME sy # 0 PROVE FALSE
        OBVIOUS
      <4>2. nx = x /\ ~Aligned(ny)
        <5>1. ny = y + 1 \/ ny = y - 1
          BY <4>1
        <5> QED  BY <1>2, <4>1, <5>1, LeaveTile
      <4> QED  BY <1>2, <4>2 DEF InCorridor
    <3>2. ny = y
      BY <3>1
    <3> QED  BY <1>2, <3>1, <3>2 DEF Crossroad
  <2>2. Tile(nx) = Tile(x)
    <3>1. nx = x + 1 \/ nx = x - 1 \/ nx = x
      OBVIOUS
    <3> QED  BY <1>2, <2>1, <3>1, StayInTile
  <2> QED  BY <1>2, <2>1, <2>2 DEF Ends
<1>3. CASE Aligned(x) /\ ~Aligned(y)
  <2>1. sx = 0 /\ nx = x /\ ~Aligned(ny)
    <3>1. sx = 0
      <4>1. SUFFICES ASSUME sx # 0 PROVE FALSE
        OBVIOUS
      <4>2. ny = y /\ ~Aligned(nx)
        <5>1. nx = x + 1 \/ nx = x - 1
          BY <4>1
        <5> QED  BY <1>3, <4>1, <5>1, LeaveTile
      <4> QED  BY <1>3, <4>2 DEF InCorridor
    <3>2. nx = x
      BY <3>1
    <3> QED  BY <1>3, <3>1, <3>2 DEF Crossroad
  <2>2. Tile(ny) = Tile(y)
    <3>1. ny = y + 1 \/ ny = y - 1 \/ ny = y
      OBVIOUS
    <3> QED  BY <1>3, <2>1, <3>1, StayInTile
  <2> QED  BY <1>3, <2>1, <2>2 DEF Ends
<1> QED  BY <1>2, <1>3 DEF InCorridor, Crossroad

\* ... and a player that leaves a crossroad has it as one of them.
LEMMA LeftEnd ==
    ASSUME NEW x \in Int, NEW y \in Int, Crossroad(x, y),
           NEW sx \in {-1, 0, 1}, NEW sy \in {-1, 0, 1}, sx = 0 \/ sy = 0,
           ~Crossroad(x + sx, y + sy)
    PROVE  <<Tile(x), Tile(y)>> \in Ends(x + sx, y + sy)
<1>1. Aligned(x) /\ Aligned(y) /\ Tile(x) \in Int /\ Tile(y) \in Int
  BY TileValue DEF Crossroad
<1>2. /\ Tile(x + 1) = Tile(x) /\ Tile(x - 1) + 1 = Tile(x)
      /\ Tile(y + 1) = Tile(y) /\ Tile(y - 1) + 1 = Tile(y)
      /\ ~Aligned(y + 1) /\ ~Aligned(y - 1)
  BY <1>1, LeaveTile
<1>3. CASE sy = 0
  <2>1. y + sy = y /\ (x + sx = x \/ x + sx = x + 1 \/ x + sx = x - 1)
    BY <1>3
  <2> QED  BY <1>1, <1>2, <2>1 DEF Ends, Crossroad
<1>4. CASE sx = 0
  <2>1. x + sx = x /\ (y + sy = y \/ y + sy = y + 1 \/ y + sy = y - 1)
    BY <1>4
  <2> QED  BY <1>1, <1>2, <2>1 DEF Ends, Crossroad
<1> QED  BY <1>3, <1>4

\* The coins sample the player on a clock of their own (coinBank.sv:23,
\* lab8.sv:96-105), and still the coin of the tile it leaves goes in that
\* very tick at the latest: never do both tiles it stands between have their
\* coins, the start tile apart.
THEOREM NoCoinMissed == Spec => []NoCoinLeftBehind
<1> DEFINE Inv == GameInv /\ NoCoinLeftBehind
<1>1. Init => Inv
  BY GameInit, PlayerStartTile DEF NoCoinLeftBehind, Init, PlayerInit
<1>2. Inv /\ [Next]_vars => Inv'
  <2>1. SUFFICES ASSUME Inv, [Next]_vars, ~Crossroad(playerX', playerY')
                 PROVE  ~(Ends(playerX', playerY') \subseteq coinLocs' \ {PlayerStart})
    BY GameNext DEF NoCoinLeftBehind
  <2>2. /\ PlayerInv /\ InCorridor(playerX, playerY) /\ GhostsTypeOK
        /\ InCorridor(playerX', playerY') /\ playerX \in Int /\ playerY \in Int
    BY <2>1, GameNext, CoordinatesInt
       DEF GameInv, BoardInv, PlayerInv, PlayerInMaze, PlayerTypeOK, GhostsInv, GhostsTypeOK
  <2>3. CASE UNCHANGED vars
    BY <2>1, <2>3 DEF vars, playerVars, NoCoinLeftBehind, coinLocs
  <2>4. CASE StartsOver
    <3>1. playerX' = PlayerStart[1] * TILE /\ playerY' = PlayerStart[2] * TILE
      BY <2>4 DEF StartsOver, PlayerReset
    <3> QED  BY <2>1, <3>1, StartCrossroad
  <2>5. CASE GoesOn
    <3>1. coinLocs' \subseteq coinLocs
      BY <2>1, <2>5 DEF GoesOn, CoinsReset, CoinsStep, GameInv, ResetInv, coinLocs
    <3>2. CASE UNCHANGED playerVars
      BY <2>1, <3>1, <3>2 DEF playerVars, NoCoinLeftBehind
    <3>3. CASE PlayerStep({walls, walls'})
      <4>1. PICK sx, sy \in {-1, 0, 1} :
                 /\ sx = 0 \/ sy = 0
                 /\ playerX' = playerX + sx /\ playerY' = playerY + sy
        BY <2>2, <3>3, PlayerStepsOne, WallsBoolean
      <4>2. CASE ~Crossroad(playerX, playerY)
        <5>1. Ends(playerX', playerY') = Ends(playerX, playerY)
          BY <2>1, <2>2, <4>1, <4>2, SameEnds
        <5> QED  BY <2>1, <3>1, <4>2, <5>1 DEF NoCoinLeftBehind
      <4>3. CASE Crossroad(playerX, playerY)
        <5> DEFINE t == <<Tile(playerX), Tile(playerY)>>
        <5>1. t \in Ends(playerX', playerY')
          BY <2>1, <2>2, <4>1, <4>3, LeftEnd
        <5>2. gameReset => t = PlayerStart
          BY <2>1, PlayerStartTile DEF GameInv, ResetInv
        <5>3. ~gameReset => t \notin coinLocs'
          BY <2>5, <4>3 DEF GoesOn, CoinsStep, CoinsUnder, coinLocs
        <5> QED  BY <5>1, <5>2, <5>3
      <4> QED  BY <4>2, <4>3
    <3> QED  BY <2>5, <3>2, <3>3 DEF GoesOn
  <2> QED  BY <2>1, <2>2, <2>3, <2>4, <2>5, NextCases
<1> QED  BY <1>1, <1>2, PTL DEF Spec
=============================================================================
