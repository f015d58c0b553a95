---------------------------- MODULE PlayerMovement ----------------------------
(***************************************************************************)
(* playerMovement.sv: the position and the inertia of the player.  One     *)
(* step is one rising edge of the module's clock (clkDivide): the key      *)
(* takes effect on a crossroad if the turn is open, and in the middle of a *)
(* corridor only to turn back; the inertia carries the player on until a   *)
(* wall stops it.                                                          *)
(*                                                                         *)
(* The registers posXTurnPrev and posYTurnPrev are left out: nothing but   *)
(* the sprite's direction playerDir depends on them.                       *)
(***************************************************************************)
EXTENDS Maze

CONSTANT PlayerStart   \* <<column, row>> of the start tile ((320, 320) pixels)

ASSUME PlayerStartAssumption == PlayerStart \in (1..COLS) \X (1..ROWS)

VARIABLES
    playerX, playerY,  \* posX, posY
    playerInertia      \* (posXInertia, posYInertia)

playerVars == <<playerX, playerY, playerInertia>>

\* The four direction keys (A, D, W, S), Enter, and any other keycode.
Keys == Directions \cup {"enter", "other"}

-----------------------------------------------------------------------------
PlayerAtStart ==
    /\ playerX = PlayerStart[1] * TILE
    /\ playerY = PlayerStart[2] * TILE
    /\ playerInertia = "none"

PlayerInit == PlayerAtStart

\* The asynchronous reset.
PlayerReset ==
    /\ playerX' = PlayerStart[1] * TILE
    /\ playerY' = PlayerStart[2] * TILE
    /\ playerInertia' = "none"

\* On a crossroad: an open turn that is asked for, else straight on, else stop.
CrossroadInertia(key, open) ==
    CASE key \in open                              -> key
      [] key \notin open /\ playerInertia \in open -> playerInertia
      [] OTHER                                     -> "none"

\* Mutant: any direction key turns, not only the one back.
CorridorInertia_AnyTurn(key) == IF key \in Directions THEN key ELSE playerInertia

\* Between crossroads: turn back if that is asked for, else straight on.
CorridorInertia(key) ==
    IF key \in Directions /\ key = Opposite(playerInertia) THEN key ELSE playerInertia

PlayerNextInertia(key, closed) ==
    IF Crossroad(playerX, playerY)
    THEN CrossroadInertia(key, wallVerify(closed, Tile(playerX), Tile(playerY)))
    ELSE CorridorInertia(key)

PlayerMove(d) ==
    /\ playerInertia' = d
    /\ playerX' = Add(playerX, DeltaX(d))
    /\ playerY' = Add(playerY, DeltaY(d))

\* One rising edge of the player's clock, with any key and some state of the
\* walls out of the set given.
PlayerStep(walls) ==
    \E d \in {PlayerNextInertia(key, closed) : key \in Keys, closed \in walls} :
        PlayerMove(d)

\* The module on its own: walls closed or open at any step.
PlayerNext == PlayerStep(BOOLEAN) \/ PlayerReset

PlayerSpec == PlayerInit /\ [][PlayerNext]_playerVars

-----------------------------------------------------------------------------
PlayerTypeOK ==
    /\ playerX \in Coordinates /\ playerY \in Coordinates
    /\ playerInertia \in Inertias

\* The player never is inside a wall of the level, whatever keys come when
\* and although the walls open and close under it (playerMovement.sv reads
\* the walls on crossroads only), and in a corridor it moves along it.
PlayerInMaze ==
    /\ InCorridor(playerX, playerY)
    /\ ~Aligned(playerX) => playerInertia \in {"left", "right"}
    /\ ~Aligned(playerY) => playerInertia \in {"up", "down"}

\* No one-way doors: where the player stopped or arrived, the way back is
\* open as soon as the walls of the level are up (boundaryBank.sv's two
\* tables and wallVerifiers.sv's margins agree).
PlayerCanTurnBack ==
    Crossroad(playerX, playerY) /\ playerInertia # "none"
        => Opposite(playerInertia) \in wallVerify(FALSE, Tile(playerX), Tile(playerY))
=============================================================================
