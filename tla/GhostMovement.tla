---------------------------- MODULE GhostMovement -----------------------------
(***************************************************************************)
(* ghostMovement.sv: the ghosts, one instance of the module each.  One     *)
(* step is one rising edge of clkGhost, which all instances share.  On a   *)
(* crossroad a ghost picks its turn from the open turns, from where the    *)
(* player is and from two random bits; between crossroads it keeps going.  *)
(* killPlayer reports that a ghost touches the player.                     *)
(*                                                                         *)
(* The two bits rSelect are the field of the 16-bit input generation that  *)
(* generationCount points at.  The software rewrites the whole input with  *)
(* rand() all the time, so the bits are an arbitrary input of every step   *)
(* and the counter, which only selects the field, is left out.             *)
(***************************************************************************)
EXTENDS Maze

CONSTANTS
    GHOSTS,       \* the instances: red, orange, blue and pink
    GhostStart,   \* <<column, row>> of the start tile, the same for all
    lenContact    \* distance of centres at which a ghost touches the player

\* The comparison with lenContact works on ten bits, and a ghost that passes
\* from one tile to the next passes every distance below it.
ASSUME GhostAssumption ==
    /\ GhostStart \in (1..COLS) \X (1..ROWS)
    /\ lenContact \in 1..(TILE - 1)

\* Tiles walled in on all four sides fill the blocks of the level, but the
\* ghosts' start column has none of them.
ASSUME ColumnAssumption ==
    \A ty \in 1..ROWS : wallVerify(FALSE, GhostStart[1], ty) # {}

VARIABLE ghosts    \* per instance: x, y (posX, posY) and inertia

Ghost == [x : Coordinates, y : Coordinates, inertia : Inertias]

-----------------------------------------------------------------------------
(* Comparisons with the player, in ten bits of two's complement.           *)

Minus(a, b)    == (a - b) % PosMod
Negative(d)    == d >= PosMod \div 2
Difference(a, b) == IF Negative(Minus(a, b)) THEN Minus(b, a) ELSE Minus(a, b)
Within(d)      == Negative(Minus(d, lenContact))
AtContact(d)   == Minus(d, lenContact) = 0

\* rightPass for x and downPass for y: the ghost is beyond the player.
Beyond(a, b)   == Minus(a, b) # 0 /\ ~Negative(Minus(a, b))
\* leftPass for x and upPass for y: the ghost is before the player.
Before(a, b)   == Negative(Minus(a, b))

\* Mutant: contact in a row only.
killPlayer_InRows(g, px, py) ==
    AtContact(Difference(g.x, px)) /\ Within(Difference(g.y, py))

\* killPlayer: the ghost's square and the player's touch along a side.
killPlayer(g, px, py) ==
    LET dx == Difference(g.x, px)
        dy == Difference(g.y, py)
    IN  \/ AtContact(dx) /\ Within(dy)
        \/ AtContact(dy) /\ Within(dx)

-----------------------------------------------------------------------------
(* The turn a ghost takes on a crossroad.                                  *)

\* Mutant: the bend between left and up names the wrong way in.
TwoWayTurn_WrongWayIn(open, inertia, rSelect) ==
    LET bend == CASE open = {"left", "right"} -> <<"left", "left", "right">>
                  [] open = {"left", "up"}    -> <<"up", "left", "up">>
                  [] open = {"left", "down"}  -> <<"up", "left", "down">>
                  [] open = {"right", "up"}   -> <<"down", "right", "up">>
                  [] open = {"right", "down"} -> <<"up", "right", "down">>
                  [] OTHER                    -> <<"up", "up", "down">>
    IN  IF (inertia = bend[1]) = (rSelect # 3) THEN bend[2] ELSE bend[3]

\* Two open turns: stay on the way, or with rSelect = 3 turn round.  A bend
\* <<via, a, b>> leads a ghost that came by via to a, any other to b.
TwoWayTurn(open, inertia, rSelect) ==
    LET bend == CASE open = {"left", "right"} -> <<"left", "left", "right">>
                  [] open = {"left", "up"}    -> <<"down", "left", "up">>
                  [] open = {"left", "down"}  -> <<"up", "left", "down">>
                  [] open = {"right", "up"}   -> <<"down", "right", "up">>
                  [] open = {"right", "down"} -> <<"up", "right", "down">>
                  [] OTHER                    -> <<"up", "up", "down">>
    IN  IF (inertia = bend[1]) = (rSelect # 3) THEN bend[2] ELSE bend[3]

\* Three open turns: chase the player.
ThreeWayTurn(open, g, px, py) ==
    CASE "down" \notin open -> IF Beyond(g.y, py) THEN "up"
                               ELSE IF Beyond(g.x, px) THEN "left" ELSE "right"
      [] "up" \notin open   -> IF Before(g.y, py) THEN "down"
                               ELSE IF Beyond(g.x, px) THEN "left" ELSE "right"
      [] "right" \notin open -> IF Beyond(g.x, px) THEN "left"
                                ELSE IF Beyond(g.y, py) THEN "up" ELSE "down"
      [] OTHER              -> IF Before(g.x, px) THEN "right"
                               ELSE IF Beyond(g.y, py) THEN "up" ELSE "down"

\* Four open turns: the random bits alone.
FourWayTurn(rSelect) == <<"left", "right", "up", "down">>[rSelect + 1]

\* Mutant: between closed walls a ghost waits.
GhostTurn_Waits(open, g, px, py, rSelect) ==
    CASE open = {}         -> "none"
      [] open = Directions -> FourWayTurn(rSelect)
      [] \E d \in Directions : open = {d}              -> CHOOSE d \in open : TRUE
      [] \E d \in Directions : open = Directions \ {d} -> ThreeWayTurn(open, g, px, py)
      [] OTHER -> TwoWayTurn(open, g.inertia, rSelect)

\* Mutant: the four way turn also where three turns are open.
GhostTurn_NoThreeWay(open, g, px, py, rSelect) ==
    CASE open = {} -> "up"
      [] \E d \in Directions : open = {d} -> CHOOSE d \in open : TRUE
      [] \E d, e \in Directions : d # e /\ open = {d, e}
                    -> TwoWayTurn(open, g.inertia, rSelect)
      [] OTHER -> FourWayTurn(rSelect)

\* No open turn (closed walls): up, through the wall.
GhostTurn(open, g, px, py, rSelect) ==
    CASE open = {}         -> "up"
      [] open = Directions -> FourWayTurn(rSelect)
      [] \E d \in Directions : open = {d}              -> CHOOSE d \in open : TRUE
      [] \E d \in Directions : open = Directions \ {d} -> ThreeWayTurn(open, g, px, py)
      [] OTHER -> TwoWayTurn(open, g.inertia, rSelect)

GhostNextInertia(g, closed, px, py, rSelect) ==
    IF Crossroad(g.x, g.y)
    THEN GhostTurn(wallVerify(closed, Tile(g.x), Tile(g.y)), g, px, py, rSelect)
    ELSE g.inertia

\* What its turn can be: on some state of the walls, a position of the player
\* out of the set given, and any random bits.
GhostInertias(g, walls, places) ==
    {GhostNextInertia(g, closed, p[1], p[2], rSelect) :
        closed \in walls, p \in places, rSelect \in 0..3}

GhostMove(g, d) == [x |-> Add(g.x, DeltaX(d)), y |-> Add(g.y, DeltaY(d)), inertia |-> d]

-----------------------------------------------------------------------------
GhostAtStart == [x |-> GhostStart[1] * TILE, y |-> GhostStart[2] * TILE, inertia |-> "none"]

GhostsInit  == ghosts = [i \in GHOSTS |-> GhostAtStart]

\* The asynchronous reset.
GhostsReset == ghosts' = [i \in GHOSTS |-> GhostAtStart]

\* One rising edge of clkGhost: every ghost that is not held steps.
GhostsStep(walls, places, held) ==
    \E d \in [GHOSTS -> Inertias] :
        /\ \A i \in GHOSTS : d[i] \in GhostInertias(ghosts[i], walls, places)
        /\ ghosts' = [i \in GHOSTS |->
                         IF i \in held THEN ghosts[i] ELSE GhostMove(ghosts[i], d[i])]

\* The module on its own, the player being anywhere in places.
GhostsNext(places) == GhostsStep(BOOLEAN, places, {}) \/ GhostsReset

GhostsSpec(places) == GhostsInit /\ [][GhostsNext(places)]_ghosts

-----------------------------------------------------------------------------
GhostsTypeOK == ghosts \in [GHOSTS -> Ghost]

\* Where a ghost can be: in a corridor, on a tile of the board or of the row
\* above it, or between two tiles of a column, going up (closed walls do not
\* stop it) or coming back down from the row above the board.  It never is
\* left, right or below of the board, and it moves along what it is in.
GhostOnTrack(g) ==
    LET tx == Tile(g.x)
        ty == Tile(g.y)
    IN  \/ Aligned(g.x) /\ Aligned(g.y) /\ (OpenTile(tx, ty) \/ (tx \in 1..COLS /\ ty = 0))
        \/ /\ ~Aligned(g.x) /\ Aligned(g.y)
           /\ OpenToRight(tx, ty)
           /\ g.inertia \in {"left", "right"}
        \/ /\ Aligned(g.x) /\ ~Aligned(g.y)
           /\ tx \in 1..COLS /\ ty \in 0..(ROWS - 1)
           /\ \/ g.inertia = "up"
              \/ g.inertia = "down" /\ (ty = 0 \/ OpenToBelow(tx, ty))

GhostsOnTrack == \A i \in GHOSTS : GhostOnTrack(ghosts[i])

\* In a corridor tile with two open turns a ghost goes on, and comes back the
\* way it came exactly when its random bits are 3: the six bends of
\* ghostMovement.sv name the right way in for every way a ghost can come.
CameFrom(g) == Opposite(g.inertia)

GhostsTurnRoundOnThree ==
    \A i \in GHOSTS, rSelect \in 0..3 :
        LET g    == ghosts[i]
            open == wallVerify(FALSE, Tile(g.x), Tile(g.y))
            next == GhostNextInertia(g, FALSE, 0, 0, rSelect)
        IN  Crossroad(g.x, g.y) /\ CameFrom(g) \in open
              /\ (\E a, b \in Directions : a # b /\ open = {a, b})
            => (next = CameFrom(g) <=> rSelect = 3)

\* A ghost never stands still: every edge of its clock moves it one pixel
\* along one axis, on the board as off it, with walls open or closed.
Moved(g, h) == {h.x - g.x, h.y - g.y} \in {{0, 1}, {0, -1}}

GhostsNeverRest ==
    [][ghosts' = [i \in GHOSTS |-> GhostAtStart]
         \/ \A i \in GHOSTS : Moved(ghosts[i], ghosts'[i])]_ghosts
=============================================================================
