--------------------------------- MODULE Lab8 ---------------------------------
(***************************************************************************)
(* lab8.sv: the game.  The state machine of the game and the coins run on  *)
(* the 50 MHz clock Clk, the player on clkDivide and the ghosts on         *)
(* clkGhost, two clocks divided from Clk (module ClockDivider).            *)
(*                                                                         *)
(* A step is one tick of Clk, together with the edges of the divided       *)
(* clocks it causes.  The registers on Clk take the values they had        *)
(* before the tick.  The registers on a divided clock change just after    *)
(* it, so that inputs which change in the same tick (the walls, when the   *)
(* game changes state; the player, for a ghost; a reset that goes away)    *)
(* are sampled before or after the change: the model allows both.  Any     *)
(* tick may raise any of the divided clocks; ClockDivider says how often   *)
(* they really rise.                                                       *)
(*                                                                         *)
(* The keycode and the random numbers are registers the software writes at *)
(* any time: inputs of every step.  The initial state is the state the     *)
(* push button KEY[0] puts the registers in.                               *)
(***************************************************************************)
EXTENDS PlayerMovement, GhostMovement, CoinBank, GameState

\* The ghosts start in another column (6) than the player (10).
ASSUME StartAssumption == GhostStart[1] # PlayerStart[1]

VARIABLE Reset_h    \* the push button, inverted and registered

vars == <<playerVars, ghosts, invisible, gameStateVars, Reset_h>>

-----------------------------------------------------------------------------
\* playerHitDetectFinal: some ghost has the player.
playerHitDetect == \E i \in GHOSTS : killPlayer(ghosts[i], playerX, playerY)

\* The asynchronous reset of player, ghosts and coins.
gameReset == resetGame \/ Reset_h

walls == Closed(level, startCheck)

Init ==
    /\ PlayerInit /\ GhostsInit /\ CoinsInit /\ GameStateInit
    /\ Reset_h = TRUE

\* The registers clocked by Clk.  Reset_h holds the game's state machine
\* from the tick it is raised to the tick it falls; gameReset the coins.
ClkRegisters ==
    /\ Reset_h' \in BOOLEAN
    /\ IF Reset_h \/ Reset_h'
       THEN GameStateReset
       ELSE GameStateStep(playerHitDetect, boardCheck)
    /\ IF gameReset \/ gameReset'
       THEN CoinsReset
       ELSE CoinsStep(playerX, playerY)

\* The player, without and with a rising edge of clkDivide.  A reset that
\* ends in the tick of the edge may end too late for it.
PlayerHolds == IF gameReset' THEN PlayerReset ELSE UNCHANGED playerVars

PlayerClocked ==
    IF gameReset' THEN PlayerReset
    ELSE \/ PlayerStep({walls, walls'})
         \/ gameReset /\ UNCHANGED playerVars

\* Mutant: the ghosts' reset waits for their clock.
GhostsHold_NoReset == UNCHANGED ghosts

\* The ghosts, without and with a rising edge of clkGhost.
GhostsHold == IF gameReset' THEN GhostsReset ELSE UNCHANGED ghosts

GhostsClocked ==
    IF gameReset' THEN GhostsReset
    ELSE \E held \in SUBSET {i \in GHOSTS : gameReset} :
            GhostsStep({walls, walls'},
                       {<<playerX, playerY>>, <<playerX', playerY'>>}, held)

\* One tick of Clk: with no edge of a divided clock, with one, with both.
Tick       == ClkRegisters /\ PlayerHolds   /\ GhostsHold
PlayerTick == ClkRegisters /\ PlayerClocked /\ GhostsHold
GhostTick  == ClkRegisters /\ PlayerHolds   /\ GhostsClocked
BothTick   == ClkRegisters /\ PlayerClocked /\ GhostsClocked

Next == Tick \/ PlayerTick \/ GhostTick \/ BothTick

Spec == Init /\ [][Next]_vars

-----------------------------------------------------------------------------
TypeOK ==
    /\ PlayerTypeOK /\ GhostsTypeOK /\ CoinsTypeOK /\ GameStateTypeOK
    /\ Reset_h \in BOOLEAN

\* Two squares that overlap, without merely touching along a side.
Overlap(g, px, py) ==
    /\ g.x - px < lenContact /\ px - g.x < lenContact
    /\ g.y - py < lenContact /\ py - g.y < lenContact

Overlaps(i) == Overlap(ghosts[i], playerX, playerY)

\* ghostMovement.sv detects a collision at one exact distance only.  Yet a
\* ghost and the player never come to overlap unless both move in the same
\* tick: between two edges a tick of Clk sees the contact and restarts.
OverlapOnlyWhenBothMove ==
    [][\A i \in GHOSTS :
         Overlaps(i)' /\ ~Overlaps(i)
           => <<playerX, playerY>>' # <<playerX, playerY>> /\ ghosts'[i] # ghosts[i]]_vars

\* A collision seen at a tick of Clk starts over in that tick, whatever the
\* state: everything is back at its start, all coins are back, and the
\* collision wins over Enter and over the last coin.
CollisionStartsOver ==
    [][playerHitDetect =>
         /\ state' = "NEWGAME" /\ invisible' = {}
         /\ PlayerAtStart' /\ \A i \in GHOSTS : ghosts'[i] = GhostAtStart]_vars

\* While a new game waits for Enter the player stands at its start with
\* nothing eaten but the coin there, however long and whatever keys come.
NewGameIsFresh ==
    state = "NEWGAME" => PlayerAtStart /\ invisible \subseteq {PlayerStart}

\* No ghost reaches the player while a new game waits for Enter, although
\* the ghosts keep moving and the closed walls do not stop them.
NewGameIsSafe == state = "NEWGAME" => ~playerHitDetect

\* The game is won only with every coin eaten, and stays so until a restart.
WonMeansCleared == state = "BEAT1" => coinLocs = {}

\* Coins come back only all together, with the player and the state machine
\* back at the start.
CoinsReturnOnlyWithNewGame ==
    [][~(coinLocs' \subseteq coinLocs)
         => state' = "NEWGAME" /\ PlayerAtStart' /\ coinLocs' = levelCoins]_vars

\* In a corridor the player stands between a tile it has emptied and another:
\* never do both tiles at its ends have their coins, the one it comes from
\* and the one it goes to.  The tile ahead keeps its coin until it is
\* reached; and nothing is said of the start tile, which the player may leave
\* in the very tick its reset ends.
\* The coins sample the player on Clk, the player moves on clkDivide.
Ends(x, y) == {<<Tile(x), Tile(y)>>,
               IF Aligned(y) THEN <<Tile(x) + 1, Tile(y)>> ELSE <<Tile(x), Tile(y) + 1>>}

NoCoinLeftBehind ==
    ~Crossroad(playerX, playerY)
        => ~(Ends(playerX, playerY) \subseteq coinLocs \ {PlayerStart})

\* A ghost passes a wall of the level only upwards, in a tick that finds or
\* leaves the walls closed, or downwards from the row above the board.
ThroughWall(g, h) ==
    /\ Crossroad(g.x, g.y) /\ h.x = g.x /\ h.y \in {g.y - 1, g.y + 1}
    /\ ~OpenToBelow(Tile(g.x), Tile(IF h.y < g.y THEN h.y ELSE g.y))

GhostsPassWallsUpwards ==
    [][\A i \in GHOSTS :
         LET g == ghosts[i]
             h == ghosts'[i]
         IN  ThroughWall(g, h) => \/ h.y < g.y /\ (walls \/ walls')
                                  \/ h.y > g.y /\ Tile(g.y) = 0]_vars

-----------------------------------------------------------------------------
(* clkGhost never stops, so edges of it keep coming.                       *)

LiveSpec == Spec /\ WF_vars(GhostTick \/ BothTick)

\* While nobody plays the ghosts leave the board: if the game stays in
\* NEWGAME or BEAT1 without a reset, all of them end up in the row above the
\* board or on its first row, for good.
GhostsLeaveClosedBoard ==
    <>[](startCheck /\ ~gameReset)
        => <>[](\A i \in GHOSTS : ghosts[i].y <= TILE)
=============================================================================
