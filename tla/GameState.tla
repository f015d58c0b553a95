------------------------------- MODULE GameState ------------------------------
(***************************************************************************)
(* gameState.sv: the state machine of the game, clocked by the 50 MHz      *)
(* clock.  NEWGAME waits for Enter, LEVEL1 is play until no coin is left,  *)
(* BEAT1 waits for Enter again; a collision leads back to NEWGAME from any *)
(* state and raises resetGame for one tick.                                *)
(***************************************************************************)
EXTENDS Integers

VARIABLES
    state,      \* NEWGAME, LEVEL1 or BEAT1
    resetGame   \* the registered reset of player, ghosts and coins

gameStateVars == <<state, resetGame>>

GameStates == {"NEWGAME", "LEVEL1", "BEAT1"}

GameStateInit == state = "NEWGAME" /\ resetGame = TRUE

\* The asynchronous reset by the push button.
GameStateReset == state' = "NEWGAME" /\ resetGame' = TRUE

\* next_state, when no ghost has the player.
NextState(key, screenCheck) ==
    CASE state = "LEVEL1" /\ screenCheck             -> "LEVEL1"
      [] state = "LEVEL1" /\ ~screenCheck            -> "BEAT1"
      [] state # "LEVEL1" /\ key = "enter"           -> "LEVEL1"
      [] OTHER                                       -> state

\* Mutant: a collision raises the reset but keeps the state.
GameStateStep_KeepsState(gameOver, screenCheck) ==
    /\ state' \in {NextState(key, screenCheck) : key \in {"enter", "other"}}
    /\ resetGame' = gameOver

\* Mutant: a collision counts in play only.
GameStateStep_InPlayOnly(gameOver, screenCheck) ==
    \/ gameOver /\ state = "LEVEL1" /\ state' = "NEWGAME" /\ resetGame' = TRUE
    \/ /\ ~(gameOver /\ state = "LEVEL1")
       /\ state' \in {NextState(key, screenCheck) : key \in {"enter", "other"}}
       /\ resetGame' = FALSE

\* Mutant: play after a win starts with a reset of its own.
GameStateStep_ResetsOnReplay(gameOver, screenCheck) ==
    \/ gameOver /\ state' = "NEWGAME" /\ resetGame' = TRUE
    \/ /\ ~gameOver
       /\ state' \in {NextState(key, screenCheck) : key \in {"enter", "other"}}
       /\ resetGame' = (state = "BEAT1" /\ state' = "LEVEL1")

\* One rising edge of the clock, with any key.
GameStateStep(gameOver, screenCheck) ==
    \/ gameOver /\ state' = "NEWGAME" /\ resetGame' = TRUE
    \/ /\ ~gameOver
       /\ state' \in {NextState(key, screenCheck) : key \in {"enter", "other"}}
       /\ resetGame' = FALSE

\* Mutant: the walls are open while a new game waits.
startCheck_AfterWin == state = "BEAT1"

\* The outputs: closed walls unless in play; always the one level there is.
startCheck == state \in {"NEWGAME", "BEAT1"}
level      == 1

GameStateTypeOK == state \in GameStates /\ resetGame \in BOOLEAN
=============================================================================
