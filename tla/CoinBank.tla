------------------------------- MODULE CoinBank -------------------------------
(***************************************************************************)
(* coinBank.sv: one state machine per coin, clocked by the 50 MHz clock.   *)
(* A coin turns invisible when the player stands exactly on its tile, and  *)
(* visible again only by the asynchronous reset.                           *)
(*                                                                         *)
(* The hardware has a machine on every tile; the machines of tiles where   *)
(* the level has no coin are left out, their output is masked by the       *)
(* level's table (coinReset) whatever their state.                         *)
(***************************************************************************)
EXTENDS Maze

CONSTANT levelCoins    \* the tiles of the level that have a coin

ASSUME CoinsAssumption == levelCoins \subseteq (1..COLS) \X (1..ROWS)

VARIABLE invisible     \* the coins whose machine is in state INVISIBLE

CoinsInit  == invisible = {}
CoinsReset == invisible' = {}

\* Mutant: the level's table of coins is not asked.
CoinsUnder_NoTable(px, py) ==
    IF Crossroad(px, py) THEN {<<Tile(px), Tile(py)>>} ELSE {}

\* Mutant: the columns of the coins count from 0.
CoinsUnder_FromZero(px, py) ==
    {t \in levelCoins : Crossroad(px, py) /\ t = <<Tile(px) - 1, Tile(py)>>}

\* The coins on the tile of a player at pixel (px, py).
CoinsUnder(px, py) ==
    {t \in levelCoins : Crossroad(px, py) /\ t = <<Tile(px), Tile(py)>>}

\* One rising edge of the clock.
CoinsStep(px, py) == invisible' = invisible \cup CoinsUnder(px, py)

\* presentCheck of all rows, and boardCheck: some coin is left.
coinLocs   == levelCoins \ invisible
boardCheck == coinLocs # {}

CoinsTypeOK == invisible \subseteq levelCoins
=============================================================================
