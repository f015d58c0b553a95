-------------------------------- MODULE MCLab8 --------------------------------
(***************************************************************************)
(* The game on a board of 3 x 3 tiles of 4 pixels, with tiles of one, two, *)
(* three and four open turns and one walled in on all sides like those of  *)
(* the blocks of the real board, an open right border in row 2 as in rows  *)
(* 6 and 7 there, and the start column of the ghosts apart from the start  *)
(* tile of the player:                                                     *)
(*                                                                         *)
(*        +--+--+--+                                                       *)
(*        |##|    o|        o  coins (the start of the player has one)     *)
(*        +--+  +  +                                                       *)
(*        |   G   o        G  start of the ghosts                          *)
(*        +--+  +  +                                                       *)
(*        |       P|        P  start of the player                         *)
(*        +--+--+--+                                                       *)
(***************************************************************************)
EXTENDS Lab8

MCCols == 3
MCRows == 3

MCOpenLinesX == {<<1, 2>>, <<1, 3>>, <<2, 2>>, <<2, 3>>}   \* <<line, column>>
MCOpenLinesY == {<<1, 2>>, <<2, 1>>, <<2, 2>>, <<2, 3>>,
                 <<3, 1>>, <<3, 2>>}                                  \* <<row, line>>

MCLevelX == [line \in 0..MCRows |-> [col \in 1..MCCols |-> <<line, col>> \notin MCOpenLinesX]]
MCLevelY == [row \in 1..MCRows |-> [line \in 0..MCCols |-> <<row, line>> \notin MCOpenLinesY]]

MCPlayerStart == <<3, 3>>
MCGhostStart  == <<2, 2>>
MCLevelCoins  == {<<3, 1>>, <<3, 2>>, <<3, 3>>}
MCOneCoin     == {<<1, 2>>}
===============================================================================
