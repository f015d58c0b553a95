-------------------------------- MODULE MCMovers ------------------------------
(***************************************************************************)
(* The player alone, and one ghost alone, on the board of boundaryBank.sv  *)
(* at its real size.  The player does not look at the ghosts, and a ghost  *)
(* looks at the player's position only, which here is any of MCPlaces at   *)
(* every step: so each moves while the other stands at its start, and      *)
(* their states add up instead of multiplying.  The ghosts do not see each *)
(* other, so one of them shows what each can do.                           *)
(***************************************************************************)
EXTENDS PlayerMovement, GhostMovement, BoundaryBank

MCPlayerStart == <<10, 10>>
MCGhostStart  == <<6, 6>>

\* A ghost only compares its position with the player's: the corners of the
\* board, its middle and the right margin give every outcome on most tiles.
MCPlaces == {<<32, 32>>, <<384, 32>>, <<32, 384>>, <<384, 384>>,
             <<320, 320>>, <<192, 192>>, <<416, 192>>}

MoversInit == PlayerInit /\ GhostsInit

MoversNext ==
    \/ GhostsInit /\ PlayerNext /\ UNCHANGED ghosts
    \/ PlayerAtStart /\ GhostsNext(MCPlaces) /\ UNCHANGED playerVars

MoversSpec == MoversInit /\ [][MoversNext]_<<playerVars, ghosts>>
===============================================================================
