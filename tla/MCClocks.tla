-------------------------------- MODULE MCClocks ------------------------------
(***************************************************************************)
(* What counts clock ticks on the board: the dividers on Clk and the VGA   *)
(* controller on VGA_CLK, which a PLL makes.  The two clocks take turns in *)
(* any order, and the reset reaches either side at any tick.               *)
(***************************************************************************)
EXTENDS ClockDivider, VgaController

clocksVars == <<dividerVars, vgaVars>>

ClocksInit == DividerInit /\ VgaInit

ClocksNext ==
    \/ DividerNext /\ UNCHANGED vgaVars
    \/ VgaNext /\ UNCHANGED dividerVars

ClocksSpec ==
    /\ ClocksInit /\ [][ClocksNext]_clocksVars
    /\ WF_clocksVars(DividerTick /\ UNCHANGED vgaVars)
    /\ WF_clocksVars(VgaTick /\ UNCHANGED dividerVars)
===============================================================================
