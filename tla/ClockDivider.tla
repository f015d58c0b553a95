----------------------------- MODULE ClockDivider -----------------------------
(***************************************************************************)
(* The clock dividers of lab8.sv: two counters of WIDTH bits on the 50 MHz *)
(* clock.  A counter that has reached its limit starts over and toggles    *)
(* its clock: clkDivide steps the player, clkGhost the ghosts.             *)
(***************************************************************************)
EXTENDS Integers

CONSTANTS
    WIDTH,          \* bits of the counters (18)
    PLAYER_LIMIT,   \* 200000
    GHOST_LIMIT     \* 262000

\* The counters reach their limits before they wrap.
ASSUME DividerAssumption ==
    /\ WIDTH \in Nat /\ 2^WIDTH \in Nat
    /\ PLAYER_LIMIT \in Nat /\ GHOST_LIMIT \in Nat
    /\ PLAYER_LIMIT < 2^WIDTH /\ GHOST_LIMIT < 2^WIDTH

VARIABLES
    count, ghostCount,    \* the counters
    clkDivide, clkGhost   \* the clocks made from them

dividerVars == <<count, ghostCount, clkDivide, clkGhost>>

-----------------------------------------------------------------------------
DividerInit == count = 0 /\ ghostCount = 0 /\ clkDivide = 0 /\ clkGhost = 0

\* Mutant: the divider of the ghosts runs through the reset.
DividerReset_PlayerOnly == count' = 0 /\ clkDivide' = 0 /\ UNCHANGED <<ghostCount, clkGhost>>

\* Mutant: the clock of the ghosts is reset to one.
DividerReset_GhostHigh == count' = 0 /\ ghostCount' = 0 /\ clkDivide' = 0 /\ clkGhost' = 1

\* The asynchronous reset.
DividerReset == count' = 0 /\ ghostCount' = 0 /\ clkDivide' = 0 /\ clkGhost' = 0

\* Mutant: the counter goes one past its limit.
NextCount_OneMore(c, limit) == IF c > limit THEN 0 ELSE (c + 1) % 2^WIDTH

\* Mutant: a limit the counter cannot reach, as in earlier versions of lab8.sv.
NextClk_WideLimit(clk, c, limit) == IF c >= 10 * limit THEN 1 - clk ELSE clk

NextCount(c, limit)    == IF c >= limit THEN 0 ELSE (c + 1) % 2^WIDTH
NextClk(clk, c, limit) == IF c >= limit THEN 1 - clk ELSE clk

\* One rising edge of the 50 MHz clock.
DividerTick ==
    /\ count'      = NextCount(count, PLAYER_LIMIT)
    /\ clkDivide'  = NextClk(clkDivide, count, PLAYER_LIMIT)
    /\ ghostCount' = NextCount(ghostCount, GHOST_LIMIT)
    /\ clkGhost'   = NextClk(clkGhost, ghostCount, GHOST_LIMIT)

DividerNext == DividerTick \/ DividerReset

DividerSpec == DividerInit /\ [][DividerNext]_dividerVars /\ WF_dividerVars(DividerTick)

-----------------------------------------------------------------------------
PlayerEdge == clkDivide = 0 /\ clkDivide' = 1
GhostEdge  == clkGhost = 0 /\ clkGhost' = 1

\* The counters stay within their limits, far from the width of the register.
DividerTypeOK ==
    /\ count \in 0..PLAYER_LIMIT /\ ghostCount \in 0..GHOST_LIMIT
    /\ clkDivide \in {0, 1} /\ clkGhost \in {0, 1}

\* Where in its period of 2 * (limit + 1) ticks a clock is.
Phase(clk, c, limit) == c + clk * (limit + 1)
PlayerPhase == Phase(clkDivide, count, PLAYER_LIMIT)
GhostPhase  == Phase(clkGhost, ghostCount, GHOST_LIMIT)

\* The two clocks run in step as far as odd and even ticks go, because both
\* periods are even and both dividers leave a reset together.
PhasesAgreeMod2 == (PlayerPhase - GhostPhase) % 2 = 0

\* Once the push button is let go for good, both clocks rise for ever.
BothClocksRun ==
    <>[][DividerTick]_dividerVars
        => []<><<PlayerEdge>>_dividerVars /\ []<><<GhostEdge>>_dividerVars

\* With two even limits the edges do meet, over and over: the coincidence
\* that OverlapOnlyWhenBothMove (module Lab8) speaks of really happens.
EdgesMeet ==
    <>[][DividerTick]_dividerVars => []<><<PlayerEdge /\ GhostEdge>>_dividerVars
=============================================================================
