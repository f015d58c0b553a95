------------------------------- MODULE Lab8Timed ------------------------------
(***************************************************************************)
(* lab8.sv with its clock dividers: Lab8, where a tick raises exactly the  *)
(* divided clocks that the counters of ClockDivider raise in it.           *)
(***************************************************************************)
EXTENDS Lab8, ClockDivider

timedVars == <<vars, dividerVars>>

TimedInit == Init /\ DividerInit

\* The dividers are reset by Reset_h, from the tick it is raised to the tick
\* it falls, and run else.
Dividers == IF Reset_h \/ Reset_h' THEN DividerReset ELSE DividerTick

\* One tick of Clk: the button, the dividers, then what their edges step.
TimedTick ==
    /\ Reset_h' \in BOOLEAN
    /\ Dividers
    /\ \/ ~PlayerEdge /\ ~GhostEdge /\ Tick
       \/ PlayerEdge  /\ ~GhostEdge /\ PlayerTick
       \/ ~PlayerEdge /\ GhostEdge  /\ GhostTick
       \/ PlayerEdge  /\ GhostEdge  /\ BothTick

TimedSpec == TimedInit /\ [][TimedTick]_timedVars

-----------------------------------------------------------------------------
\* The timed game is a game: what holds of Lab8 holds of it.
ImplementsLab8 == Spec

\* A ghost and the player come to overlap without having touched only in a
\* tick in which both clocks rise.  With the two even limits of lab8.sv there
\* are such ticks over and over (EdgesMeet), so that the game can miss a
\* collision.
OverlapNeedsBothEdges ==
    [][\A i \in GHOSTS : Overlaps(i)' /\ ~Overlaps(i) => PlayerEdge /\ GhostEdge]_timedVars
=============================================================================
