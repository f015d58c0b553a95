--------------------------- MODULE Lab8Timed_proofs ---------------------------
(***************************************************************************)
(* The game with its clock dividers: every tick is a tick of the game, and *)
(* a collision escapes only where the edges of both clocks meet.           *)
(***************************************************************************)
EXTENDS Lab8Timed, Lab8_proofs

-----------------------------------------------------------------------------
(* The clock dividers, for all widths and limits.                          *)

DividerInv == DividerTypeOK /\ PhasesAgreeMod2

\* A counter within its limit stays there, and never wraps (lab8.sv:94-105).
LEMMA NextCountValue ==
    ASSUME NEW limit \in Nat, limit < 2^WIDTH, NEW c \in 0..limit
    PROVE  /\ NextCount(c, limit) = IF c = limit THEN 0 ELSE c + 1
           /\ NextCount(c, limit) \in 0..limit
<1>1. 2^WIDTH \in Nat
  BY DividerAssumption
<1>2. CASE c = limit
  BY <1>2 DEF NextCount
<1>3. CASE c # limit
  <2>1. c + 1 \in 0..limit
    BY <1>3
  <2>2. (c + 1) % 2^WIDTH = c + 1
    BY <1>1, <2>1, SMT
  <2> QED  BY <1>3, <2>1, <2>2 DEF NextCount
<1> QED  BY <1>2, <1>3

\* A tick advances the phase of a clock by one, or back from the end of its
\* period to 0: by an odd number either way, the period being even.
LEMMA PhaseStep ==
    ASSUME NEW limit \in Nat, limit < 2^WIDTH, NEW c \in 0..limit, NEW clk \in {0, 1}
    PROVE  LET p == Phase(clk, c, limit)
               q == Phase(NextClk(clk, c, limit), NextCount(c, limit), limit)
           IN  p \in Int /\ q \in Int /\ (q = p + 1 \/ q = p - (2 * limit + 1))
<1>1. NextCount(c, limit) = IF c = limit THEN 0 ELSE c + 1
  BY NextCountValue
<1>2. NextClk(clk, c, limit) = IF c = limit THEN 1 - clk ELSE clk
  BY DEF NextClk
<1> QED
  <2>1. CASE clk = 0
    BY <1>1, <1>2, <2>1 DEF Phase
  <2>2. CASE clk = 1
    BY <1>1, <1>2, <2>2 DEF Phase
  <2> QED  BY <2>1, <2>2

\* Odd steps of both keep the parity of a difference.
LEMMA ParityKept ==
    ASSUME NEW p \in Int, NEW q \in Int, (p - q) % 2 = 0, NEW m \in Int, NEW n \in Int
    PROVE  /\ ((p + 1) - (q + 1)) % 2 = 0
           /\ ((p + 1) - (q - (2 * n + 1))) % 2 = 0
           /\ ((p - (2 * m + 1)) - (q + 1)) % 2 = 0
           /\ ((p - (2 * m + 1)) - (q - (2 * n + 1))) % 2 = 0
  BY SMT

LEMMA DividerInvInit == DividerInit => DividerInv
  BY DividerAssumption DEF DividerInit, DividerInv, DividerTypeOK, PhasesAgreeMod2,
     PlayerPhase, GhostPhase, Phase

LEMMA DividerInvStep == DividerInv /\ [DividerNext]_dividerVars => DividerInv'
<1> SUFFICES ASSUME DividerInv, [DividerNext]_dividerVars
             PROVE  DividerInv'
  OBVIOUS
<1> USE DividerAssumption
<1>1. CASE DividerTick
  <2>1. DividerTypeOK'
    <3>1. count' \in 0..PLAYER_LIMIT /\ ghostCount' \in 0..GHOST_LIMIT
      BY <1>1, NextCountValue DEF DividerTick, DividerInv, DividerTypeOK
    <3>2. clkDivide' \in {0, 1} /\ clkGhost' \in {0, 1}
      BY <1>1 DEF DividerTick, DividerInv, DividerTypeOK, NextClk
    <3> QED  BY <3>1, <3>2 DEF DividerTypeOK
  <2>2. PhasesAgreeMod2'
    <3>1. /\ PlayerPhase \in Int /\ PlayerPhase' \in Int
          /\ \/ PlayerPhase' = PlayerPhase + 1
             \/ PlayerPhase' = PlayerPhase - (2 * PLAYER_LIMIT + 1)
      BY <1>1, PhaseStep DEF DividerTick, DividerInv, DividerTypeOK, PlayerPhase
    <3>2. /\ GhostPhase \in Int /\ GhostPhase' \in Int
          /\ \/ GhostPhase' = GhostPhase + 1
             \/ GhostPhase' = GhostPhase - (2 * GHOST_LIMIT + 1)
      BY <1>1, PhaseStep DEF DividerTick, DividerInv, DividerTypeOK, GhostPhase
    <3>3. (PlayerPhase - GhostPhase) % 2 = 0
      BY DEF DividerInv, PhasesAgreeMod2
    <3>4. (PlayerPhase' - GhostPhase') % 2 = 0
      <4> DEFINE p == PlayerPhase
                 q == GhostPhase
                 m == PLAYER_LIMIT
                 n == GHOST_LIMIT
      <4>1. /\ ((p + 1) - (q + 1)) % 2 = 0
            /\ ((p + 1) - (q - (2 * n + 1))) % 2 = 0
            /\ ((p - (2 * m + 1)) - (q + 1)) % 2 = 0
            /\ ((p - (2 * m + 1)) - (q - (2 * n + 1))) % 2 = 0
        <5> HIDE DEF p, q
        <5>1. p \in Int /\ q \in Int /\ (p - q) % 2 = 0 /\ m \in Int /\ n \in Int
          BY <3>1, <3>2, <3>3 DEF p, q
        <5> QED  BY <5>1, ParityKept
      <4> QED  BY <3>1, <3>2, <4>1
    <3> QED  BY <3>4 DEF PhasesAgreeMod2
  <2> QED  BY <2>1, <2>2 DEF DividerInv
<1>2. CASE DividerReset
  BY <1>2 DEF DividerReset, DividerInv, DividerTypeOK, PhasesAgreeMod2,
     PlayerPhase, GhostPhase, Phase
<1>3. CASE UNCHANGED dividerVars
  BY <1>3 DEF dividerVars, DividerInv, DividerTypeOK, PhasesAgreeMod2,
     PlayerPhase, GhostPhase, Phase
<1> QED  BY <1>1, <1>2, <1>3 DEF DividerNext

\* The counters stay within their limits (lab8.sv:79-107).
THEOREM DividerTypeCorrect == DividerSpec => []DividerTypeOK
<1>1. DividerInv => DividerTypeOK
  BY DEF DividerInv
<1> QED  BY DividerInvInit, DividerInvStep, <1>1, PTL DEF DividerSpec

\* The two clocks keep in step modulo 2 for all limits that fit their counters.
THEOREM DividerCorrect == DividerSpec => []PhasesAgreeMod2
<1>1. DividerInv => PhasesAgreeMod2
  BY DEF DividerInv
<1> QED  BY DividerInvInit, DividerInvStep, <1>1, PTL DEF DividerSpec

-----------------------------------------------------------------------------
(* The game with its clock dividers.                                       *)

LEMMA TimedIsTick ==
    [TimedTick]_timedVars => [Next]_vars /\ [DividerNext]_dividerVars
<1>1. ASSUME TimedTick
      PROVE  Next /\ DividerNext
  <2>1. Next
    BY <1>1 DEF TimedTick, Next
  <2>2. DividerNext
    BY <1>1 DEF TimedTick, Dividers, DividerNext
  <2> QED  BY <2>1, <2>2
<1>2. ASSUME UNCHANGED timedVars
      PROVE  UNCHANGED vars /\ UNCHANGED dividerVars
  BY <1>2 DEF timedVars
<1> QED  BY <1>1, <1>2

\* What holds of the game whatever its timing holds of the timed game.
THEOREM TimedImplementsLab8 == TimedSpec => ImplementsLab8
<1>1. TimedInit => Init
  BY DEF TimedInit
<1> QED  BY <1>1, TimedIsTick, PTL DEF TimedSpec, Spec, ImplementsLab8

TimedInv == BoardInv /\ DividerInv

LEMMA TimedInvariant == TimedSpec => []TimedInv
<1>1. TimedInit => TimedInv
  BY BoardInit, DividerInvInit DEF TimedInit, TimedInv
<1>2. TimedInv /\ [TimedTick]_timedVars => TimedInv'
  BY TimedIsTick, BoardNext, DividerInvStep DEF TimedInv
<1> QED  BY <1>1, <1>2, PTL DEF TimedSpec

LEMMA NewOverlapNeedsBothEdges ==
    ASSUME TimedInv, [TimedTick]_timedVars, NEW i \in GHOSTS,
           Overlap(ghosts'[i], playerX', playerY'), ~Overlap(ghosts[i], playerX, playerY)
    PROVE  PlayerEdge /\ GhostEdge
<1>1. /\ GoesOn
      /\ <<playerX', playerY'>> # <<playerX, playerY>> /\ ghosts'[i] # ghosts[i]
  BY TimedIsTick, OverlapStep DEF TimedInv
<1>2. TimedTick
  BY <1>1 DEF timedVars, vars, playerVars
<1>3. ~PlayerHolds /\ ~GhostsHold
  BY <1>1 DEF PlayerHolds, GhostsHold, GoesOn, playerVars
<1> QED  BY <1>2, <1>3 DEF TimedTick, Tick, PlayerTick, GhostTick

\* A ghost and the player come to overlap untouched only in a tick in which
\* clkDivide and clkGhost rise together (lab8.sv:79-107, ghostMovement.sv:51).
THEOREM MissedOnlyAtBothEdges == TimedSpec => OverlapNeedsBothEdges
<1>1. TimedInv /\ [TimedTick]_timedVars =>
        [\A i \in GHOSTS : Overlaps(i)' /\ ~Overlaps(i) => PlayerEdge /\ GhostEdge]_timedVars
  BY NewOverlapNeedsBothEdges DEF Overlaps
<1> QED  BY <1>1, TimedInvariant, PTL DEF TimedSpec, OverlapNeedsBothEdges
=============================================================================
