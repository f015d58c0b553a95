\* Two even limits, as in lab8.sv: periods 22 and 26 ticks.  A frame of
\* 10 x 7 pixels with everything in the order of the real one.
CONSTANTS
    WIDTH = 4
    PLAYER_LIMIT = 10
    GHOST_LIMIT = 12
    H_TOTAL = 10
    V_TOTAL = 7
    H_VISIBLE = 6
    V_VISIBLE = 4
    H_SYNC_START = 7
    H_SYNC_END = 9
    V_SYNC_START = 5
    V_SYNC_END = 6
SPECIFICATION ClocksSpec
INVARIANTS
    DividerTypeOK
    PhasesAgreeMod2
    VgaAligned
    NoPictureInSync
PROPERTIES
    BothClocksRun
    EdgesMeet
    FramesKeepComing
