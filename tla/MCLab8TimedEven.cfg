\* One ghost, one coin; the player steps every 6 ticks, the ghost every 10,
\* and both in the same tick every 30.
CONSTANTS
    COLS <- MCCols
    ROWS <- MCRows
    TILE = 3
    levelX <- MCLevelX
    levelY <- MCLevelY
    PlayerStart <- MCPlayerStart
    GHOSTS = {red}
    GhostStart <- MCGhostStart
    lenContact = 2
    levelCoins <- MCOneCoin
    WIDTH = 3
    PLAYER_LIMIT = 2
    GHOST_LIMIT = 4
SPECIFICATION TimedSpec
PROPERTIES
    OverlapNeedsBothEdges
