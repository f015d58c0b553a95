\* One ghost, one coin, the ghost clock running, the smallest tiles.
CONSTANTS
    COLS <- MCCols
    ROWS <- MCRows
    TILE = 2
    levelX <- MCLevelX
    levelY <- MCLevelY
    PlayerStart <- MCPlayerStart
    GHOSTS = {red}
    GhostStart <- MCGhostStart
    lenContact = 1
    levelCoins <- MCOneCoin
SPECIFICATION LiveSpec
PROPERTIES
    GhostsLeaveClosedBoard
