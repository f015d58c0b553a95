\* The real board: 12 x 12 tiles of 32 pixels, contact at 16 pixels.
CONSTANTS
    COLS <- BankCols
    ROWS <- BankRows
    TILE = 32
    levelX <- BankLevelX
    levelY <- BankLevelY
    PlayerStart <- MCPlayerStart
    GHOSTS = {red}
    GhostStart <- MCGhostStart
    lenContact = 16
SPECIFICATION MoversSpec
INVARIANTS
    PlayerInMaze
    PlayerCanTurnBack
    GhostsOnTrack
    GhostsTurnRoundOnThree
PROPERTIES
    GhostsNeverRest
