\* One ghost, three coins, any order of ticks and edges.
CONSTANTS
    COLS <- MCCols
    ROWS <- MCRows
    TILE = 4
    levelX <- MCLevelX
    levelY <- MCLevelY
    PlayerStart <- MCPlayerStart
    GHOSTS = {red}
    GhostStart <- MCGhostStart
    lenContact = 2
    levelCoins <- MCLevelCoins
SPECIFICATION Spec
INVARIANTS
    TypeOK
    NewGameIsFresh
    NewGameIsSafe
    WonMeansCleared
    NoCoinLeftBehind
PROPERTIES
    OverlapOnlyWhenBothMove
    CollisionStartsOver
    CoinsReturnOnlyWithNewGame
    GhostsPassWallsUpwards
