\* A chip and a keyboard that keep up with the driver.
SPECIFICATION FairSpec
CONSTANTS
    Keys = {0, 26}
    GameKeys = {26}
    Tries = 2
    Prompt = TRUE
    Ideal = TRUE
INVARIANTS
    ChipStaysInList
PROPERTIES
    NeverHangs
