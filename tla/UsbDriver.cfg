\* A chip that takes lists up in time, and promises nothing else.
SPECIFICATION Spec
CONSTANTS
    Keys = {26}
    GameKeys = {26}
    Tries = 1
    Prompt = TRUE
    Ideal = FALSE
INVARIANTS
    RequestsInOrder
PROPERTIES
    GameKeyWasReported
