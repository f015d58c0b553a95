\* Rings of two bytes, so that a piece can have two and can wrap; one byte
\* value, told apart from a slot that was used up.
SPECIFICATION Spec
CONSTANTS
    Bytes = {b}
    Free = Free
    MaxCount = 2
    BUF_LEN = 3
    FIFO_LEN = 1
    DEFAULT_TIMEOUT = 2
    INT_MAX = 4
    Timer = TRUE
INVARIANTS
    NothingStuck
    ForeverIsForever
PROPERTIES
    ImplementsChannel
