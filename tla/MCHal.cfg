\* Three slots beside the standard ones; three alarms on a counter of two bits;
\* three lines that can interrupt.
CONSTANTS
    ALT_MAX_FD = 6
    Devices = {null, uart}
    Filesystems = {fs}
    Refusing = {uart}
    Null = null
    Stdio = uart
    NoDev = NoDev
    Alarms = {a1, a2, a3}
    WRAP = 4
    Delays = {0, 1, 2, 3}
    HEAD = HEAD
    IRQS = {0, 1, 5}
    NoISR = NoISR
    ISR = ISR
SPECIFICATION HalSpec
SYMMETRY AlarmSymmetry
INVARIANTS
    NoLeak
    OneLockPerDevice
    HandlerIsThere
    ProgramUndisturbed
PROPERTIES
    LockKeepsOthersOut
    ImplementsTimers
