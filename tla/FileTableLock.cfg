\* The devices of this system; no driver refuses an open().
CONSTANTS
    ALT_MAX_FD = 6
    Devices = {null, uart}
    Filesystems = {}
    Refusing = {}
    Null = null
    Stdio = uart
    NoDev = NoDev
SPECIFICATION FileSpec
INVARIANTS
    LockedMeansAlone
