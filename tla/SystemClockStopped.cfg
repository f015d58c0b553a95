\* Alarms only, for what the comments of alt_tick.c say of a stopped alarm.
CONSTANTS
    Alarms = {a1, a2}
    WRAP = 4
    Delays = {0, 1}
    HEAD = HEAD
SPECIFICATION ClockSpec
INVARIANTS
    StoppedStaysSilent
