\* The timer, the interrupt controllers and the PS/2 ports.
SPECIFICATION MCSpec
CONSTANTS
    Sleepers = {s1, s2}
    Millis = {0, 10, 11}
    TimeMod = 24
    MaxPending = 2
    Threads = {t1, t2, t3}
    Lines1 = {0, 1}
    Lines2 = {8, 12}
    MaxInterrupts = 4
    Machines <- MCMachines
    MaxKeys = 1
INVARIANTS
    NoMissedTick
    EoiOwed
    PortsDrivenRight
PROPERTIES
    WakesOnTarget
    SleepEnds
    Drains
    StartupEnds
CHECK_DEADLOCK FALSE
