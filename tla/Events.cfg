SPECIFICATION Spec
CONSTANTS
    Threads = {t, u}
    MaxHandlers = 2
    Limits <- MCLimits
    SignalNames = {"INT"}
    MaxPending = 1
    FDs = {1, 2}
    Delays = {0, 1}
INVARIANTS
    ThreadsAccounted
    WaitersNotStale
    OpenIffRegistered
PROPERTIES
    AlarmsOnTime
    SignalsHandled
    SleepersWake
    ReadyWakes
