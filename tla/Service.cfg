SPECIFICATION MCSpec
CONSTANTS
    MaxStarts = 3
    Servers = {"http", "subscribers"}
    DefaultPort <- MCDefaultPort
    ConfigFiles <- MCConfigFiles
    MaxKills = 1
    Conns = {"h", "v"}
    To <- MCTo
    Chunks = 2
    MaxPending = 1
    MaxCrashes = 1
    MaxEarly = 1
    Interfaces = {"eth", "lo"}
    Loopback = {"lo"}
    Word = 1024
    MaxClock = 2500
    Steps = {500, 2000}
    Amounts = {3}
    Loads <- MCLoads
INVARIANTS
    OneServes
    MeasuredOnce
PROPERTIES
    StopCommandStops
    VodBecomesWhole
CHECK_DEADLOCK FALSE
