SPECIFICATION Spec
CONSTANTS
    Kinds <- MCKinds
    TtlChoices = {TRUE, FALSE}
    MaxRestartAttempts = 3
    RestartAfterFrozenSec = 60
    MaxCommands = 2
INVARIANTS
    AtMostOneStartAfterStop
    FrozenAfterMaxFailures
    VodPlaysOnce
PROPERTIES
    BackOffNeverShrinks
