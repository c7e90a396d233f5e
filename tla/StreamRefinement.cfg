SPECIFICATION Spec
CONSTANTS
    Kinds <- MCKinds
    TtlChoices = {FALSE}
    MaxRestartAttempts = 2
    RestartAfterFrozenSec = 60
    MaxCommands = 1
PROPERTIES
    PipeClosedEnds
    StopTakesEffect
    RepeatedFailureFreezes
    ImplementsLife
