SPECIFICATION Spec
CONSTANTS
    in1 = in1
    out1 = out1
    video = video
    audio = audio
    mixed = mixed
    stray = stray
    Inputs = {in1}
    Outputs = {out1}
    Threads = {video, audio, mixed, stray}
    Chan <- MCTwoPads
    Strays = {stray}
    Http = {in1}
    Durations <- MCDurations
    Kinds = {"plain"}
    PanicSec = 1
    ReportDelay = 2
    MinIn = 2
    MinOut = 2
    SizeMod = 3
    ClockSteps <- MCJumpsAhead
    MaxLag = 1
    MaxBack = 0
    MaxWindow = 2
INVARIANTS
    TotalIsReceived
    ReportsKeepComing
PROPERTIES
    QuitOnlyStarved
