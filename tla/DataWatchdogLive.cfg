SPECIFICATION Spec
CONSTANTS
    in1 = in1
    out1 = out1
    video = video
    audio = audio
    mixed = mixed
    stray = stray
    Inputs = {in1}
    Outputs = {out1}
    Threads = {video, audio}
    Chan <- MCOnePadEach
    Strays = {}
    Http = {in1}
    Durations <- MCDurations
    Kinds = {"plain", "recorder", "player"}
    PanicSec = 2
    ReportDelay = 1
    MinIn = 1
    MinOut = 1
    SizeMod = 2
    ClockSteps <- MCStepsBack
    MaxLag = 1
    MaxBack = 1
    MaxWindow = 1
PROPERTIES
    NoInputRestarts
    NoOutputRestarts
