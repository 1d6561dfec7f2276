SPECIFICATION RealTimeSpec
CONSTANTS
    CyclesPerLine = 2
    LinesPerFrame = 4
    Height192 = 1
    Height224 = 2
    Height240 = 3
    LineReloads = {0}
    ScrollValues = {0}
    HeightModes <- TwoHeights
    TickSizes = {1}
    SMS = TRUE
    InstructionCycles = {3}
    HaltCycles = 1
    Im1Cycles = 3
    Im2Cycles = 4
    N = 3
    SampleRate = 150
    Requests = {0, 20, 295}
    Headroom = 15
    StableSubmissions = 2
    Sizes = {1, 2}
INVARIANTS FrameCoversVBlank Lockstep PauseKeepsInterruptEnable SilenceNeverDropsSound LatencyBounds
PROPERTIES EiShadow HaltIsWoken PlayedInOrder LatencyRecovers
