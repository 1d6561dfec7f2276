SPECIFICATION Spec
CONSTANTS
    Lows = 2
    Highs = 2
    CramSize = 2
    Bytes = {0, 1}
    ControlBytes = {0, 1, 3, 4, 7}
    SpriteCount = 3
    Limit = 2
    BaseHeight = 1
    TallHeight = 2
    ExpandedHeight = 3
    LinesInFrame = 3
    Width = 4
    SpriteWidth = 2
    SpriteRows = {0, 1, 2}
    SpriteColumns = {0, 1}
    Low = 4
    High = 2
    Step = 1
    OpllCycles = 3
    Opn2Clock = 2
    Opn2Threshold = 3
    TickSizes = {2, 3}
    MaxOwed = 5
    MaxStamp = 1
    Hashes = {"a", "b"}
    HandWritten <- Written
    Switches = {"reduce_flicker"}
    Paths <- GamePaths
    NormalPath <- Normal
    HashOf <- ImageHash
    Aliases = {"x"}
    NoAlias = ""
    MaxEntries = 2
    OpllRegisters = {0, 1}
    Opn2Registers = {0}
    FirstRegister = 0
    Banks = {0, 1}
    FmBytes = {0, 1}
    FmPorts = TRUE
    ImageSizes = {1, 3, 4}
    BodySums = {0, 1}
    Checksums = 4
    Scripts <- InputScripts
    HostFrames = 3
    FrameLength = 13
    Ticks = {1, 4, 7}
    SampleRate = 2
    Clock = 3
    LongestWait = 3
    Values = {"a", "b"}
    Configs <- ConfigFiles
    Profiles <- MatchedProfiles
    MaxArguments = 3
    BinaryBytes = {0, 1, 127, 128, 255}
    DecimalBytes = {0, 9, 16, 88, 145, 153}
    Size = 4
    Memories <- BlockMemories
    MaxInterrupts = 1
INVARIANTS HandlerCommandLands ReadsStream StatusAsHardware TicksAddUp FmAgrees WrittenHeaderVerifies RunIsCaptured SettingsInOrder LongArithmetic BlockIsOneInstruction
PROPERTIES LoadIsExact EditsKeepProfiles ListsKept
CHECK_DEADLOCK FALSE
