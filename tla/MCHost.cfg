SPECIFICATION HostSpec
CONSTANTS
    Games = {a, b}
    Bioses = {boot}
    Standards = {ntsc}
    NoGame = NoGame
    NoBios = NoBios
    NoProfile = NoProfile
    Absent = Absent
    Progress = {0, 1}
    Fresh = 0
    Cut = 2
    N = 2
    Keys = {1, 2, 3}
    Escape = 3
    DefaultKeys <- TwoKeys
    Spare <- ThirdKey
    Controls = {"p"}
    NoControl = "none"
    VideoStandards = {"ntsc", "pal"}
    Duration <- FrameTicks
    LongestFrame = 3
    LongestStall = 4
    Rates = {44100, 48000}
    DefaultRate = 44100
    MaximumSamples = 3
SYMMETRY Symmetry
\* The host may be closed.
CHECK_DEADLOCK FALSE
INVARIANTS StateMatchesSession KeysDistinct FramesFollowControls NoFrameBurst PauseIsWhole RecordingSound
PROPERTY RamKept
