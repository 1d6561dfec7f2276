SPECIFICATION DevicesSpec
CONSTANTS
    Models = {"SMS", "SG3000"}
    Images <- MCImages
    NoImage = "none"
    Units <- MCUnits
    RamCells <- MCRamCells
    Roms = {"rom24k", "rom64k"}
    Bioses = {"bios16k", "bios40k"}
    Requests <- SomeRequests
    SramValues = {0}
    Writes <- FamilyWrites
    Controls <- AllControls
    Versions <- LockVersions
    CyclesPerLine = 4
    LinesPerFrame = 7
    Height192 = 3
    Height224 = 4
    Height240 = 5
    LineReloads = {0, 1}
    ScrollValues = {0, 1}
    HeightModes <- AllModes
    TickSizes = {1, 5}
INVARIANTS WindowCoherent SelectionSettled WorkRamMirrored OneVBlankPerFrame LineIrqPeriod
PROPERTIES DisconnectedCartridgeInert DetectedOnce
