SPECIFICATION Spec
CONSTANTS
    Models = {"SMS"}
    Images <- MCImages
    NoImage = "none"
    Units <- MCUnits
    RamCells <- MCRamCells
    Roms = {"rom64k"}
    Bioses = {"bios16k"}
    Requests <- AutoOnly
    SramValues = {0}
    Writes <- SegaWrites
    Controls <- SomeControls
    Versions <- AllVersions
INVARIANT SegaUseLocks
