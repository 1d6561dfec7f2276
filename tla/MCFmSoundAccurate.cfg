SPECIFICATION FmSpec
CONSTANTS
    OpllRegisters = {0, 1}
    Opn2Registers = {0}
    FirstRegister = 0
    Banks = {0, 1}
    FmBytes = {0, 1}
    FmPorts = TRUE
INVARIANT AccurateHasNoYm2612
