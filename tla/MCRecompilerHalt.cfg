SPECIFICATION Spec
CONSTANTS
    Images <- MCImages
    Anywhere <- MCAnywhere
    OtherPage <- MCOtherPage
INVARIANT HaltContinues
CHECK_DEADLOCK FALSE
