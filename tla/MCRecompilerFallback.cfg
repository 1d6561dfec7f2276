SPECIFICATION Spec
CONSTANTS
    Images <- MCImages
    Anywhere <- MCAnywhere
    OtherPage <- MCOtherPage
INVARIANT FallbackReported
CHECK_DEADLOCK FALSE
