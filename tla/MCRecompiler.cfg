SPECIFICATION Spec
CONSTANTS
    Images <- MCImages
    Anywhere <- MCAnywhere
    OtherPage <- MCOtherPage
INVARIANTS DiscoveryComplete FlowCoversExecution GeneratedMatchesInterpreter
PROPERTY ReportMatchesEmission
CHECK_DEADLOCK FALSE
