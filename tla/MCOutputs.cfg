SPECIFICATION OutputsSpec
CONSTANTS
    Runs <- MCRuns
    Rows = 2
INVARIANTS
    FileHoldsWhatWasAsked
    FilesTellTheOutcome
CHECK_DEADLOCK FALSE
