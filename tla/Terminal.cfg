CONSTANTS
    Program = {"client", "console"}
    Lines <- MCLines
    Level = {0, 1, 2}
SPECIFICATION FairSpec
INVARIANTS
    TypeOK
    InStep
PROPERTIES
    MenuPhase
    EofEnds
CHECK_DEADLOCK FALSE
