CONSTANTS
    Main = Main
    Thunks = {t1}
    Builds = {b1, b2}
    None = None
    MaxCommands = 1
    Overlap = TRUE
SPECIFICATION BuilderSpec
PROPERTY EveryBuildEnds
CHECK_DEADLOCK FALSE
