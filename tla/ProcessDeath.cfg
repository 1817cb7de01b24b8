SPECIFICATION FairSpec
CONSTANTS
    Threads = {main, t1}
    Main = main
    None = None
PROPERTY DyingDies
CHECK_DEADLOCK FALSE
