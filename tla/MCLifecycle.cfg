\* Every environment, three calls of any kind, and the end of the process.
SPECIFICATION FairSpec
CONSTANTS
    Environments <- MCEnvironments
    Calls = {c1, c2, c3}
    Atoi <- MCAtoi
    ParseBool <- MCParseBool
    ParseDuration <- MCParseDuration
INVARIANTS TypeOK CutOnlyCallbacks FlushedAtExit NoSilentStandIn CallbackRouted
PROPERTY ShutdownEnds
CHECK_DEADLOCK FALSE
