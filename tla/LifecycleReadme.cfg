\* The service as the README starts it.
SPECIFICATION FairSpec
CONSTANTS
    Environments <- ReadmeOnly
    Calls = {c1}
    Atoi <- MCAtoi
    ParseBool <- MCParseBool
    ParseDuration <- MCParseDuration
INVARIANT EveryPriorityRouted
CHECK_DEADLOCK FALSE
