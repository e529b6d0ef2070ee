SPECIFICATION FairSpec
CONSTANTS
    N = 2
    MaxSigint = 1
PROPERTY SigintStops
\* SIGINT while main() holds a lock leaves every thread waiting: see the run SigintDeadlock.
CHECK_DEADLOCK FALSE
