SPECIFICATION FairSpec
CONSTANTS
    N = 2
    MaxSigint = 2
INVARIANTS TypeOK FailureCleansUp EpollOutlivesWaiters
PROPERTY StopCompletes
\* SIGINT while main() holds a lock leaves every thread waiting: see the run
\* SigintDeadlock.
CHECK_DEADLOCK FALSE
