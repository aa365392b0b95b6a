\* Two local providers, two proxies; the outer loop is bounded to three
\* rounds, after which the thread stands still, so deadlock is not checked.
CONSTANTS
    NLocal = 2
    NProxies = 2
    MaxSends = 2
    MaxRounds = 3
SPECIFICATION Spec
INVARIANT TypeOK
PROPERTY ImplementsLifecycle
CHECK_DEADLOCK FALSE
