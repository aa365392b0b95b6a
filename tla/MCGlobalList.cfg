\* Three threads, each making up to two calls of any kind: does
\* m_mutex_list keep the calls apart?
CONSTANTS
    t1 = t1  t2 = t2  t3 = t3  h1 = h1  h2 = h2
    NoOwner = NoOwner
    NoHost = NoHost
    Threads <- MCThreads
    Hosts <- MCHosts
    Ops <- MCOpsAll
    MaxCalls = 2
SPECIFICATION Spec
INVARIANT ListExclusion
CHECK_DEADLOCK FALSE
SYMMETRY MCSymmetry
