CONSTANTS
    N = 3
    MaxTime = 9
    Counts = {1, 2}
    MaxPerSec = 2
SPECIFICATION Spec
INVARIANT TypeOK GetIsWindow
\* A thread blocked on its own m_mutex stops the counter for good, and the
\* clock stops at MaxTime: the counter may stop.
CHECK_DEADLOCK FALSE
