\* One reconfiguration: remove_any stops and erases sessions at once.
CONSTANTS
    s1 = s1  s2 = s2  n1 = n1  n2 = n2
    Stranger = Stranger
    NoName = NoName
    Sessions <- MCSessions
    Names <- MCNames
    InitRemotes <- MCInitRemotes
    CtlOps <- MCCtlReconfig
    MaxCtlOps = 1
    AcceptErrors = TRUE
SPECIFICATION Spec
INVARIANT NoDestroyWithPendingShutdown
CHECK_DEADLOCK FALSE
