CONSTANTS
    s1 = s1  s2 = s2  n1 = n1  n2 = n2
    Stranger = Stranger
    NoName = NoName
    Sessions <- MCSessions
    Names <- MCNames
    InitRemotes <- MCInitRemotes
    CtlOps <- MCCtlAll
    MaxCtlOps = 1
    AcceptErrors = TRUE
SPECIFICATION Spec
INVARIANT TypeOK
INVARIANT AuthenticatedSession
INVARIANT ErasedSessionsFinished
CHECK_DEADLOCK FALSE
SYMMETRY MCSymmetry
