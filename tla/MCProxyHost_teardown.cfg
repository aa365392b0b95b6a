\* The host left running with no host calls: sessions come and go, and
\* the teardown and reaping properties are checked under the fairness of
\* ProxyHost!Fairness.
CONSTANTS
    s1 = s1  s2 = s2  n1 = n1  n2 = n2
    Stranger = Stranger
    NoName = NoName
    Sessions <- MCSessions
    Names <- MCNames
    InitRemotes <- MCInitRemotes
    CtlOps <- MCCtlNone
    MaxCtlOps = 0
    AcceptErrors = FALSE
SPECIFICATION Spec
PROPERTY PeerCloseTearsDown
PROPERTY LocalCloseTearsDown
PROPERTY DeadSessionReaped
PROPERTY ImplementsSessionLifecycle
PROPERTY AcceptProgress
