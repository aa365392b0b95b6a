\* Sockets are model values.
CONSTANTS
    s1 = s1  s2 = s2  s3 = s3
    NoSock = NoSock
    Socks <- MCSocks
    MaxConnections = 2
    AutoReconnect = FALSE
    MaxGen = 2
    MaxMsgs = 3
SPECIFICATION Spec
INVARIANT TypeOK RemoteDataIntact SingleRemoteRead
PROPERTY StopEndsThread
\* After a stop the thread exits and the client stands still; a null
\* mp_acceptor in interrupt ends the process.
CHECK_DEADLOCK FALSE
