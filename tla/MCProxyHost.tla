---------------------------- MODULE MCProxyHost ----------------------------
(* Model-checking instance of ProxyHost: two inbound sessions, two         *)
(* configured names and a stranger.                                         *)
EXTENDS ProxyHost, TLC

CONSTANTS s1, s2, n1, n2

MCSessions == {s1, s2}
MCNames == {n1, n2}
MCInitRemotes == {n1, n2}

\* all host calls, for the safety runs
MCCtlAll == {"reconfig", "stop_by_name", "host_stop", "host_start", "status"}
\* only a reconfiguration
MCCtlReconfig == {"reconfig"}
\* no host calls: the host left to run, for the teardown properties
MCCtlNone == {}
\* the host stopped and started again (host_set_active)
MCCtlRestart == {"host_stop", "host_start"}

\* sessions are interchangeable, and so are the names (all configured)
MCSymmetry == Permutations(MCSessions) \cup Permutations(MCNames)

=============================================================================
