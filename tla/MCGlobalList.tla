---------------------------- MODULE MCGlobalList ----------------------------
(* Model-checking instance of GlobalList: three request threads and two    *)
(* hosts.                                                                   *)
EXTENDS GlobalList, TLC

CONSTANTS t1, t2, t3, h1, h2

MCThreads == {t1, t2, t3}
MCHosts == {h1, h2}
MCOpsAll == {"lock", "stopall", "host_activate", "host_test",
             "host_set_active", "unpopulate", "populate", "status",
             "client_activate", "client_set_active", "cert_exists",
             "save_config"}

MCSymmetry == Permutations(MCThreads) \cup Permutations(MCHosts)
=============================================================================
