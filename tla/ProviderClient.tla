---------------------------- MODULE ProviderClient ----------------------------
(***************************************************************************)
(* The provider client (providerclient.cpp): one thread, threadproc, that  *)
(* connects out to a local provider (the first of m_local_ep that accepts) *)
(* and to the remote proxy m_proxy_endpoints[m_proxy_index], does the TLS  *)
(* handshake, then copies what the provider sends to the proxy with        *)
(* blocking read_some / write_some until an error or a stop.  Each failure *)
(* moves m_proxy_index on, round robin, and sleeps before the next round.  *)
(*                                                                         *)
(* stop() runs on a control thread: m_thread.stop() clears the run flag    *)
(* and calls interrupt, which shuts down mp_remote_socket if it is         *)
(* published (under m_mutex, as protect_pointer publishes it).  The local  *)
(* socket is not touched.                                                  *)
(*                                                                         *)
(* sockect_connect (applutil.cpp 267-286) closes the socket before it      *)
(* connects, so a shutdown done before or during the connect is lost: the  *)
(* connected socket is a fresh one.                                        *)
(***************************************************************************)
EXTENDS Naturals

CONSTANTS
    NLocal,     \* m_local_ep.size()
    NProxies,   \* m_proxy_endpoints.size()
    MaxSends,   \* bound on the messages relayed
    MaxRounds   \* bound on the rounds of the outer loop

ASSUME NLocal \in Nat \ {0} /\ NProxies \in Nat \ {0}

VARIABLES
    pc,       \* where threadproc is; "idle" before start()
    run,      \* m_thread.check_run()
    lidx,     \* index of the loop over m_local_ep
    pidx,     \* m_proxy_index
    pub,      \* mp_remote_socket is published
    rshut,    \* the remote socket has been shut down by interrupt
    lconn,    \* m_local_connected
    rconn,    \* m_remote_connected
    stopper,  \* the control thread in stop(): "running", "joining", "returned"
    sent,     \* messages written to the remote proxy
    rounds    \* rounds of the outer loop completed

vars == << pc, run, lidx, pidx, pub, rshut, lconn, rconn, stopper, sent,
           rounds >>

thread == << lidx, pidx, pub, rshut, lconn, rconn, sent, rounds >>

-----------------------------------------------------------------------------
Init ==
    /\ pc = "idle" /\ run = TRUE
    /\ lidx = 0 /\ pidx = 0
    /\ pub = FALSE /\ rshut = FALSE
    /\ lconn = FALSE /\ rconn = FALSE
    /\ stopper = "running" /\ sent = 0 /\ rounds = 0

(* ProviderClient::start, lines 149-152.                                   *)
Start ==
    /\ pc = "idle" /\ stopper = "running"
    /\ pc' = "top"
    /\ UNCHANGED << run, stopper, thread >>

(* Lines 379-419: the run test, then the TLS context (whose certificate    *)
(* files may be missing: a throw before anything is published), then the  *)
(* sockets, with mp_remote_socket published by protect_pointer.           *)
Top ==
    /\ pc = "top"
    /\ \/ /\ ~run
          /\ pc' = "exited"
          /\ UNCHANGED << pub, rshut, lidx, lconn >>
       \/ /\ run /\ rounds < MaxRounds
          /\ pc' = "caught"
          /\ UNCHANGED << pub, rshut, lidx, lconn >>
       \/ /\ run /\ rounds < MaxRounds
          /\ pc' = "local"
          /\ pub' = TRUE /\ rshut' = FALSE
          /\ lidx' = 0 /\ lconn' = FALSE
    /\ UNCHANGED << run, stopper, pidx, rconn, sent, rounds >>

(* m_local_ep walked without the increment's bound.                        *)
LocalConnectNoBound ==
    /\ pc = "local"
    /\ \/ /\ lconn' = TRUE /\ pc' = "remote"
          /\ UNCHANGED lidx
       \/ /\ lidx' = lidx + 1
          /\ UNCHANGED << lconn, pc >>
    /\ UNCHANGED << run, stopper, pidx, pub, rshut, rconn, sent, rounds >>

(* Lines 420-439: connect to the local providers in order, the first that  *)
(* accepts wins; none accepting throws.                                    *)
LocalConnect ==
    /\ pc = "local"
    /\ \/ /\ lidx < NLocal
          /\ lconn' = TRUE /\ pc' = "remote"
          /\ UNCHANGED lidx
       \/ /\ lidx < NLocal
          /\ lidx' = lidx + 1
          /\ UNCHANGED << lconn, pc >>
       \/ /\ lidx = NLocal
          /\ pc' = "caught"
          /\ UNCHANGED << lidx, lconn >>
    /\ UNCHANGED << run, stopper, pidx, pub, rshut, rconn, sent, rounds >>

(* Lines 453-457, with sockect_connect: the connect succeeds on a fresh    *)
(* socket, which drops an earlier shutdown, or throws.                     *)
RemoteConnect ==
    /\ pc = "remote"
    /\ \/ /\ pc' = "handshake" /\ rconn' = TRUE /\ rshut' = FALSE
       \/ /\ pc' = "caught"
          /\ UNCHANGED << rconn, rshut >>
    /\ UNCHANGED << run, stopper, lidx, pidx, pub, lconn, sent, rounds >>

(* Line 480: the blocking handshake; it fails on a shut socket.            *)
Handshake ==
    /\ pc = "handshake"
    /\ \/ /\ ~rshut
          /\ pc' = "relay"
       \/ pc' = "caught"
    /\ UNCHANGED << run, stopper, thread >>

(* The relay loop of lines 497-510 without its run test.                   *)
RelayNoCheck ==
    /\ pc = "relay"
    /\ pc' = "read"
    /\ UNCHANGED << run, stopper, thread >>

(* Line 497: the loop tests the run flag before every read.                *)
Relay ==
    /\ pc = "relay"
    /\ pc' = IF run THEN "read" ELSE "leave"
    /\ UNCHANGED << run, stopper, thread >>

(* Lines 500-504: block on the local socket until the provider sends or    *)
(* closes; the plugin filter may drop what it sent.                        *)
Read ==
    /\ pc = "read"
    /\ pc' \in {"write", "relay", "caught"}
    /\ UNCHANGED << run, stopper, thread >>

(* Lines 507-508: write_some to the proxy; a shut socket fails it.         *)
Write ==
    /\ pc = "write"
    /\ \/ /\ ~rshut /\ sent < MaxSends
          /\ sent' = sent + 1 /\ pc' = "relay"
       \/ /\ pc' = "caught"
          /\ UNCHANGED sent
    /\ UNCHANGED << run, stopper, lidx, pidx, pub, rshut, lconn, rconn, rounds >>

(* Lines 519-522: ++m_proxy_index, back to 0 past the last endpoint.       *)
NextProxy(i) == IF i + 1 >= NProxies THEN 0 ELSE i + 1

(* Lines 512-524: the try block is left, normally or by a throw: the scope *)
(* guard of line 412 runs interrupt and cleanup, protect_pointer clears    *)
(* mp_remote_socket; then the next proxy, the flags cleared, and sleep.    *)
Rotate ==
    /\ pc \in {"caught", "leave"}
    /\ pc' = "sleep"
    /\ pidx' = NextProxy(pidx)
    /\ pub' = FALSE
    /\ lconn' = FALSE /\ rconn' = FALSE
    /\ rounds' = rounds + 1
    /\ UNCHANGED << run, stopper, lidx, rshut, sent >>

(* Line 524: m_thread.sleep(4000), then the outer loop's run test.         *)
Sleep ==
    /\ pc = "sleep"
    /\ pc' = "top"
    /\ UNCHANGED << run, stopper, thread >>

(* ProviderClient::stop, lines 155-158, and interrupt, lines 188-230:      *)
(* clear the run flag, shut the published remote socket down, then join.   *)
Stop ==
    /\ stopper = "running"
    /\ stopper' = "joining" /\ run' = FALSE
    /\ rshut' = (rshut \/ pub)
    /\ UNCHANGED << pc, lidx, pidx, pub, lconn, rconn, sent, rounds >>

(* The join returns once the thread has left threadproc, or at once when   *)
(* it was never started.                                                   *)
StopReturn ==
    /\ stopper = "joining" /\ pc \in {"idle", "exited"}
    /\ stopper' = "returned"
    /\ UNCHANGED << pc, run, thread >>

Next ==
    \/ Start
    \/ Top
    \/ LocalConnect
    \/ RemoteConnect
    \/ Handshake
    \/ Relay
    \/ Read
    \/ Write
    \/ Rotate
    \/ Sleep
    \/ Stop
    \/ StopReturn

Spec == Init /\ [][Next]_vars

-----------------------------------------------------------------------------
(* The client's state in the terms of spec.md, section 4.3.                *)
StateOf(p) ==
    CASE p = "idle"                              -> "Idle"
      [] p \in {"top", "local", "remote"}        -> "Connecting"
      [] p = "handshake"                         -> "Handshaking"
      [] p \in {"relay", "read", "write"}        -> "Relaying"
      [] p \in {"caught", "leave", "sleep"}      -> "Disconnected"
      [] p = "exited"                            -> "Stopped"

Lifecycle == INSTANCE ClientLifecycle
    WITH Targets <- 0..(NProxies - 1),
         state <- StateOf(pc),
         stopping <- (stopper # "running"),
         target <- pidx

-----------------------------------------------------------------------------
TypeOK ==
    /\ pc \in {"idle", "top", "local", "remote", "handshake", "relay", "read",
               "write", "caught", "leave", "sleep", "exited"}
    /\ run \in BOOLEAN /\ lidx \in 0..NLocal /\ pidx \in Nat
    /\ pub \in BOOLEAN /\ rshut \in BOOLEAN
    /\ lconn \in BOOLEAN /\ rconn \in BOOLEAN
    /\ stopper \in {"running", "joining", "returned"}
    /\ sent \in 0..MaxSends /\ rounds \in 0..MaxRounds

(* The thread follows the client state machine of spec.md 4.3: it relays   *)
(* only after a handshake and never once a stop was requested, it changes  *)
(* proxy only between connections, and it ends only after a stop.          *)
ImplementsLifecycle == Lifecycle!Spec
=============================================================================
