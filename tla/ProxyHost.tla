----------------------------- MODULE ProxyHost -----------------------------
(***************************************************************************)
(* The inbound side of uniproxy: one RemoteProxyHost (a TLS listening      *)
(* port) with its RemoteProxyClient sessions, and the configuration        *)
(* thread that calls into it (src/src/remoteclient.cpp, called from        *)
(* src/src/proxy_global.cpp).                                              *)
(*                                                                         *)
(* Actors, each an OS thread in the code:                                  *)
(*  - the host's io thread, running io_service handlers one at a time:     *)
(*    handle_accept, check_deadline (the reaper) and the completions of    *)
(*    the async_shutdown operations posted by RemoteProxyClient::interrupt;*)
(*  - per session a remote thread (remote_threadproc) and a local thread   *)
(*    (local_threadproc);                                                  *)
(*  - the control thread (configuration reload / web API) calling          *)
(*    remove_any, add_remotes, remove_remotes, stop_by_name, stop, start;  *)
(*  - the environment: remote peers and local servers.                     *)
(*                                                                         *)
(* Time is counted in runs of the reaper timer (check_deadline, every 3s): *)
(* a stop timestamp is kept as the number of runs since it, and io work     *)
(* queued before a run has been handled before the next one.               *)
(***************************************************************************)
EXTENDS Integers, FiniteSets

CONSTANTS
    Sessions,     \* inbound TCP connections, each becoming one RemoteProxyClient
    Names,        \* certificate common names configured as remote endpoints
    Stranger,     \* a common name that no remote endpoint of the host carries
    NoName,       \* m_endpoint.m_name of a session that has not matched yet
    InitRemotes,  \* names in m_remote_ep when the host is created
    CtlOps,       \* the host operations the control thread calls in this model
    AcceptErrors, \* whether async_accept may complete with an error
    MaxCtlOps     \* bound on the number of control-thread operations

ASSUME InitRemotes \subseteq Names
ASSUME CtlOps \subseteq {"reconfig", "stop_by_name", "host_stop", "host_start", "status"}
ASSUME MaxCtlOps \in Nat
ASSUME AcceptErrors \in BOOLEAN

VARIABLES
    remoteEp,     \* RemoteProxyHost::m_remote_ep, as the set of endpoint names
    clients,      \* RemoteProxyHost::m_clients
    hostThread,   \* RemoteProxyHost::m_thread: "running" | "stopped"
    ioStopped,    \* m_io_service has been stop()ed (it is never restart()ed)
    ioPc,         \* handler the io thread is in: "run" | "reap" | "accept_sleep"
    ioDue,        \* sessions whose io work was queued at the last reaper run
    acceptArmed,  \* an async_accept is outstanding on m_acceptor
    acceptorOpen, \* m_acceptor is open and bound
    mutex,        \* holder of RemoteProxyHost::m_mutex: "none" | "io" | "ctl"
    pump,         \* per session: the RemoteProxyClient and its two threads
    peer,         \* per session: the remote TLS peer
    ctl,          \* the control thread's current host call
    ctlCount      \* number of control operations started

vars == << remoteEp, clients, hostThread, ioStopped, ioPc, ioDue, acceptArmed,
           acceptorOpen, mutex, pump, peer, ctl, ctlCount >>

-----------------------------------------------------------------------------
(* Abstractions of values.                                                  *)

\* Age of m_stopped in reaper periods; m_stopped == time_point() (never
\* stopped) is -1. A call on the control thread stamps 0, a reaper run
\* stamps 1 (the next run, 3s later, is past the 2s grace), and each run
\* adds one. At age 2 the 2s grace has surely passed; at age 1 after a
\* control-thread stamp it may or may not have.
NotStopped == -1
StopAges == {NotStopped, 0, 1, 2}
\* Mutant of Older: the age is not saturated.
OlderUncapped(a) == IF a = NotStopped THEN a ELSE a + 1

Older(a) == IF a = NotStopped THEN a ELSE IF a = 2 THEN 2 ELSE a + 1

RemotePcs == {"new", "handshake", "connect", "logon", "relay", "linger",
              "shutdown", "done"}
\* remote thread states in which the thread is running
RemoteRunning == RemotePcs \ {"new", "done"}

PumpType ==
    [rpc : RemotePcs,                      \* remote_threadproc position
     lpc : {"none", "relay", "done"},      \* local_threadproc position
     ep : Names \cup {Stranger, NoName},   \* m_endpoint.m_name
     rconn : BOOLEAN,                      \* m_remote_connected
     lsock : {"closed", "open", "shut"},   \* m_local_socket
     lsrv : {"none", "open", "closed"},    \* the local server's end
     ssl : {"none", "pending"},            \* an async_shutdown is outstanding
     runR : BOOLEAN,                       \* m_remote_thread.check_run()
     stopped : StopAges]                   \* age of m_stopped (reaper runs)

PeerType ==
    [st : {"absent", "waiting", "open", "closed"},
     name : Names \cup {Stranger, NoName}, \* common name of its certificate
     notified : BOOLEAN]                   \* our close_notify reached it

CtlPcs == {"idle", "join_host", "lock", "visit", "stop_local", "join_local",
           "stop_remote", "join_remote", "add", "remove"}

-----------------------------------------------------------------------------
\* Mutant of Interrupt: the async_shutdown of line 186 is left out.
InterruptNoShutdown(p, synced) ==
    [p EXCEPT !.lsock = IF @ = "open" THEN "shut" ELSE @, !.rconn = FALSE]

(* RemoteProxyClient::interrupt(synced), lines 172-190: shut down the local *)
(* socket, post an async_shutdown of the TLS stream when not synced and the *)
(* remote side is connected, clear the connected flags.                     *)
Interrupt(p, synced) ==
    [p EXCEPT !.lsock = IF @ = "open" THEN "shut" ELSE @,
              !.ssl = IF ~synced /\ p.rconn THEN "pending" ELSE @,
              !.rconn = FALSE]

\* Mutant of IsActive: only the remote thread is asked about.
IsActiveRemoteOnly(s) == pump[s].rpc \in RemoteRunning

\* RemoteProxyClient::is_active, lines 153-157
IsActive(s) == pump[s].rpc \in RemoteRunning \/ pump[s].lpc = "relay"

\* The io thread can start a new handler: the host thread is inside
\* io_service.run() (threadproc, line 645) and the service is not stopped.
IoFree == hostThread = "running" /\ ~ioStopped /\ ioPc = "run"

\* The io thread gets to queued handlers within a second or two: it runs,
\* and is not stuck in check_deadline waiting for m_mutex held elsewhere.
IoLive ==
    /\ hostThread = "running"
    /\ ~ioStopped
    /\ ~(ioPc = "reap" /\ mutex # "none")

\* An async_shutdown whose completion handler the io thread can run now:
\* the peer or our socket went away.
IoReady(s) ==
    /\ pump[s].ssl = "pending"
    /\ \/ peer[s].st = "closed"
       \/ pump[s].rpc = "done"

SetRpc(s, pc) == pump' = [pump EXCEPT ![s].rpc = pc]

\* Mutant of RemoteExit: the exit path skips interrupt(true).
RemoteExitNoInterrupt(s) == pump' = [pump EXCEPT ![s].rpc = "linger"]

\* Leaving the remote thread's try block: interrupt(true), line 465.
RemoteExit(s) ==
    pump' = [pump EXCEPT ![s] = [Interrupt(@, TRUE) EXCEPT !.rpc = "linger"]]

\* the control thread between host calls
CtlIdle == [pc |-> "idle", op |-> "none", todo |-> {}, cur |-> NoName,
            arg |-> {}, target |-> {}]

-----------------------------------------------------------------------------
Init ==
    /\ remoteEp = InitRemotes
    /\ clients = {}
    /\ hostThread = "running"       \* proxy_global lock() has called start()
    /\ ioStopped = FALSE
    /\ ioPc = "run"
    /\ ioDue = {}
    /\ acceptArmed = TRUE
    /\ acceptorOpen = TRUE
    /\ mutex = "none"
    /\ pump = [s \in Sessions |->
                 [rpc |-> "new", lpc |-> "none", ep |-> NoName, rconn |-> FALSE,
                  lsock |-> "closed", lsrv |-> "none", ssl |-> "none",
                  runR |-> TRUE, stopped |-> NotStopped]]
    /\ peer = [s \in Sessions |-> [st |-> "absent", name |-> NoName,
                                   notified |-> FALSE]]
    /\ ctl = CtlIdle
    /\ ctlCount = 0

-----------------------------------------------------------------------------
(* The environment: remote peers connecting and closing, local servers     *)
(* closing.                                                                 *)

\* A remote proxy connects to the listening port; its certificate carries
\* a configured name or a name the host does not know.
PeerConnect(s) ==
    /\ peer[s].st = "absent"
    /\ acceptorOpen
    /\ \E n \in Names \cup {Stranger} :
          peer' = [peer EXCEPT ![s] = [@ EXCEPT !.st = "waiting", !.name = n]]
    /\ UNCHANGED << remoteEp, clients, hostThread, ioStopped, ioPc, ioDue,
                    acceptArmed, acceptorOpen, mutex, pump, ctl, ctlCount >>

\* The peer closes the connection on its own (idle timeout, restart).
PeerClose(s) ==
    /\ peer[s].st = "open"
    /\ ~peer[s].notified
    /\ peer' = [peer EXCEPT ![s].st = "closed"]
    /\ UNCHANGED << remoteEp, clients, hostThread, ioStopped, ioPc, ioDue,
                    acceptArmed, acceptorOpen, mutex, pump, ctl, ctlCount >>

\* The peer answers our close_notify by closing its end.
PeerAnswer(s) ==
    /\ peer[s].st = "open"
    /\ peer[s].notified
    /\ peer' = [peer EXCEPT ![s].st = "closed"]
    /\ UNCHANGED << remoteEp, clients, hostThread, ioStopped, ioPc, ioDue,
                    acceptArmed, acceptorOpen, mutex, pump, ctl, ctlCount >>

\* The local server closes the connection the session opened to it.
LocalServerClose(s) ==
    /\ pump[s].lsrv = "open"
    /\ pump' = [pump EXCEPT ![s].lsrv = "closed"]
    /\ UNCHANGED << remoteEp, clients, hostThread, ioStopped, ioPc, ioDue,
                    acceptArmed, acceptorOpen, mutex, peer, ctl, ctlCount >>

-----------------------------------------------------------------------------
(* The host's io thread (RemoteProxyHost::threadproc, lines 618-658).      *)

\* handle_accept without error, lines 751-755: the session is appended to
\* m_clients and started; its remote thread begins at remote_threadproc,
\* lines 345-349, setting m_remote_connected before the handshake.
HandleAccept(s) ==
    /\ IoFree
    /\ acceptArmed
    /\ peer[s].st = "waiting"
    /\ clients' = clients \cup {s}
    /\ pump' = [pump EXCEPT ![s].rpc = "handshake", ![s].rconn = TRUE]
    /\ peer' = [peer EXCEPT ![s].st = "open"]
    /\ acceptArmed' = FALSE
    /\ ioPc' = "accept_sleep"
    /\ UNCHANGED << remoteEp, hostThread, ioStopped, ioDue, acceptorOpen,
                    mutex, ctl, ctlCount >>

\* Mutant of HandleAcceptResume: the next async_accept is not armed.
HandleAcceptResumeNoArm ==
    /\ ioPc = "accept_sleep"
    /\ ioPc' = "run"
    /\ UNCHANGED << remoteEp, clients, hostThread, ioStopped, ioDue,
                    acceptArmed, acceptorOpen, mutex, pump, peer, ctl, ctlCount >>

\* handle_accept after its one-second sleep, lines 757-765: the verify file
\* is reloaded and the next async_accept is armed.
HandleAcceptResume ==
    /\ ioPc = "accept_sleep"
    /\ ioPc' = "run"
    /\ acceptArmed' = TRUE
    /\ UNCHANGED << remoteEp, clients, hostThread, ioStopped, ioDue,
                    acceptorOpen, mutex, pump, peer, ctl, ctlCount >>

\* handle_accept with an error, lines 767-771: the session is dropped and
\* no further async_accept is armed. The connection stays in the backlog.
HandleAcceptError ==
    /\ AcceptErrors
    /\ IoFree
    /\ acceptArmed
    /\ \E s \in Sessions : peer[s].st = "waiting"
    /\ acceptArmed' = FALSE
    /\ UNCHANGED << remoteEp, clients, hostThread, ioStopped, ioPc, ioDue,
                    acceptorOpen, mutex, pump, peer, ctl, ctlCount >>

\* The deadline timer expires and check_deadline starts (lines 694-713): it
\* re-arms the timer and then blocks on m_mutex. The io work queued before
\* the previous run has been handled by now.
CheckDeadlineFire ==
    /\ IoFree
    /\ \A s \in ioDue : ~IoReady(s)
    /\ ioPc' = "reap"
    /\ UNCHANGED << remoteEp, clients, hostThread, ioStopped, ioDue,
                    acceptArmed, acceptorOpen, mutex, pump, peer, ctl, ctlCount >>

\* Mutant of CheckDeadline: stop() is not idempotent, so every run stamps
\* m_stopped again before comparing it with now.
CheckDeadlineRestamp ==
    /\ ioPc = "reap"
    /\ mutex = "none"
    /\ LET idle == {s \in clients : ~IsActive(s)}
       IN  /\ pump' = [s \in Sessions |->
                         IF s \in idle THEN [pump[s] EXCEPT !.stopped = 1]
                         ELSE pump[s]]
           /\ UNCHANGED clients
    /\ ioPc' = "run"
    /\ ioDue' = {s \in Sessions : IoReady(s)}
    /\ UNCHANGED << remoteEp, hostThread, ioStopped, acceptArmed,
                    acceptorOpen, mutex, peer, ctl, ctlCount >>

\* check_deadline under m_mutex, lines 714-740: every inactive session is
\* stop()ped (its threads have ended, so stop only stamps m_stopped) and it
\* is erased once now > m_stopped + 2s.
CheckDeadline ==
    /\ ioPc = "reap"
    /\ mutex = "none"
    /\ LET idle == {s \in clients : ~IsActive(s)}
           age(s) == Older(pump[s].stopped)
       IN  \E late \in SUBSET {s \in idle : age(s) = 1} :
              /\ clients' = clients \ ({s \in idle : age(s) = 2} \cup late)
              /\ pump' = [s \in Sessions |->
                            IF s \in idle /\ pump[s].stopped = NotStopped
                            THEN [pump[s] EXCEPT !.stopped = 1]
                            ELSE IF s \in clients
                            THEN [pump[s] EXCEPT !.stopped = age(s)]
                            ELSE pump[s]]
    /\ ioPc' = "run"
    /\ ioDue' = {s \in Sessions : IoReady(s)}
    /\ UNCHANGED << remoteEp, hostThread, ioStopped, acceptArmed,
                    acceptorOpen, mutex, peer, ctl, ctlCount >>

\* The close_notify of the async_shutdown of line 186 is written by the
\* initiating call, in the thread that ran interrupt(false) (the stop
\* callbacks of lines 59-60 or the local thread); only its completion
\* handler waits for the io thread.
AsyncShutdownSend(s) ==
    /\ pump[s].ssl = "pending"
    /\ ~peer[s].notified
    /\ peer[s].st = "open"
    /\ pump[s].rpc # "done"
    /\ peer' = [peer EXCEPT ![s].notified = TRUE]
    /\ UNCHANGED << remoteEp, clients, hostThread, ioStopped, ioPc, ioDue,
                    acceptArmed, acceptorOpen, mutex, pump, ctl, ctlCount >>

\* The async_shutdown completes: the peer has closed, or the remote thread
\* closed the socket and the operation is aborted.
AsyncShutdownDone(s) ==
    /\ IoFree
    /\ pump[s].ssl = "pending"
    /\ peer[s].st = "closed" \/ pump[s].rpc = "done"
    /\ pump' = [pump EXCEPT ![s].ssl = "none"]
    /\ ioDue' = ioDue \ {s}
    /\ UNCHANGED << remoteEp, clients, hostThread, ioStopped, ioPc,
                    acceptArmed, acceptorOpen, mutex, peer, ctl, ctlCount >>

-----------------------------------------------------------------------------
(* A session's remote thread, RemoteProxyClient::remote_threadproc,        *)
(* lines 340-480, and its local thread, local_threadproc, lines 195-246.   *)

\* Mutant of RemoteHandshake: a valid certificate is accepted without a
\* configured endpoint of its name (the hit test is missing).
RemoteHandshakeNoHit(s) ==
    /\ pump[s].rpc = "handshake"
    /\ \/ /\ peer[s].st = "open"
          /\ pump' = [pump EXCEPT ![s].ep = peer[s].name, ![s].rpc = "connect"]
       \/ RemoteExit(s)
    /\ UNCHANGED << remoteEp, clients, hostThread, ioStopped, ioPc, ioDue,
                    acceptArmed, acceptorOpen, mutex, peer, ctl, ctlCount >>

\* Lines 351-379: the TLS handshake as server, then the issuer common name
\* is looked up in the host's m_remote_ep (read without the host's lock).
\* A failed handshake, or no endpoint of that name, throws.
RemoteHandshake(s) ==
    /\ pump[s].rpc = "handshake"
    /\ \/ /\ peer[s].st = "open"
          /\ peer[s].name \in remoteEp
          /\ pump' = [pump EXCEPT ![s].ep = peer[s].name, ![s].rpc = "connect"]
       \/ RemoteExit(s)
    /\ UNCHANGED << remoteEp, clients, hostThread, ioStopped, ioPc, ioDue,
                    acceptArmed, acceptorOpen, mutex, peer, ctl, ctlCount >>

\* Lines 380-411: connect to the local endpoints in shuffled order;
\* sockect_connect closes the socket before each attempt.
RemoteLocalConnect(s) ==
    /\ pump[s].rpc = "connect"
    /\ \/ pump' = [pump EXCEPT ![s].lsock = "open", ![s].lsrv = "open",
                               ![s].rpc = "logon"]
       \/ /\ pump' = [pump EXCEPT ![s] =
                        [Interrupt([@ EXCEPT !.lsock = "closed"], TRUE)
                           EXCEPT !.rpc = "linger"]]
    /\ UNCHANGED << remoteEp, clients, hostThread, ioStopped, ioPc, ioDue,
                    acceptArmed, acceptorOpen, mutex, peer, ctl, ctlCount >>

\* Lines 412-420: the plugin's connect_handler logs on; on success the
\* local thread is started and the relay loop entered while check_run().
RemoteLogon(s) ==
    /\ pump[s].rpc = "logon"
    /\ \/ IF pump[s].runR
          THEN pump' = [pump EXCEPT ![s].lpc = "relay", ![s].rpc = "relay"]
          ELSE pump' = [pump EXCEPT ![s] =
                          [Interrupt(@, TRUE) EXCEPT !.lpc = "relay",
                                                     !.rpc = "linger"]]
       \/ RemoteExit(s)
    /\ UNCHANGED << remoteEp, clients, hostThread, ioStopped, ioPc, ioDue,
                    acceptArmed, acceptorOpen, mutex, peer, ctl, ctlCount >>

\* Lines 423-429: read_some on the TLS stream fails because the peer has
\* closed; the loop breaks.
RemoteReadEnd(s) ==
    /\ pump[s].rpc = "relay"
    /\ peer[s].st = "closed"
    /\ RemoteExit(s)
    /\ UNCHANGED << remoteEp, clients, hostThread, ioStopped, ioPc, ioDue,
                    acceptArmed, acceptorOpen, mutex, peer, ctl, ctlCount >>

\* Lines 430-452 and 420: data arrives from the peer; writing it to a
\* local socket that is shut down or closed throws, and after a write the
\* loop ends if the thread was asked to stop.
RemoteWriteFail(s) ==
    /\ pump[s].rpc = "relay"
    /\ peer[s].st = "open"
    /\ pump[s].lsock # "open" \/ pump[s].lsrv = "closed" \/ ~pump[s].runR
    /\ RemoteExit(s)
    /\ UNCHANGED << remoteEp, clients, hostThread, ioStopped, ioPc, ioDue,
                    acceptArmed, acceptorOpen, mutex, peer, ctl, ctlCount >>

\* Lines 466-475: after interrupt(true) and two one-second sleeps, the
\* synchronous TLS shutdown writes a close_notify ... The sleeps outlast
\* the io handlers already queued, unless the io thread is held up.
RemoteLinger(s) ==
    /\ pump[s].rpc = "linger"
    /\ ~(IoLive /\ \E t \in Sessions : IoReady(t))
    /\ SetRpc(s, "shutdown")
    /\ peer' = IF peer[s].st = "open"
               THEN [peer EXCEPT ![s].notified = TRUE] ELSE peer
    /\ UNCHANGED << remoteEp, clients, hostThread, ioStopped, ioPc, ioDue,
                    acceptArmed, acceptorOpen, mutex, ctl, ctlCount >>

\* ... and returns once the peer's end is closed; the socket is closed and
\* the thread ends (lines 475-479).
RemoteShutdownDone(s) ==
    /\ pump[s].rpc = "shutdown"
    /\ peer[s].st = "closed"
    /\ SetRpc(s, "done")
    /\ UNCHANGED << remoteEp, clients, hostThread, ioStopped, ioPc, ioDue,
                    acceptArmed, acceptorOpen, mutex, peer, ctl, ctlCount >>

\* local_threadproc, lines 210-220 and 244: read_some on the local socket
\* fails (shut down by us, or closed by the local server); the thread ends
\* with interrupt(false).
LocalReadEnd(s) ==
    /\ pump[s].lpc = "relay"
    /\ pump[s].lsock # "open" \/ pump[s].lsrv = "closed"
    /\ pump' = [pump EXCEPT ![s] = [Interrupt(@, FALSE) EXCEPT !.lpc = "done"]]
    /\ UNCHANGED << remoteEp, clients, hostThread, ioStopped, ioPc, ioDue,
                    acceptArmed, acceptorOpen, mutex, peer, ctl, ctlCount >>

\* Lines 229-244: data from the local server is written to the TLS stream;
\* the write throws when the peer or our remote socket has gone.
LocalWriteFail(s) ==
    /\ pump[s].lpc = "relay"
    /\ pump[s].lsock = "open"
    /\ pump[s].lsrv = "open"
    /\ peer[s].st = "closed" \/ pump[s].rpc = "done"
    /\ pump' = [pump EXCEPT ![s] = [Interrupt(@, FALSE) EXCEPT !.lpc = "done"]]
    /\ UNCHANGED << remoteEp, clients, hostThread, ioStopped, ioPc, ioDue,
                    acceptArmed, acceptorOpen, mutex, peer, ctl, ctlCount >>

-----------------------------------------------------------------------------
(* The control thread: configuration reload (proxy_global.cpp              *)
(* unpopulate_json / populate_json), host_set_active and the web API.      *)

CtlStart(op) ==
    /\ ctl.pc = "idle"
    /\ op \in CtlOps
    /\ ctlCount < MaxCtlOps
    /\ ctlCount' = ctlCount + 1

\* unpopulate_json, lines 385-415: the host is kept; the endpoints missing
\* from the new configuration are passed to remove_any (lines 779-796),
\* which takes m_mutex. populate_json later updates m_remote_ep.
CtlReconfig ==
    /\ CtlStart("reconfig")
    /\ \E target \in SUBSET Names :
          ctl' = [ctl EXCEPT !.pc = "lock", !.op = "remove_any",
                             !.arg = remoteEp \ target, !.target = target]
    /\ UNCHANGED << remoteEp, clients, hostThread, ioStopped, ioPc, ioDue,
                    acceptArmed, acceptorOpen, mutex, pump, peer >>

\* RemoteProxyHost::stop_by_name, lines 545-564.
CtlStopByName ==
    /\ CtlStart("stop_by_name")
    /\ \E n \in Names :
          ctl' = [ctl EXCEPT !.pc = "lock", !.op = "stop_by_name", !.arg = {n}]
    /\ UNCHANGED << remoteEp, clients, hostThread, ioStopped, ioPc, ioDue,
                    acceptArmed, acceptorOpen, mutex, pump, peer >>

\* RemoteProxyHost::stop, lines 674-677: m_thread.stop() calls interrupt()
\* (io_service.stop(), lines 661-671) and joins the host thread.
CtlHostStop ==
    /\ CtlStart("host_stop")
    /\ ioStopped' = (ioStopped \/ hostThread = "running")
    /\ ctl' = [ctl EXCEPT !.pc = IF hostThread = "running"
                                 THEN "join_host" ELSE "lock",
                          !.op = "host_stop"]
    /\ UNCHANGED << remoteEp, clients, hostThread, ioPc, ioDue, acceptArmed,
                    acceptorOpen, mutex, pump, peer >>

\* The host thread leaves io_service.run() once its current handler is
\* done; threadproc's scope_exit calls unlock() (lines 608-615), closing
\* the acceptor and resetting connections still in its backlog.
CtlJoinHost ==
    /\ ctl.pc = "join_host"
    /\ ioPc = "run"
    /\ hostThread' = "stopped"
    /\ acceptorOpen' = FALSE
    /\ acceptArmed' = FALSE
    /\ peer' = [s \in Sessions |->
                  IF peer[s].st = "waiting"
                  THEN [peer[s] EXCEPT !.st = "closed"] ELSE peer[s]]
    /\ ctl' = [ctl EXCEPT !.pc = "lock"]
    /\ UNCHANGED << remoteEp, clients, ioStopped, ioPc, ioDue, mutex, pump,
                    ctlCount >>

\* RemoteProxyHost::start, lines 583-599: nothing when the thread runs;
\* otherwise open and bind the acceptor and start threadproc, which
\* listens and arms async_accept (lines 622-626). m_io_service keeps its
\* stopped state.
CtlHostStart ==
    /\ CtlStart("host_start")
    /\ IF hostThread = "running"
       THEN UNCHANGED << hostThread, acceptorOpen, acceptArmed >>
       ELSE /\ hostThread' = "running"
            /\ acceptorOpen' = TRUE
            /\ acceptArmed' = TRUE
    /\ UNCHANGED << remoteEp, clients, ioStopped, ioPc, ioDue, mutex, pump,
                    peer, ctl >>

\* RemoteProxyHost::save_json_status, lines 797-851, called by the web
\* status page: under m_mutex it walks the endpoints and, for each, the
\* sessions, reading their sockets and counters. It stops nothing.
CtlStatus ==
    /\ CtlStart("status")
    /\ ctl' = [ctl EXCEPT !.pc = "lock", !.op = "status"]
    /\ UNCHANGED << remoteEp, clients, hostThread, ioStopped, ioPc, ioDue,
                    acceptArmed, acceptorOpen, mutex, pump, peer >>

\* The host call takes m_mutex and walks m_clients.
CtlLock ==
    /\ ctl.pc = "lock"
    /\ mutex = "none"
    /\ mutex' = "ctl"
    /\ ctl' = [ctl EXCEPT !.pc = "visit", !.todo = clients]
    /\ UNCHANGED << remoteEp, clients, hostThread, ioStopped, ioPc, ioDue,
                    acceptArmed, acceptorOpen, pump, peer, ctlCount >>

\* Whether the walk stops a session: remove_any compares m_endpoint with
\* the removed endpoints (line 784), stop_by_name compares the name (line
\* 551), RemoteProxyHost::stop stops every session (lines 679-682).
Selected(s) ==
    CASE ctl.op = "remove_any"   -> pump[s].ep \in ctl.arg
      [] ctl.op = "stop_by_name" -> pump[s].ep \in ctl.arg
      [] ctl.op = "host_stop"    -> TRUE
      [] ctl.op = "status"       -> FALSE

CtlVisit ==
    /\ ctl.pc = "visit"
    /\ \E s \in ctl.todo :
          ctl' = IF Selected(s)
                 THEN [ctl EXCEPT !.cur = s, !.pc = "stop_local"]
                 ELSE [ctl EXCEPT !.todo = @ \ {s}]
    /\ UNCHANGED << remoteEp, clients, hostThread, ioStopped, ioPc, ioDue,
                    acceptArmed, acceptorOpen, mutex, pump, peer, ctlCount >>

\* End of the walk: m_mutex is released. After remove_any, populate_json
\* updates the endpoint list.
CtlUnlock ==
    /\ ctl.pc = "visit"
    /\ ctl.todo = {}
    /\ mutex' = "none"
    /\ ctl' = IF ctl.op = "remove_any" THEN [ctl EXCEPT !.pc = "add"] ELSE CtlIdle
    /\ UNCHANGED << remoteEp, clients, hostThread, ioStopped, ioPc, ioDue,
                    acceptArmed, acceptorOpen, pump, peer, ctlCount >>

\* RemoteProxyClient::stop (lines 160-169) on the current session ends by
\* stamping m_stopped; remove_any then erases it at once (line 788).
StopDone(s) ==
    /\ clients' = IF ctl.op = "remove_any" THEN clients \ {s} ELSE clients
    /\ ctl' = [ctl EXCEPT !.pc = "visit", !.todo = @ \ {s}]

\* stop(), lines 163-165: if m_stopped is unset, m_local_thread.stop()
\* calls interrupt(false) when the local thread runs and joins it.
PumpStopLocal ==
    /\ ctl.pc = "stop_local"
    /\ LET s == ctl.cur IN
       IF pump[s].stopped # NotStopped
       THEN StopDone(s) /\ UNCHANGED pump
       ELSE IF pump[s].lpc = "relay"
       THEN /\ pump' = [pump EXCEPT ![s] = Interrupt(@, FALSE)]
            /\ ctl' = [ctl EXCEPT !.pc = "join_local"]
            /\ UNCHANGED clients
       ELSE /\ ctl' = [ctl EXCEPT !.pc = "stop_remote"]
            /\ UNCHANGED << clients, pump >>
    /\ UNCHANGED << remoteEp, hostThread, ioStopped, ioPc, ioDue, acceptArmed,
                    acceptorOpen, mutex, peer, ctlCount >>

PumpJoinLocal ==
    /\ ctl.pc = "join_local"
    /\ pump[ctl.cur].lpc # "relay"
    /\ ctl' = [ctl EXCEPT !.pc = "stop_remote"]
    /\ UNCHANGED << remoteEp, clients, hostThread, ioStopped, ioPc, ioDue,
                    acceptArmed, acceptorOpen, mutex, pump, peer, ctlCount >>

\* stop(), lines 166-167: m_remote_thread.stop() clears its run flag,
\* calls interrupt(false) when the thread runs and joins it; then m_stopped
\* is stamped.
PumpStopRemote ==
    /\ ctl.pc = "stop_remote"
    /\ LET s == ctl.cur IN
       IF pump[s].rpc \in RemoteRunning
       THEN /\ pump' = [pump EXCEPT ![s] = [Interrupt(@, FALSE) EXCEPT !.runR = FALSE]]
            /\ ctl' = [ctl EXCEPT !.pc = "join_remote"]
            /\ UNCHANGED clients
       ELSE /\ pump' = [pump EXCEPT ![s].runR = FALSE, ![s].stopped = 0]
            /\ StopDone(s)
    /\ UNCHANGED << remoteEp, hostThread, ioStopped, ioPc, ioDue, acceptArmed,
                    acceptorOpen, mutex, peer, ctlCount >>

\* Mutant of PumpJoinRemote: m_remote_thread.stop() does not join.
PumpJoinRemoteNoWait ==
    /\ ctl.pc = "join_remote"
    /\ pump' = [pump EXCEPT ![ctl.cur].stopped = 0]
    /\ StopDone(ctl.cur)
    /\ UNCHANGED << remoteEp, hostThread, ioStopped, ioPc, ioDue, acceptArmed,
                    acceptorOpen, mutex, peer, ctlCount >>

PumpJoinRemote ==
    /\ ctl.pc = "join_remote"
    /\ pump[ctl.cur].rpc = "done"
    /\ pump' = [pump EXCEPT ![ctl.cur].stopped = 0]
    /\ StopDone(ctl.cur)
    /\ UNCHANGED << remoteEp, hostThread, ioStopped, ioPc, ioDue, acceptArmed,
                    acceptorOpen, mutex, peer, ctlCount >>

\* populate_json, lines 540-548: is_same yields the endpoints to add and to
\* remove; add_remotes (lines 520-527) appends the new ones under m_mutex ...
AddRemotes ==
    /\ ctl.pc = "add"
    /\ mutex = "none"
    /\ remoteEp' = remoteEp \cup (ctl.target \ remoteEp)
    /\ ctl' = [ctl EXCEPT !.pc = "remove", !.arg = remoteEp \ ctl.target]
    /\ UNCHANGED << clients, hostThread, ioStopped, ioPc, ioDue, acceptArmed,
                    acceptorOpen, mutex, pump, peer, ctlCount >>

\* ... and remove_remotes (lines 530-542) erases the removed ones.
RemoveRemotes ==
    /\ ctl.pc = "remove"
    /\ mutex = "none"
    /\ remoteEp' = remoteEp \ ctl.arg
    /\ ctl' = CtlIdle
    /\ UNCHANGED << clients, hostThread, ioStopped, ioPc, ioDue, acceptArmed,
                    acceptorOpen, mutex, pump, peer, ctlCount >>

-----------------------------------------------------------------------------
IoNext ==
    \/ HandleAcceptResume \/ HandleAcceptError
    \/ CheckDeadlineFire \/ CheckDeadline
    \/ \E s \in Sessions : HandleAccept(s) \/ AsyncShutdownSend(s)
                           \/ AsyncShutdownDone(s)

SessionNext(s) ==
    \/ RemoteHandshake(s) \/ RemoteLocalConnect(s) \/ RemoteLogon(s)
    \/ RemoteReadEnd(s) \/ RemoteWriteFail(s) \/ RemoteLinger(s)
    \/ RemoteShutdownDone(s) \/ LocalReadEnd(s) \/ LocalWriteFail(s)

\* the steps of a host call already begun
CtlStep ==
    \/ CtlJoinHost \/ CtlLock \/ CtlVisit \/ CtlUnlock
    \/ PumpStopLocal \/ PumpJoinLocal \/ PumpStopRemote \/ PumpJoinRemote
    \/ AddRemotes \/ RemoveRemotes

CtlNext ==
    \/ CtlReconfig \/ CtlStopByName \/ CtlHostStop \/ CtlHostStart \/ CtlStatus
    \/ CtlStep

EnvNext ==
    \E s \in Sessions : PeerConnect(s) \/ PeerClose(s) \/ PeerAnswer(s)
                           \/ LocalServerClose(s)

Next == IoNext \/ CtlNext \/ EnvNext \/ \E s \in Sessions : SessionNext(s)

(***************************************************************************)
(* Fairness. Threads are scheduled by the OS: every step a thread can take *)
(* on its own is weakly fair. The io thread runs queued handlers in order, *)
(* so a handler that keeps becoming runnable is run (strong fairness).     *)
(* A peer answers a close_notify (the uniproxy client's read fails and it  *)
(* closes). Connecting, closing on its own, data arrival and accept errors *)
(* are the environment's choice, and the control thread may never start  *)
(* another call: these carry no fairness.                                 *)
(***************************************************************************)
\* the steps a session's remote thread takes on its own
RemoteStep(s) ==
    \/ RemoteHandshake(s) \/ RemoteLocalConnect(s) \/ RemoteLogon(s)
    \/ RemoteReadEnd(s) \/ RemoteLinger(s) \/ RemoteShutdownDone(s)

Fairness ==
    /\ SF_vars(CheckDeadlineFire) /\ WF_vars(CheckDeadline)
    /\ WF_vars(HandleAcceptResume)
    /\ WF_vars(CtlStep)
    /\ \A s \in Sessions :
          /\ SF_vars(HandleAccept(s))
          /\ WF_vars(AsyncShutdownSend(s))
          /\ SF_vars(AsyncShutdownDone(s))
          /\ WF_vars(PeerAnswer(s))
          /\ WF_vars(RemoteStep(s))
          /\ WF_vars(LocalReadEnd(s))

Spec == Init /\ [][Next]_vars /\ Fairness

-----------------------------------------------------------------------------
(* The session lifecycle of SessionLifecycle, read off the threads of each *)
(* RemoteProxyClient and its membership of m_clients.                      *)
PhaseOf(s) ==
    CASE pump[s].rpc = "new"                          -> "Absent"
      [] pump[s].rpc = "handshake"                    -> "Authenticating"
      [] pump[s].rpc \in {"connect", "logon", "relay"} -> "Serving"
      [] pump[s].rpc \in {"linger", "shutdown"}        -> "Closing"
      [] pump[s].rpc = "done" /\ s \in clients         -> "Finished"
      [] OTHER                                        -> "Reaped"

LocalOf(s) ==
    CASE pump[s].lpc = "none"  -> "none"
      [] pump[s].lpc = "relay" -> "running"
      [] pump[s].lpc = "done"  -> "done"

Lifecycle == INSTANCE SessionLifecycle
    WITH phase <- [s \in Sessions |-> PhaseOf(s)],
         local <- [s \in Sessions |-> LocalOf(s)],
         ep <- [s \in Sessions |-> pump[s].ep]

-----------------------------------------------------------------------------
(* Properties.                                                              *)

TypeOK ==
    /\ remoteEp \subseteq Names
    /\ clients \subseteq Sessions
    /\ hostThread \in {"running", "stopped"}
    /\ ioStopped \in BOOLEAN
    /\ ioPc \in {"run", "reap", "accept_sleep"}
    /\ ioDue \subseteq Sessions
    /\ acceptArmed \in BOOLEAN
    /\ acceptorOpen \in BOOLEAN
    /\ mutex \in {"none", "ctl"}
    /\ pump \in [Sessions -> PumpType]
    /\ peer \in [Sessions -> PeerType]
    /\ ctl.pc \in CtlPcs
    /\ ctl.todo \subseteq Sessions
    /\ ctl.cur \in Sessions \cup {NoName}
    /\ ctl.arg \subseteq Names
    /\ ctl.target \subseteq Names
    /\ ctlCount \in 0 .. MaxCtlOps

Accepted(s) == pump[s].rpc # "new"

\* remote_threadproc only connects to a local endpoint after the peer's
\* certificate common name matched a configured remote endpoint, and the
\* session then acts for exactly that endpoint (lines 366-380).
AuthenticatedSession ==
    \A s \in Sessions :
       pump[s].lsrv # "none" =>
          /\ peer[s].name \in Names
          /\ pump[s].ep = peer[s].name

\* A RemoteProxyClient leaves m_clients (and is destroyed) only after its
\* remote thread has ended: check_deadline erases only inactive sessions,
\* remove_any erases only after stop() joined the threads.
ErasedSessionsFinished ==
    \A s \in Sessions :
       Accepted(s) /\ s \notin clients => pump[s].rpc = "done"

\* A RemoteProxyClient is not destroyed while the async_shutdown posted by
\* interrupt(false) is still queued on the host's io_service: the handler
\* would run against a freed TLS stream. The two-second grace before
\* check_deadline erases a stopped session is there for this.
NoDestroyWithPendingShutdown ==
    \A s \in Sessions :
       Accepted(s) /\ s \notin clients => pump[s].ssl = "none"

\* Every session follows the lifecycle of spec.md 3-4.1: it serves only an
\* endpoint configured when its certificate was checked, its local thread
\* starts only while it serves, and m_clients drops it (check_deadline or
\* remove_any, destroying it) only after both its threads have ended.
ImplementsSessionLifecycle == Lifecycle!Spec

\* Removing a remote endpoint by reconfiguration leaves no session relaying
\* for it: once the control thread is done, every session past the
\* certificate check acts for an endpoint still in m_remote_ep.
RemovedEndpointHasNoSession ==
    ctl.pc = "idle" =>
       \A s \in Sessions :
          pump[s].rpc \in {"connect", "logon", "relay"} => pump[s].ep \in remoteEp

\* When the peer closes the TLS connection, both threads of the session end:
\* the remote thread's exit shuts down the local socket (interrupt(true)),
\* which ends the local thread.
PeerCloseTearsDown ==
    \A s \in Sessions :
       (Accepted(s) /\ peer[s].st = "closed")
          ~> (pump[s].rpc = "done" /\ pump[s].lpc # "relay")

\* When the local server closes, the session's remote thread ends too: the
\* local thread's interrupt(false) posts a TLS shutdown, the peer answers
\* it and the remote read fails.
LocalCloseTearsDown ==
    \A s \in Sessions : pump[s].lsrv = "closed" ~> pump[s].rpc = "done"

\* A session whose threads have ended is eventually erased from m_clients
\* by check_deadline (stop() stamps it once, the grace passes).
DeadSessionReaped ==
    \A s \in Sessions : (s \in clients /\ ~IsActive(s)) ~> s \notin clients

\* A connection waiting in the listen backlog is eventually accepted (or
\* reset when the host stops).
AcceptProgress ==
    \A s \in Sessions : peer[s].st = "waiting" ~> peer[s].st # "waiting"

=============================================================================
