----------------------------- MODULE LocalHost -----------------------------
(***************************************************************************)
(* The client role of uniproxy: LocalHost (localclient.cpp).  Its thread   *)
(* runs threadproc: it accepts a first local socket, then go_out connects  *)
(* to a remote proxy over TLS and runs the io_service on the same thread.  *)
(* All asio handlers therefore run one at a time on that thread:           *)
(* - a read on a local socket fills m_local_data, shared by every local    *)
(*   socket, and writes it to the remote;                                  *)
(* - a read on the remote fills m_remote_data and writes it to every local *)
(*   socket; m_write_count holds the next remote read back until all      *)
(*   those writes have completed;                                          *)
(* - handle_accept takes further local sockets while one is connected;     *)
(* - check_deadline shuts the remote down when no read arrives in time.    *)
(* A handler that throws ends io_service::run and go_out.  With            *)
(* auto_reconnect go_out runs again on the same io_service, so the         *)
(* handlers still pending from the previous remote connection run in the  *)
(* next one.                                                               *)
(*                                                                         *)
(* Data abstraction: a read buffer holds the tag of what filled it: the    *)
(* local socket for m_local_data, a message number for m_remote_data.  A   *)
(* remote connection is numbered by the go_out that made it.               *)
(***************************************************************************)
EXTENDS Integers, FiniteSets

CONSTANTS
    Socks,           \* local sockets the acceptor may hand out
    NoSock,          \* m_local_data holds nothing yet
    MaxConnections,  \* m_max_connections
    AutoReconnect,   \* m_auto_reconnect
    MaxGen,          \* bound on the remote connections made
    MaxMsgs          \* bound on the reads that deliver data

ASSUME NoSock \notin Socks /\ AutoReconnect \in BOOLEAN
ASSUME MaxConnections \in Nat /\ MaxGen \in Nat /\ MaxMsgs \in Nat

VARIABLES
    tpc,      \* where threadproc / go_out is; "crashed" once the process died
    run,      \* m_thread.check_run()
    acc,      \* mp_acceptor: "none", "open", or "shut" by interrupt
    socks,    \* m_local_sockets
    used,     \* sockets accepted so far
    lread,    \* pending read per local socket: "none", "raw" or "owned" handler
    ldata,    \* the socket whose bytes m_local_data holds
    rw,       \* async_writes to the remote in flight: [src, gen]
    lw,       \* async_writes to local sockets in flight: [dst, tag]
    rreads,   \* pending reads on each remote connection
    hs,       \* the connection with a handshake pending, or 0
    gen,      \* the current remote connection, or 0
    remote,   \* its state: "none", "open" or "shut"
    wcount,   \* m_write_count
    pacc,     \* an async_accept is pending
    rtag,     \* the message m_remote_data holds
    msgs,     \* data reads so far
    lshut     \* interrupt shut every local socket down

vars == << tpc, run, acc, socks, used, lread, ldata, rw, lw, rreads, hs, gen,
           remote, wcount, pacc, rtag, msgs, lshut >>

Gens == 1..MaxGen

-----------------------------------------------------------------------------
(* LocalHost::remove_socket, lines 174-189: close the socket and erase it. *)
RemoveSocket(s) == socks' = socks \ {s}

(* A handler throws: io_service::run returns through go_out's catch.       *)
Throw == tpc' = "caught"

(* The remote read is re-armed on the current remote_socket().             *)
ArmRemoteRead == rreads' = [rreads EXCEPT ![gen] = @ + 1]

(* The tail of handle_local_write re-arming the remote read one write     *)
(* too early.                                                              *)
AfterLocalWriteEarly(n, left) ==
    /\ IF n <= 1 /\ left # {} THEN ArmRemoteRead ELSE UNCHANGED rreads
    /\ IF left = {} THEN Throw ELSE UNCHANGED tpc

(* The tail of LocalHost::handle_local_write, lines 232-241.               *)
AfterLocalWrite(n, left) ==
    /\ IF n = 0 /\ left # {} THEN ArmRemoteRead ELSE UNCHANGED rreads
    /\ IF left = {} THEN Throw ELSE UNCHANGED tpc

(* The scope guard of line 459 runs interrupt and cleanup (lines 116-134); *)
(* the io_service is destroyed with every handler still pending.           *)
ScopeExit ==
    /\ tpc' = "settle"
    /\ acc' = "none"
    /\ socks' = {}
    /\ lread' = [s \in Socks |-> "none"]
    /\ rw' = {} /\ lw' = {} /\ pacc' = FALSE
    /\ rreads' = [g \in Gens |-> 0] /\ hs' = 0
    /\ remote' = "none"
    /\ lshut' = FALSE

Init ==
    /\ tpc = "top" /\ run = TRUE /\ acc = "none"
    /\ socks = {} /\ used = {}
    /\ lread = [s \in Socks |-> "none"] /\ ldata = NoSock
    /\ rw = {} /\ lw = {}
    /\ rreads = [g \in Gens |-> 0] /\ hs = 0
    /\ gen = 0 /\ remote = "none"
    /\ wcount = 0 /\ pacc = FALSE /\ rtag = 0 /\ msgs = 0
    /\ lshut = FALSE

-----------------------------------------------------------------------------
(* The thread: LocalHost::threadproc, lines 439-501, and go_out, 391-436   *)

(* threadproc's loop without its check_run test.                         *)
TopNoRunCheck ==
    /\ tpc = "top"
    /\ \/ /\ tpc' = "accept"
          /\ acc' = "open"
       \/ /\ tpc' = "settle"
          /\ UNCHANGED acc
    /\ UNCHANGED << run, socks, used, lread, ldata, rw, lw, rreads, hs, gen,
                    remote, wcount, pacc, rtag, msgs, lshut >>

(* Line 441, then lines 447-456: construct and publish the acceptor; a     *)
(* bind failure throws before the scope guard exists.                      *)
Top ==
    /\ tpc = "top"
    /\ \/ /\ ~run
          /\ tpc' = "exited"
          /\ UNCHANGED acc
       \/ /\ run
          /\ tpc' = "accept"
          /\ acc' = "open"
       \/ /\ run
          /\ tpc' = "settle"
          /\ UNCHANGED acc
    /\ UNCHANGED << run, socks, used, lread, ldata, rw, lw, rreads, hs, gen,
                    remote, wcount, pacc, rtag, msgs, lshut >>

(* Lines 463-473: the blocking accept returns a first socket; its read is  *)
(* armed with a raw LocalHostSocket pointer, and async_accept is armed.    *)
FirstAccept(s) ==
    /\ tpc = "accept" /\ acc = "open" /\ s \notin used
    /\ socks' = {s} /\ used' = used \cup {s}
    /\ lread' = [lread EXCEPT ![s] = "raw"]
    /\ pacc' = TRUE
    /\ tpc' = "connect"
    /\ UNCHANGED << run, acc, ldata, rw, lw, rreads, hs, gen, remote, wcount,
                    rtag, msgs, lshut >>

(* An interrupted accept throws; the scope guard runs.                     *)
AcceptAborted ==
    /\ tpc = "accept" /\ acc = "shut"
    /\ ScopeExit
    /\ UNCHANGED << run, used, ldata, gen, wcount, rtag, msgs >>

(* go_out, lines 395-424: connect, then start the handshake and run the    *)
(* io_service.  A connect failure throws into go_out's catch.              *)
Connect ==
    /\ tpc = "connect"
    /\ \/ /\ gen < MaxGen
          /\ gen' = gen + 1 /\ hs' = gen + 1
          /\ remote' = "open"
          /\ tpc' = "run"
       \/ /\ tpc' = "caught"
          /\ UNCHANGED << gen, hs, remote >>
    /\ UNCHANGED << run, acc, socks, used, lread, ldata, rw, lw, rreads,
                    wcount, pacc, rtag, msgs, lshut >>

(* go_out's catch, lines 428-435: the remote socket is destroyed; with no  *)
(* local socket left the exception goes on to threadproc's catch.          *)
Caught ==
    /\ tpc = "caught"
    /\ \/ /\ socks = {}
          /\ ScopeExit
       \/ /\ socks # {}
          /\ tpc' = "pause"
          /\ remote' = "none"
          /\ UNCHANGED << acc, socks, lread, rw, lw, rreads, hs, pacc, lshut >>
    /\ UNCHANGED << run, used, ldata, gen, wcount, rtag, msgs >>

(* Lines 490-492: sleep, then go out again while reconnecting is on and a  *)
(* local socket is connected; else leave through the scope guard.          *)
Pause ==
    /\ tpc = "pause"
    /\ \/ /\ AutoReconnect /\ run /\ socks # {}
          /\ tpc' = "connect"
          /\ UNCHANGED << acc, socks, lread, rw, lw, rreads, hs, remote, pacc,
                          lshut >>
       \/ /\ ~(AutoReconnect /\ run /\ socks # {})
          /\ ScopeExit
    /\ UNCHANGED << run, used, ldata, gen, wcount, rtag, msgs >>

(* Lines 498-499.                                                          *)
Settle ==
    /\ tpc = "settle"
    /\ tpc' = "top"
    /\ UNCHANGED << run, acc, socks, used, lread, ldata, rw, lw, rreads, hs,
                    gen, remote, wcount, pacc, rtag, msgs, lshut >>

-----------------------------------------------------------------------------
(* Handlers, run by io_service::run on the thread while tpc = "run"        *)

hvars == << run, acc, used, pacc, lshut >>

(* LocalHost::handle_handshake, lines 372-388: arm the remote read, or     *)
(* throw.  The handshake of an earlier connection can only fail.           *)
Handshake ==
    /\ tpc = "run" /\ hs # 0
    /\ hs' = 0
    /\ \/ /\ hs = gen /\ remote = "open"
          /\ ArmRemoteRead
          /\ UNCHANGED tpc
       \/ /\ Throw
          /\ UNCHANGED rreads
    /\ UNCHANGED << hvars, socks, lread, ldata, rw, lw, gen, remote, wcount,
                    rtag, msgs >>

(* handle_remote_read leaving m_write_count as it was.                     *)
RemoteReadNoCount(g) ==
    /\ tpc = "run" /\ rreads[g] > 0
    /\ rreads' = [rreads EXCEPT ![g] = @ - 1]
    /\ \/ /\ g = gen /\ remote = "open" /\ msgs < MaxMsgs
          /\ msgs' = msgs + 1 /\ rtag' = msgs + 1
          /\ lw' = lw \cup {[dst |-> s, tag |-> msgs + 1] : s \in socks}
          /\ UNCHANGED << tpc, wcount >>
       \/ /\ Throw
          /\ UNCHANGED << msgs, rtag, wcount, lw >>
    /\ UNCHANGED << hvars, socks, lread, ldata, rw, hs, gen, remote >>

(* handle_remote_read re-arming the next read at once.                     *)
RemoteReadRearm(g) ==
    /\ tpc = "run" /\ rreads[g] > 0
    /\ \/ /\ g = gen /\ remote = "open" /\ msgs < MaxMsgs
          /\ msgs' = msgs + 1 /\ rtag' = msgs + 1
          /\ wcount' = Cardinality(socks)
          /\ lw' = lw \cup {[dst |-> s, tag |-> msgs + 1] : s \in socks}
          /\ rreads' = [rreads EXCEPT ![g] = @ + 1]
          /\ UNCHANGED tpc
       \/ /\ Throw
          /\ rreads' = [rreads EXCEPT ![g] = @ - 1]
          /\ UNCHANGED << msgs, rtag, wcount, lw >>
    /\ UNCHANGED << hvars, socks, lread, ldata, rw, hs, gen, remote >>

(* LocalHost::handle_remote_read, lines 245-272, for a read on connection  *)
(* g: the data goes to every local socket and m_write_count counts the     *)
(* writes; an error (the peer closed, the socket shut or destroyed)        *)
(* throws.                                                                 *)
RemoteRead(g) ==
    /\ tpc = "run" /\ rreads[g] > 0
    /\ rreads' = [rreads EXCEPT ![g] = @ - 1]
    /\ \/ /\ g = gen /\ remote = "open" /\ msgs < MaxMsgs
          /\ msgs' = msgs + 1 /\ rtag' = msgs + 1
          /\ wcount' = Cardinality(socks)
          /\ lw' = lw \cup {[dst |-> s, tag |-> msgs + 1] : s \in socks}
          /\ UNCHANGED tpc
       \/ /\ Throw
          /\ UNCHANGED << msgs, rtag, wcount, lw >>
    /\ UNCHANGED << hvars, socks, lread, ldata, rw, hs, gen, remote >>

(* LocalHost::handle_local_write, lines 220-242: count the write down; on  *)
(* error remove the socket.                                                *)
LocalWrite(w) ==
    /\ tpc = "run" /\ w \in lw
    /\ lw' = lw \ {w}
    /\ wcount' = wcount - 1
    /\ \/ /\ w.dst \in socks /\ ~lshut
          /\ UNCHANGED socks
          /\ AfterLocalWrite(wcount - 1, socks)
       \/ /\ RemoveSocket(w.dst)
          /\ AfterLocalWrite(wcount - 1, socks \ {w.dst})
    /\ UNCHANGED << hvars, lread, ldata, rw, hs, gen, remote, rtag, msgs >>

(* LocalHost::handle_local_read, lines 192-217, for socket s: the bytes    *)
(* land in the shared m_local_data and are written to the remote; on error *)
(* the socket is removed, and the last one gone throws.                    *)
LocalRead(s) ==
    /\ tpc = "run" /\ lread[s] # "none"
    /\ lread' = [lread EXCEPT ![s] = "none"]
    /\ \/ /\ s \in socks /\ ~lshut /\ msgs < MaxMsgs
          /\ ldata' = s /\ msgs' = msgs + 1
          /\ rw' = rw \cup {[src |-> s, gen |-> gen]}
          /\ UNCHANGED << socks, tpc >>
       \/ /\ RemoveSocket(s)
          /\ IF socks \ {s} = {} THEN Throw ELSE UNCHANGED tpc
          /\ UNCHANGED << ldata, msgs, rw >>
    /\ UNCHANGED << hvars, lw, rreads, hs, gen, remote, wcount, rtag >>

(* LocalHost::handle_remote_write, lines 275-295: re-arm the read of the   *)
(* socket the bytes came from, bound to its shared_ptr; throw on error.    *)
RemoteWrite(w) ==
    /\ tpc = "run" /\ w \in rw
    /\ rw' = rw \ {w}
    /\ \/ /\ w.gen = gen /\ remote = "open"
          /\ lread' = IF w.src \in socks THEN [lread EXCEPT ![w.src] = "owned"]
                                          ELSE lread
          /\ UNCHANGED tpc
       \/ /\ Throw
          /\ UNCHANGED lread
    /\ UNCHANGED << hvars, socks, ldata, lw, rreads, hs, gen, remote, wcount,
                    rtag, msgs >>

(* LocalHost::handle_accept, lines 298-333: keep the socket below          *)
(* m_max_connections, and re-arm while the acceptor is set and a local     *)
(* socket is connected.  A shut acceptor fails the accept.                 *)
HandleAccept(s) ==
    /\ tpc = "run" /\ pacc /\ s \notin used
    /\ \/ /\ acc = "open"
          /\ used' = used \cup {s}
          /\ IF Cardinality(socks) < MaxConnections
             THEN /\ socks' = socks \cup {s}
                  /\ lread' = [lread EXCEPT ![s] = "raw"]
             ELSE UNCHANGED << socks, lread >>
          /\ pacc' = (socks' # {})
       \/ /\ acc = "shut"
          /\ pacc' = (socks # {})
          /\ UNCHANGED << used, socks, lread >>
    /\ UNCHANGED << tpc, run, acc, lshut, ldata, rw, lw, rreads, hs,
                    gen, remote, wcount, rtag, msgs >>

(* LocalHost::check_deadline, lines 338-369: the read timed out; shut the  *)
(* remote down.  Without auto_reconnect also stop the io_service,          *)
(* interrupt (lines 138-171) and throw.                                    *)
CheckDeadline ==
    /\ tpc = "run" /\ remote = "open"
    /\ remote' = "shut"
    /\ IF AutoReconnect
       THEN UNCHANGED << tpc, acc, lshut >>
       ELSE /\ Throw
            /\ acc' = IF acc = "open" THEN "shut" ELSE acc
            /\ lshut' = TRUE
    /\ UNCHANGED << run, used, pacc, socks, lread, ldata, rw, lw,
                    rreads, hs, gen, wcount, rtag, msgs >>

-----------------------------------------------------------------------------
(* LocalHost::stop, lines 108-112, from a control thread (stopall or a     *)
(* reload): m_thread.stop() clears the run flag and calls interrupt,       *)
(* whose first statement, mp_acceptor->cancel() (line 143), dereferences  *)
(* a null pointer when no acceptor is published.                           *)
Stop ==
    /\ run
    /\ run' = FALSE
    /\ IF acc = "none"
       THEN /\ tpc' = "crashed"
            /\ UNCHANGED << acc, lshut, remote >>
       ELSE /\ acc' = "shut"
            /\ lshut' = TRUE
            /\ remote' = IF remote = "open" THEN "shut" ELSE remote
            /\ UNCHANGED tpc
    /\ UNCHANGED << socks, used, lread, ldata, rw, lw, rreads, hs, gen,
                    wcount, pacc, rtag, msgs >>

Next ==
    \/ Top
    \/ \E s \in Socks : FirstAccept(s)
    \/ AcceptAborted
    \/ Connect
    \/ Caught
    \/ Pause
    \/ Settle
    \/ Handshake
    \/ \E g \in Gens : RemoteRead(g)
    \/ \E w \in lw : LocalWrite(w)
    \/ \E s \in Socks : LocalRead(s)
    \/ \E w \in rw : RemoteWrite(w)
    \/ \E s \in Socks : HandleAccept(s)
    \/ CheckDeadline
    \/ Stop

(* The client thread is never starved: its own steps, the handshake and   *)
(* the deadline timer (a timer always fires) are weakly fair.  A handler   *)
(* waiting on a peer owes nothing while the client runs; once stop has     *)
(* cleared the run flag, interrupt has shut the sockets down and every     *)
(* pending operation completes, with an error.                             *)
ThreadStep == Top \/ AcceptAborted \/ Connect \/ Caught \/ Pause \/ Settle

HandlerStep ==
    \/ \E g \in Gens : RemoteRead(g)
    \/ \E w \in lw : LocalWrite(w)
    \/ \E s \in Socks : LocalRead(s)
    \/ \E w \in rw : RemoteWrite(w)
    \/ \E s \in Socks : HandleAccept(s)

Fairness ==
    /\ WF_vars(ThreadStep)
    /\ WF_vars(Handshake)
    /\ WF_vars(CheckDeadline)
    /\ WF_vars(~run /\ HandlerStep)

Spec == Init /\ [][Next]_vars /\ Fairness

-----------------------------------------------------------------------------
TypeOK ==
    /\ tpc \in {"top", "accept", "connect", "run", "caught", "pause",
                "settle", "exited", "crashed"}
    /\ run \in BOOLEAN /\ acc \in {"none", "open", "shut"}
    /\ socks \subseteq used /\ used \subseteq Socks
    /\ Cardinality(socks) <= MaxConnections
    /\ lread \in [Socks -> {"none", "raw", "owned"}]
    /\ ldata \in Socks \cup {NoSock}
    /\ rw \subseteq [src : Socks, gen : 0..MaxGen]
    /\ lw \subseteq [dst : Socks, tag : 1..MaxMsgs]
    /\ rreads \in [Gens -> Nat] /\ hs \in 0..MaxGen /\ gen \in 0..MaxGen
    /\ remote \in {"none", "open", "shut"}
    /\ wcount \in 0..Cardinality(Socks)
    /\ pacc \in BOOLEAN /\ rtag \in 0..MaxMsgs /\ msgs \in 0..MaxMsgs

(* While the bytes of a remote read are being written to the local         *)
(* sockets, m_remote_data still holds them: m_write_count keeps the next   *)
(* remote read from overwriting the buffer until every write has           *)
(* completed, whatever sockets were removed or accepted meanwhile.         *)
RemoteDataIntact == \A w \in lw : w.dst \in socks => w.tag = rtag

(* At most one read is pending on a remote connection: asio allows one    *)
(* outstanding read per stream.                                            *)
SingleRemoteRead == \A g \in Gens : rreads[g] <= 1

StopEndsThread == (~run /\ tpc # "crashed") ~> tpc = "exited"
====
