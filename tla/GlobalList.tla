----------------------------- MODULE GlobalList -----------------------------
(***************************************************************************)
(* proxy_global's list lock (proxy_global.cpp): m_mutex_list guards the    *)
(* vectors remotehosts and localclients.  The web API's request threads,   *)
(* the configuration reload and startup/shutdown each take it with a       *)
(* lock_guard for the whole call.  host_test is the exception: when it     *)
(* finds the endpoint it unlocks m_mutex_list by hand (line 159), runs the *)
(* connection test on the host it found, and returns, where the            *)
(* lock_guard unlocks the mutex a second time.                             *)
(*                                                                         *)
(* Unlocking a std::mutex the caller does not own is undefined.  With the  *)
(* pthread mutex of the Linux build the unlock just releases the mutex,    *)
(* whoever holds it; a build may also ignore it.  Both outcomes are        *)
(* allowed.                                                                *)
(*                                                                         *)
(* Data abstraction: a host is a model value; the endpoint names a call    *)
(* looks for are left out, a search either hits a host or misses.          *)
(***************************************************************************)
EXTENDS Naturals

CONSTANTS
    Threads,   \* threads calling into proxy_global
    Hosts,     \* RemoteProxyHost objects a configuration may hold
    Ops,       \* the calls the threads make in this model
    NoOwner,   \* m_mutex_list unlocked
    NoHost,    \* no host chosen
    MaxCalls   \* bound on the calls each thread makes

ASSUME Ops \subseteq {"lock", "stopall", "host_activate", "host_test",
                      "host_set_active", "unpopulate", "populate", "status",
                      "client_activate", "client_set_active", "cert_exists",
                      "save_config"}
ASSUME NoOwner \notin Threads /\ NoHost \notin Hosts /\ MaxCalls \in Nat

VARIABLES
    owner,     \* the thread m_mutex_list is locked by, or NoOwner
    pc,        \* pc[t]: "idle", "lock" (waiting), "cs", "test", "release"
    op,        \* op[t]: the call thread t is in
    cur,       \* cur[t]: the host host_test found
    hosts,     \* the hosts in remotehosts
    running,   \* the hosts whose listener runs
    calls,     \* calls[t]: calls thread t has made
    code       \* code[t]: the status code host_test returned to thread t

vars == << owner, pc, op, cur, hosts, running, calls, code >>

-----------------------------------------------------------------------------
(* std::mutex::unlock by thread t.  The owner's unlock releases; anyone    *)
(* else's is undefined: released, or left as it was.                       *)
Unlock(o, t) == IF o = t THEN {NoOwner} ELSE {NoOwner, o}

Init ==
    /\ owner = NoOwner
    /\ pc = [t \in Threads |-> "idle"]
    /\ op = [t \in Threads |-> "none"]
    /\ cur = [t \in Threads |-> NoHost]
    /\ hosts \in SUBSET Hosts
    /\ running = {}
    /\ calls = [t \in Threads |-> 0]
    /\ code = [t \in Threads |-> 0]

\* A thread enters one of the calls; each begins with the lock_guard.
Call(t) ==
    /\ pc[t] = "idle" /\ calls[t] < MaxCalls
    /\ \E o \in Ops : op' = [op EXCEPT ![t] = o]
    /\ pc' = [pc EXCEPT ![t] = "lock"]
    /\ calls' = [calls EXCEPT ![t] = @ + 1]
    /\ UNCHANGED << owner, cur, hosts, running, code >>

\* std::lock_guard's constructor: lock() blocks until the mutex is free.
Acquire(t) ==
    /\ pc[t] = "lock" /\ owner = NoOwner
    /\ owner' = t
    /\ pc' = [pc EXCEPT ![t] = "cs"]
    /\ UNCHANGED << op, cur, hosts, running, calls, code >>

\* std::lock_guard's destructor on return: unlock().
Release(t) ==
    /\ pc[t] = "release"
    /\ owner' \in Unlock(owner, t)
    /\ pc' = [pc EXCEPT ![t] = "idle"]
    /\ cur' = [cur EXCEPT ![t] = NoHost]
    /\ UNCHANGED << op, hosts, running, calls, code >>

\* the body of call t under the lock, leaving the lists as given
Body(t, o, h, r) ==
    /\ pc[t] = "cs" /\ op[t] = o
    /\ hosts' = h /\ running' = r
    /\ pc' = [pc EXCEPT ![t] = "release"]
    /\ UNCHANGED << owner, op, cur, calls, code >>

\* lock(), lines 43-62: start every host (start() of a running host does
\* nothing), then the clients and the activation listener.
LockAll(t) == Body(t, "lock", hosts, hosts)

\* stopall(), lines 76-92: stop every host and client, clear both lists.
StopAll(t) == Body(t, "stopall", {}, {})

\* host_activate, lines 96-112, and save_json_status, lines 674-700: walk
\* the lists without changing them.
HostActivate(t) == Body(t, "host_activate", hosts, running)

Status(t) == Body(t, "status", hosts, running)

\* host_set_active, lines 171-192: the host with the id is started or
\* stopped (an id no host has changes nothing).
HostSetActive(t) ==
    \/ \E h \in hosts : Body(t, "host_set_active", hosts, running \cup {h})
    \/ \E h \in hosts : Body(t, "host_set_active", hosts, running \ {h})
    \/ Body(t, "host_set_active", hosts, running)

\* unpopulate_json, lines 353-425: the hosts the new configuration drops
\* are stopped and erased (the rest of the reload is Reconciler's).
Unpopulate(t) ==
    \E keep \in SUBSET hosts : Body(t, "unpopulate", keep, running \cap keep)

\* populate_json, lines 430-634: hosts of the new configuration are
\* created and started.
Populate(t) ==
    \E new \in SUBSET (Hosts \ hosts) :
       Body(t, "populate", hosts \cup new, running \cup new)

\* host_test, lines 149-168: no host has the endpoint; return 422.
HostTestMiss(t) ==
    /\ pc[t] = "cs" /\ op[t] = "host_test"
    /\ pc' = [pc EXCEPT ![t] = "release"]
    /\ code' = [code EXCEPT ![t] = 422]
    /\ UNCHANGED << owner, op, cur, hosts, running, calls >>

\* Lines 153-159: a host has it; m_mutex_list is unlocked by hand.
HostTestHit(t) ==
    /\ pc[t] = "cs" /\ op[t] = "host_test"
    /\ \E h \in hosts : cur' = [cur EXCEPT ![t] = h]
    /\ owner' \in Unlock(owner, t)
    /\ pc' = [pc EXCEPT ![t] = "test"]
    /\ UNCHANGED << op, hosts, running, calls, code >>

\* client_activate, lines 115-132, and client_set_active, lines 135-146:
\* find the client by id and hand it the call.  The clients' own state is
\* LocalHost's; here they walk localclients under the lock.
ClientActivate(t) == Body(t, "client_activate", hosts, running)

ClientSetActive(t) == Body(t, "client_set_active", hosts, running)

\* client_certificate_exists and host_certificate_exists, lines 195-223.
CertificateExists(t) == Body(t, "cert_exists", hosts, running)

\* save_json_config, lines 833-863.
SaveJsonConfig(t) == Body(t, "save_config", hosts, running)

\* RemoteProxyHost::test_local_connection (remoteclient.cpp 688-692) runs
\* RemoteProxyClient::test_local_connection (lines 249-335) on a client
\* made for the test, whose m_local_connected is false: the 429 branch is
\* dead.  No local endpoint accepting gives 422; then connect_handler
\* returning true gives 200, returning false leaves the initial 500, and
\* throwing gives 401; any other exception gives 500.
TestLocalConnection == {422, 200, 500, 401}

\* Lines 160-162: test_local_connection on the host found, without the
\* lock; then return, and the lock_guard unlocks again.
HostTestRun(t) ==
    /\ pc[t] = "test"
    /\ pc' = [pc EXCEPT ![t] = "release"]
    /\ \E c \in TestLocalConnection : code' = [code EXCEPT ![t] = c]
    /\ UNCHANGED << owner, op, cur, hosts, running, calls >>

Next ==
    \E t \in Threads :
       \/ Call(t)
       \/ Acquire(t)
       \/ Release(t)
       \/ LockAll(t)
       \/ StopAll(t)
       \/ HostActivate(t)
       \/ Status(t)
       \/ HostSetActive(t)
       \/ Unpopulate(t)
       \/ Populate(t)
       \/ HostTestMiss(t)
       \/ HostTestHit(t)
       \/ HostTestRun(t)
       \/ ClientActivate(t)
       \/ ClientSetActive(t)
       \/ CertificateExists(t)
       \/ SaveJsonConfig(t)

Spec == Init /\ [][Next]_vars

-----------------------------------------------------------------------------
\* m_mutex_list gives mutual exclusion: no two threads are inside calls
\* that walk or change remotehosts and localclients at the same time.
ListExclusion ==
    \A t, u \in Threads : t # u => ~(pc[t] = "cs" /\ pc[u] = "cs")
=============================================================================
