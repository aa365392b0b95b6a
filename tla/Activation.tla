----------------------------- MODULE Activation -----------------------------
(***************************************************************************)
(* Certificate bootstrap of uniproxy (proxy_global.cpp).                   *)
(*                                                                         *)
(* Three actors share the activation list m_activate and the certificate  *)
(* file my_certs_name:                                                     *)
(* - the operator, through host_activate (activate_host::add) and the     *)
(*   status page (activate_host::is_in_list, which sweeps the list);       *)
(* - the activation thread, activate_host::threadproc: it waits for a     *)
(*   non-empty list, listens on the activation port, and runs             *)
(*   SetupCertificatesServer and SetupCertificatesClient with the peer;    *)
(* - the exchange thread, client_certificate_exchange::thread_proc: it    *)
(*   fetches the certificates of a configured peer, merges the new ones    *)
(*   into the file and removes their activation entries.                   *)
(* stopall stops the activation thread with stop(false), then stop(true). *)
(*                                                                         *)
(* Data abstraction:                                                       *)
(* - a certificate is its common name; the file is the set of names in it *)
(*   (SetupCertificatesServer keeps one certificate per name);             *)
(* - time is an integer clock; a stamp is the tick an entry expires at;    *)
(* - the acceptor and the accepted socket, published through mp_acceptor  *)
(*   and mp_socket, are one flag: none, open, or shut down by interrupt.   *)
(***************************************************************************)
EXTENDS Integers, Sequences, SequencesExt, FiniteSets

CONSTANTS
    Names,         \* certificate common names of the configured peers
    InitialStore,  \* names in the certificate file at start
    Timeout,       \* m_activate_timeout, in ticks
    MaxTime        \* bound on the clock

ASSUME InitialStore \subseteq Names /\ Timeout \in Nat \ {0} /\ MaxTime \in Nat

VARIABLES
    list,      \* m_activate: a sequence of [name, stamp]
    now,       \* boost::get_system_time()
    apc,       \* where threadproc is
    acc,       \* "none", "open" or "shut": the published acceptor and socket
    peer,      \* common name the accepted peer sends
    snap,      \* activate_names: the unexpired names collected after accept
    scopy,     \* local_certs: the file as SetupCertificatesServer loaded it
    xpc,       \* where the exchange thread is: "sleep" or "save"
    xcopy,     \* own: the file as the exchange thread loaded and merged it
    store,     \* the names in the certificate file
    run,       \* check_run() of the activation thread
    stopper,   \* where stopall is: "running", "signalled", "joining", "returned"
    activated, \* history: names ever given to host_activate
    fetched,   \* history: names ever fetched from a configured peer
    trusted    \* history: names ever written to the certificate file

vars == << list, now, apc, acc, peer, snap, scopy, xpc, xcopy, store, run,
           stopper, activated, fetched, trusted >>

Entry == [name : Names, stamp : 0..(MaxTime + Timeout)]

-----------------------------------------------------------------------------
(* activate_host::cleanup, lines 1338-1351: erase every entry whose stamp  *)
(* is not after now.                                                       *)
Cleanup(l) == SelectSeq(l, LAMBDA e : e.stamp > now)

(* activate_host::remove, lines 1306-1320: cleanup, then erase the first   *)
(* entry with the name.                                                    *)
RemoveName(l, n) == RemoveFirstMatch(Cleanup(l), LAMBDA e : e.name = n)

(* activate_host::add with the stamp one tick late.                        *)
AddLateStamp(l, n) ==
    IF \E i \in 1..Len(Cleanup(l)) : Cleanup(l)[i].name = n
    THEN Cleanup(l)
    ELSE Append(Cleanup(l), [name |-> n, stamp |-> now + Timeout + 1])

(* activate_host::add, lines 1231-1244: cleanup, then append the name with *)
(* stamp now + m_activate_timeout unless an entry has it.                  *)
Add(l, n) ==
    IF \E i \in 1..Len(Cleanup(l)) : Cleanup(l)[i].name = n
    THEN Cleanup(l)
    ELSE Append(Cleanup(l), [name |-> n, stamp |-> now + Timeout])

(* The names threadproc collects at lines 1267-1276.                       *)
Unexpired(l) == { l[i].name : i \in { j \in 1..Len(l) : l[j].stamp > now } }

(* activate_host::interrupt, lines 1216-1228: shut down the published      *)
(* acceptor and socket; nothing to do when none is published.              *)
Interrupt == acc' = IF acc = "open" THEN "shut" ELSE acc

Init ==
    /\ list = << >>
    /\ now = 0
    /\ apc = "check"
    /\ acc = "none"
    /\ peer \in Names
    /\ snap = {}
    /\ scopy = {}
    /\ xpc = "sleep"
    /\ xcopy = {}
    /\ store = InitialStore
    /\ run = TRUE
    /\ stopper = "running"
    /\ activated = {}
    /\ fetched = {}
    /\ trusted = InitialStore

-----------------------------------------------------------------------------
(* Operator                                                                *)

(* proxy_global::host_activate, lines 96-112, for a name some host has     *)
(* among its remotes.  stopall clears remotehosts before stop(true), so    *)
(* from then on host_activate finds no host and adds nothing.              *)
HostActivate(n) ==
    /\ stopper \in {"running", "signalled"}
    /\ list' = Add(list, n)
    /\ activated' = activated \cup {n}
    /\ UNCHANGED << now, apc, acc, peer, snap, scopy, xpc, xcopy, store, run,
                    stopper, fetched, trusted >>

(* RemoteProxyHost::get_status (remoteclient.cpp, line 819) calls          *)
(* activate_host::is_in_list, lines 1323-1334, which sweeps the list.      *)
IsInList ==
    /\ list' = Cleanup(list)
    /\ UNCHANGED << now, apc, acc, peer, snap, scopy, xpc, xcopy, store, run,
                    stopper, activated, fetched, trusted >>

(* The system clock advances.                                              *)
Tick ==
    /\ now < MaxTime
    /\ now' = now + 1
    /\ UNCHANGED << list, apc, acc, peer, snap, scopy, xpc, xcopy, store, run,
                    stopper, activated, fetched, trusted >>

-----------------------------------------------------------------------------
(* Activation thread: activate_host::threadproc, lines 1247-1303           *)

threadVars == << apc, acc, peer, snap, scopy >>
otherVars == << now, xpc, xcopy, run, stopper, activated, fetched >>

(* Line 1249: the outer loop tests check_run.                              *)
CheckRun ==
    /\ apc = "check"
    /\ apc' = IF run THEN "wait" ELSE "exited"
    /\ UNCHANGED << list, acc, peer, snap, scopy, store, trusted, otherVars >>

(* Lines 1251-1254: sleep while the list is empty; check_run is not        *)
(* tested in this loop.  size() counts expired entries too.                *)
Poll ==
    /\ apc = "wait"
    /\ Len(list) > 0
    /\ apc' = "bind"
    /\ UNCHANGED << list, acc, peer, snap, scopy, store, trusted, otherVars >>

(* Lines 1257-1261: construct the acceptor and socket and publish them.    *)
(* The acceptor throws if the port cannot be bound (caught at line 1298).  *)
Bind ==
    /\ apc = "bind"
    /\ \/ /\ apc' = "accept"
          /\ acc' = "open"
       \/ /\ apc' = "check"
          /\ UNCHANGED acc
    /\ UNCHANGED << list, peer, snap, scopy, store, trusted, otherVars >>

(* Lines 1264-1276: a peer connects; collect the unexpired names.          *)
Accept(n) ==
    /\ apc = "accept"
    /\ acc = "open"
    /\ apc' = "exchange"
    /\ peer' = n
    /\ snap' = Unexpired(list)
    /\ UNCHANGED << list, acc, scopy, store, trusted, otherVars >>

(* An interrupted accept throws; the protect_pointers unpublish.           *)
AcceptAborted ==
    /\ apc = "accept"
    /\ acc = "shut"
    /\ apc' = "check"
    /\ acc' = "none"
    /\ UNCHANGED << list, peer, snap, scopy, store, trusted, otherVars >>

(* A failed exchange that still erases the peer's entry, as if the erase   *)
(* of line 1283 took the name the peer claimed rather than certname.       *)
ServerFailErase ==
    /\ apc = "exchange"
    /\ apc' = "check"
    /\ acc' = "none"
    /\ list' = RemoveFirstMatch(list, LAMBDA e : e.name = peer)
    /\ UNCHANGED << peer, snap, scopy, store, trusted, otherVars >>

(* SetupCertificatesServer, lines 926-982, fails: the read times out, the  *)
(* socket is shut down, the certificate is invalid (lines 933-946), or the *)
(* peer's name is not collected (line 950).                                *)
ServerFail ==
    /\ apc = "exchange"
    /\ apc' = "check"
    /\ acc' = "none"
    /\ UNCHANGED << list, peer, snap, scopy, store, trusted, otherVars >>

(* SetupCertificatesServer without the check of line 950.                  *)
ServerLoadAnyName ==
    /\ apc = "exchange"
    /\ acc = "open"
    /\ apc' = "save"
    /\ scopy' = store
    /\ UNCHANGED << list, acc, peer, snap, store, trusted, otherVars >>

(* Lines 950-956: the peer's name was collected; load the file.            *)
ServerLoad ==
    /\ apc = "exchange"
    /\ acc = "open"
    /\ peer \in snap
    /\ apc' = "save"
    /\ scopy' = store
    /\ UNCHANGED << list, acc, peer, snap, store, trusted, otherVars >>

(* Lines 959-974: replace the peer's certificate in the loaded copy, save  *)
(* it and reload the names.                                                *)
ServerSave ==
    /\ apc = "save"
    /\ store' = scopy \cup {peer}
    /\ trusted' = trusted \cup {peer}
    /\ apc' = "reply"
    /\ UNCHANGED << list, acc, peer, snap, scopy, otherVars >>

(* Lines 1279-1296: SetupCertificatesClient, lines 985-1009, writes our    *)
(* certificate; on success the first entry with the name is erased, with  *)
(* no cleanup.  A shut socket makes the write throw.                       *)
ServerReply ==
    /\ apc = "reply"
    /\ \/ /\ acc = "open"
          /\ list' = RemoveFirstMatch(list, LAMBDA e : e.name = peer)
       \/ UNCHANGED list
    /\ apc' = "check"
    /\ acc' = "none"
    /\ UNCHANGED << peer, snap, scopy, store, trusted, otherVars >>

-----------------------------------------------------------------------------
(* Exchange thread: client_certificate_exchange::thread_proc, lines        *)
(* 1101-1180, one configured peer per iteration.                           *)

(* Lines 1126-1158: the peer returns the names in its file (an empty       *)
(* answer is skipped at line 1131); the file is loaded, the names it lacks *)
(* are appended, and each is removed from the activation list.  Each      *)
(* remove takes the list lock on its own; the loop is one step here.       *)
XFetch(R) ==
    /\ xpc = "sleep"
    /\ LET new == R \ store
       IN /\ xcopy' = store \cup R
          /\ list' = FoldLeft(LAMBDA l, n : RemoveName(l, n), list, SetToSeq(new))
          /\ xpc' = IF new = {} THEN "sleep" ELSE "save"
    /\ fetched' = fetched \cup R
    /\ UNCHANGED << now, threadVars, store, run, stopper, activated, trusted >>

(* Lines 1159-1163: the merged copy is saved and the names reloaded.       *)
XSave ==
    /\ xpc = "save"
    /\ store' = xcopy
    /\ trusted' = trusted \cup xcopy
    /\ xpc' = "sleep"
    /\ UNCHANGED << list, now, threadVars, xcopy, run, stopper, activated,
                    fetched >>

-----------------------------------------------------------------------------
(* proxy_global::stopall, lines 72-93, and mylib::thread::stop: clear the  *)
(* run flag and call the interrupt function; stop(true) also joins.        *)

StopSignal ==
    /\ stopper = "running"
    /\ stopper' = "signalled"
    /\ run' = FALSE
    /\ Interrupt
    /\ UNCHANGED << list, now, apc, peer, snap, scopy, xpc, xcopy, store,
                    activated, fetched, trusted >>

StopJoin ==
    /\ stopper = "signalled"
    /\ stopper' = "joining"
    /\ Interrupt
    /\ UNCHANGED << list, now, apc, peer, snap, scopy, xpc, xcopy, store, run,
                    activated, fetched, trusted >>

StopReturn ==
    /\ stopper = "joining"
    /\ apc = "exited"
    /\ stopper' = "returned"
    /\ UNCHANGED << list, now, threadVars, xpc, xcopy, store, run, activated,
                    fetched, trusted >>

-----------------------------------------------------------------------------
ActivationStep ==
    CheckRun \/ Poll \/ Bind \/ AcceptAborted \/ ServerFail \/ ServerLoad
        \/ ServerSave \/ ServerReply

Next ==
    \/ \E n \in Names : HostActivate(n)
    \/ IsInList
    \/ Tick
    \/ \E n \in Names : Accept(n)
    \/ ActivationStep
    \/ \E R \in SUBSET Names : R # {} /\ XFetch(R)
    \/ XSave
    \/ StopSignal \/ StopJoin \/ StopReturn

(* The activation thread and stopall run on their own threads and are     *)
(* never starved; peers, the operator and the clock owe nothing.           *)
Spec == Init /\ [][Next]_vars

-----------------------------------------------------------------------------
TypeOK ==
    /\ list \in Seq(Entry)
    /\ now \in 0..MaxTime
    /\ apc \in {"check", "wait", "bind", "accept", "exchange", "save",
                "reply", "exited"}
    /\ acc \in {"none", "open", "shut"}
    /\ peer \in Names /\ snap \subseteq Names /\ scopy \subseteq Names
    /\ xpc \in {"sleep", "save"} /\ xcopy \subseteq Names
    /\ store \subseteq Names /\ run \in BOOLEAN
    /\ stopper \in {"running", "signalled", "joining", "returned"}

(* An operator's activation is withdrawn before it expires only once the  *)
(* peer's certificate was obtained: the activation thread erases the name  *)
(* (line 1283) only after SetupCertificatesServer stored it and            *)
(* SetupCertificatesClient succeeded, and the exchange thread removes it   *)
(* (line 1156) only for a certificate fetched from a configured peer. The  *)
(* two erase paths, the sweeps of add, remove and is_in_list, and          *)
(* re-activations interleave on the list.                                  *)
Unexpired1(l, n) == \E i \in 1..Len(l) : l[i].name = n /\ l[i].stamp > now

Listed(l, n) == \E i \in 1..Len(l) : l[i].name = n

ActivationEndsServed ==
    [][\A n \in Names :
          Unexpired1(list, n) /\ ~Listed(list', n) => n \in trusted' \cup fetched'
      ]_vars

(* The certificate file gains a name only through an operator's            *)
(* activation of it (SetupCertificatesServer accepts only collected names) *)
(* or through a configured peer (the exchange thread).                     *)
StoreAuthorized == store \subseteq InitialStore \cup activated \cup fetched

(* Every certificate written to the file stays in it: two writers          *)
(* (SetupCertificatesServer and the exchange thread) each load, modify and *)
(* save the file without holding m_mutex_certificates across the three.    *)
CertificatesKept == trusted \subseteq store
====
