----------------------------- MODULE Reconciler -----------------------------
(***************************************************************************)
(* Live reconfiguration of uniproxy (proxy_global.cpp).                    *)
(*                                                                         *)
(* - load_configuration fills the empty lists from a document with         *)
(*   populate_json.                                                        *)
(* - A reload applies a new document in two passes:                        *)
(*   - unpopulate_json stops and erases every client, and every host whose *)
(*     type or local endpoints changed;                                    *)
(*   - populate_json adds the missing clients and hosts, and hands each    *)
(*     kept host the endpoints to add and to remove.                       *)
(*                                                                         *)
(* Both passes hold m_mutex_list for their whole loop, so each loop step   *)
(* is an action.                                                           *)
(*                                                                         *)
(* Data abstraction:                                                       *)
(* - An endpoint stands for a RemoteEndpoint, equal as operator==          *)
(*   (applutil.cpp) says.                                                  *)
(* - A local list stands for a non-empty "locals" array, equal element by  *)
(*   element.                                                              *)
(* - NoLocals stands for an empty or missing array.                        *)
(* - A host or client keeps a flag telling whether the current pass        *)
(*   created it.                                                           *)
(* - Client entries are LocalHost entries; provider entries are not        *)
(*   modelled.                                                             *)
(***************************************************************************)
EXTENDS Integers, Sequences, SequencesExt, FiniteSets

CONSTANTS
    Ports,        \* listen ports of hosts and clients
    Types,        \* the "type" strings a document may give a host
    Plugins,      \* the types of the registered plugins (PluginHandler::plugins())
    StdType,      \* m_type of standard_plugin (line 29), the empty string
    Endpoints,    \* RemoteEndpoint values
    LocalLists,   \* non-empty "locals" arrays
    NoLocals,     \* an empty or missing "locals" array
    Docs,         \* the documents a load or a reload may bring
    MaxReloads    \* bound on the number of reloads

ASSUME NoLocals \notin LocalLists /\ MaxReloads \in Nat
ASSUME Plugins \subseteq Types /\ StdType \in Types

VARIABLES
    hosts,     \* remotehosts: a sequence of host records
    clients,   \* localclients: a sequence of client records
    doc,       \* the document being, or last, applied
    phase,     \* "unloaded", "idle", or the loop of populate_json: "clients", "hosts"
    idx,       \* the entry of doc that loop is at
    before,    \* hosts and clients as they were when the reload began
    reloads    \* number of reloads so far

vars == << hosts, clients, doc, phase, idx, before, reloads >>

-----------------------------------------------------------------------------
(* is_same(RemoteProxyHost, obj, ...), lines 285-349.                      *)
(* - hit: the ports match; the check at line 292 returns early otherwise.  *)
(* - param: the plugin type differs (line 341).                            *)
(* - locals: the local endpoint lists differ (lines 321-338).              *)
(* - added: the new remotes absent from the host (lines 297-305).          *)
(* - removed: the host's remotes absent from the entry (lines 306-319).    *)
IsSameRemotesAsParam(h, e) ==
    [hit     |-> h.port = e.port,
     param   |-> h.type # e.type \/ h.remotes # e.remotes,
     locals  |-> h.locals # e.locals,
     added   |-> SelectSeq(e.remotes, LAMBDA r : ~Contains(h.remotes, r)),
     removed |-> SelectSeq(h.remotes, LAMBDA r : ~Contains(e.remotes, r))]

IsSame(h, e) ==
    [hit     |-> h.port = e.port,
     param   |-> h.type # e.type,
     locals  |-> h.locals # e.locals,
     added   |-> SelectSeq(e.remotes, LAMBDA r : ~Contains(h.remotes, r)),
     removed |-> SelectSeq(h.remotes, LAMBDA r : ~Contains(e.remotes, r))]

\* is_same(BaseClient, ...), lines 239-244: the comparison is commented out;
\* it sets both flags and reports no match.
ClientIsSame(c, e) == [hit |-> FALSE, param |-> TRUE, changed |-> TRUE]

\* RemoteProxyHost::add_remotes appends every endpoint (remoteclient.cpp
\* lines 520-527).
AddRemotes(r, added) == r \o added

\* Mutant of RemoveRemotes: the loop stops after the first endpoint.
RemoveRemotesFirstOnly(r, removed) ==
    IF removed = <<>> THEN r ELSE RemoveFirst(r, Head(removed))

\* RemoteProxyHost::remove_remotes erases the first equal endpoint for each
\* endpoint given (remoteclient.cpp lines 530-542).
RemoveRemotes(r, removed) ==
    FoldLeft(LAMBDA acc, ep : RemoveFirst(acc, ep), r, removed)

\* Mutant of ValidHostEntry: the check for local endpoints is dropped.
ValidHostEntryNoLocals(e) == e.remotes # <<>>

\* populate_json creates a host only with remotes and locals (line 577).
ValidHostEntry(e) == e.remotes # <<>> /\ e.locals # NoLocals

\* populate_json creates a LocalHost for an active entry with remotes
\* (line 507).
ValidClientEntry(e) == e.active /\ e.remotes # <<>>

\* The plugin lookup of lines 564-575: the registered plugin of that type,
\* else standard_plugin (the comment at line 575: "now we simply default to
\* the empty one").
PluginType(t) == IF t \in Plugins THEN t ELSE StdType

NewHost(e) ==
    [port |-> e.port, type |-> PluginType(e.type), locals |-> e.locals,
     remotes |-> e.remotes, fresh |-> TRUE]

NewClient(e) ==
    [port |-> e.port, active |-> e.active, remotes |-> e.remotes, fresh |-> TRUE]

\* unpopulate_json keeps a host when an entry has its port; keep is taken
\* from the last such entry (lines 399-408).
KeepHost(h, d) ==
    LET m == SelectSeq(d.hosts, LAMBDA e : IsSame(h, e).hit)
    IN  /\ m # <<>>
        /\ ~IsSame(h, Last(m)).param
        /\ ~IsSame(h, Last(m)).locals

\* The same for clients (lines 362-374).
KeepClient(c, d) ==
    LET m == SelectSeq(d.clients, LAMBDA e : ClientIsSame(c, e).hit)
    IN  /\ m # <<>>
        /\ ~ClientIsSame(c, Last(m)).param
        /\ ~ClientIsSame(c, Last(m)).changed

Unfresh(r) == [r EXCEPT !.fresh = FALSE]

-----------------------------------------------------------------------------
Init ==
    /\ hosts = <<>>
    /\ clients = <<>>
    /\ doc = [hosts |-> <<>>, clients |-> <<>>]
    /\ phase = "unloaded"
    /\ idx = 1
    /\ before = [hosts |-> <<>>, clients |-> <<>>]
    /\ reloads = 0

\* load_configuration, lines 810-820: populate_json(m_new_setup, all) on the
\* empty lists.
LoadConfiguration ==
    /\ phase = "unloaded"
    /\ \E d \in Docs : doc' = d
    /\ phase' = "clients"
    /\ idx' = 1
    /\ UNCHANGED << hosts, clients, before, reloads >>

\* unpopulate_json, lines 353-425. A client is erased unless kept (lines
\* 375-385). A host is kept, and its sessions for removed endpoints stopped
\* by remove_any (line 413), or stopped and erased (lines 417-422). The
\* second pass, populate_json, follows.
Unpopulate ==
    /\ phase = "idle"
    /\ reloads < MaxReloads
    /\ \E d \in Docs :
          LET kh == SelectSeq(hosts, LAMBDA h : KeepHost(h, d))
              kc == SelectSeq(clients, LAMBDA c : KeepClient(c, d))
          IN  /\ doc' = d
              /\ hosts' = [i \in DOMAIN kh |-> Unfresh(kh[i])]
              /\ clients' = [i \in DOMAIN kc |-> Unfresh(kc[i])]
    /\ before' = [hosts |-> hosts, clients |-> clients]
    /\ phase' = "clients"
    /\ idx' = 1
    /\ reloads' = reloads + 1

\* populate_json, lines 434-513, one entry of "clients": skipped when a
\* client has its port (lines 446-451), else created when valid. The call
\* to this->reset() at line 433 is taken as doing nothing to the lists: no
\* reset() of proxy_global is defined in the repository.
PopulateClient ==
    /\ phase = "clients"
    /\ idx <= Len(doc.clients)
    /\ LET e == doc.clients[idx] IN
       clients' = IF \/ \E i \in DOMAIN clients : clients[i].port = e.port
                     \/ ~ValidClientEntry(e)
                  THEN clients
                  ELSE Append(clients, NewClient(e))
    /\ idx' = idx + 1
    /\ UNCHANGED << hosts, doc, phase, before, reloads >>

PopulateClientsDone ==
    /\ phase = "clients"
    /\ idx > Len(doc.clients)
    /\ phase' = "hosts"
    /\ idx' = 1
    /\ UNCHANGED << hosts, clients, doc, before, reloads >>

\* Every host the entry matches takes add_remotes(rem_added), then
\* remove_remotes(rem_removed) (lines 527-533).
ApplyDiff(h, e) ==
    [h EXCEPT !.remotes = RemoveRemotes(AddRemotes(h.remotes, IsSame(h, e).added),
                                        IsSame(h, e).removed)]

\* Mutant of PopulateHost: the entry is never matched to a running host
\* (found stays false) and a new host is created for it.
PopulateHostNoLookup ==
    /\ phase = "hosts"
    /\ idx <= Len(doc.hosts)
    /\ LET e == doc.hosts[idx] IN
       hosts' = IF ValidHostEntry(e) THEN Append(hosts, NewHost(e)) ELSE hosts
    /\ idx' = idx + 1
    /\ UNCHANGED << clients, doc, phase, before, reloads >>

\* populate_json, lines 515-583, one entry of "hosts". A matching host must
\* not need a restart (ASSERTD, line 529). Whether ASSERTD throws is
\* decided by a header that is not in the repository, so both outcomes are
\* possible: it throws out of populate_json, or the diff is applied.
PopulateHost ==
    /\ phase = "hosts"
    /\ idx <= Len(doc.hosts)
    /\ LET e     == doc.hosts[idx]
           found == {i \in DOMAIN hosts : IsSame(hosts[i], e).hit}
       IN \/ /\ found = {}
             /\ hosts' = IF ValidHostEntry(e) THEN Append(hosts, NewHost(e))
                         ELSE hosts
             /\ idx' = idx + 1
             /\ UNCHANGED phase
          \/ /\ found # {}
             /\ hosts' = [i \in DOMAIN hosts |->
                            IF i \in found THEN ApplyDiff(hosts[i], e) ELSE hosts[i]]
             /\ idx' = idx + 1
             /\ UNCHANGED phase
          \/ /\ \E i \in found : IsSame(hosts[i], e).param \/ IsSame(hosts[i], e).locals
             /\ phase' = "idle"
             /\ UNCHANGED << hosts, idx >>
    /\ UNCHANGED << clients, doc, before, reloads >>

PopulateHostsDone ==
    /\ phase = "hosts"
    /\ idx > Len(doc.hosts)
    /\ phase' = "idle"
    /\ UNCHANGED << hosts, clients, doc, idx, before, reloads >>

Next ==
    \/ LoadConfiguration
    \/ Unpopulate
    \/ PopulateClient \/ PopulateClientsDone
    \/ PopulateHost \/ PopulateHostsDone

Spec == Init /\ [][Next]_vars

-----------------------------------------------------------------------------
(* Properties                                                              *)

HostRec == [port : Ports, type : Types, locals : LocalLists,
            remotes : Seq(Endpoints), fresh : BOOLEAN]
ClientRec == [port : Ports, active : BOOLEAN, remotes : Seq(Endpoints),
              fresh : BOOLEAN]

\* Every running host has a port, a plugin type, remote endpoints and a
\* non-empty list of local endpoints (the check at populate_json line 577).
TypeOK ==
    /\ hosts \in Seq(HostRec)
    /\ clients \in Seq(ClientRec)
    /\ doc \in Docs \cup {[hosts |-> <<>>, clients |-> <<>>]}
    /\ phase \in {"unloaded", "idle", "clients", "hosts"}
    /\ reloads \in 0..MaxReloads

\* No two hosts hold the same port at any step of a load or a reload. The
\* port identifies a host: populate_json looks a host up by port (line 527)
\* before creating one.
PortsUnique ==
    \A i, j \in DOMAIN hosts : i # j => hosts[i].port # hosts[j].port

DistinctPorts(entries) ==
    \A i, j \in DOMAIN entries : i # j => entries[i].port # entries[j].port

\* A document whose hosts have distinct ports, each with remotes and
\* locals, and whose clients have distinct ports.
WellFormed(d) ==
    /\ DistinctPorts(d.hosts)
    /\ DistinctPorts(d.clients)
    /\ \A i \in DOMAIN d.hosts : ValidHostEntry(d.hosts[i])

\* Once a load or a reload of a well-formed document is done, the running
\* hosts are exactly its entries: the same ports, types and locals, and the
\* same set of remote endpoints. The running clients are exactly its valid
\* client entries. This holds whether a host was kept and diffed by
\* is_same, add_remotes and remove_remotes, or restarted.
ReloadConverges ==
    (phase = "idle" /\ WellFormed(doc)) =>
        /\ \A e \in ToSet(doc.hosts) : \E h \in ToSet(hosts) :
              /\ h.port = e.port /\ h.type = PluginType(e.type)
              /\ h.locals = e.locals
              /\ ToSet(h.remotes) = ToSet(e.remotes)
        /\ \A h \in ToSet(hosts) : \E e \in ToSet(doc.hosts) : e.port = h.port
        /\ \A e \in ToSet(doc.clients) : ValidClientEntry(e) =>
              \E c \in ToSet(clients) : c.port = e.port /\ c.remotes = e.remotes
        /\ \A c \in ToSet(clients) : \E e \in ToSet(doc.clients) :
              c.port = e.port /\ ValidClientEntry(e)

\* A reload never restarts a host whose every entry in the new document has
\* its plugin type (as is_same compares it, line 341: m_plugin.m_type
\* against the document's string) and its local endpoints: the same host
\* object keeps running. Only the endpoint list is edited.
NoUnneededHostRestart ==
    (phase = "idle" /\ reloads > 0) =>
        \A h \in ToSet(before.hosts) :
            LET es == {e \in ToSet(doc.hosts) : e.port = h.port}
            IN  (es # {} /\ \A e \in es : e.type = h.type /\ e.locals = h.locals)
                => \E h2 \in ToSet(hosts) : h2.port = h.port /\ ~h2.fresh

=============================================================================
