---------------------------- MODULE MCReconciler ----------------------------
(* Documents for the reconciliation model: a port p1 whose entry varies in  *)
(* type (registered or not), remotes and locals, a port p2 with one fixed  *)
(* entry, and a client port c1.                                            *)
EXTENDS Reconciler, TLC

CONSTANTS p1, p2, c1, ta, tb, sd, e1, e2, e3, la, lb

MCPorts == {p1, p2, c1}
\* ta names a registered plugin, tb none; sd is standard_plugin's type,
\* which no document names.
MCTypes == {ta, tb, sd}
MCPlugins == {ta}
MCDocTypes == {ta, tb}
MCEndpoints == {e1, e2, e3}
MCLocalLists == {la, lb}

Entry(p, t, r, l) == [port |-> p, type |-> t, remotes |-> r, locals |-> l]

\* The entries for p1: every type, three endpoint lists, every locals value.
P1Entries(remoteLists) ==
    {Entry(p1, t, r, l) : t \in MCDocTypes, r \in remoteLists,
                          l \in MCLocalLists \cup {NoLocals}}

P2Entry == Entry(p2, ta, <<e1>>, la)

\* Two entries for p1 in one document, differing in type or in remotes.
DupDocs ==
    {<< Entry(p1, ta, <<e1>>, la), Entry(p1, tb, <<e1>>, la) >>,
     << Entry(p1, ta, <<e1>>, la), Entry(p1, ta, <<e1, e2>>, la) >>}

HostDocs(remoteLists) ==
    {<<>>, <<P2Entry>>}
    \cup {<<x>> : x \in P1Entries(remoteLists)}
    \cup {<<x, P2Entry>> : x \in P1Entries(remoteLists)}
    \cup DupDocs

ClientDocs ==
    {<<>>,
     << [port |-> c1, active |-> TRUE, remotes |-> <<e1>>] >>,
     << [port |-> c1, active |-> FALSE, remotes |-> <<e1>>] >>}

MkDocs(remoteLists) ==
    {[hosts |-> h, clients |-> c] : h \in HostDocs(remoteLists), c \in ClientDocs}

\* Every host entry lists remotes.
MCDocs == MkDocs({<<e1>>, <<e1, e2>>, <<e3>>})

=============================================================================
