-------------------------- MODULE SessionLifecycle --------------------------
(***************************************************************************)
(* What a host promises of each inbound session, a ConnectionPump of       *)
(* spec.md sections 3 and 4.1:                                              *)
(*   Absent -> Authenticating -> Serving -> Closing -> Finished -> Reaped    *)
(* with Authenticating -> Closing when the peer is rejected.  A session    *)
(* serves only an endpoint that was configured when its certificate was   *)
(* checked, and starts its local worker only while serving; it is reaped  *)
(* (removed from the host's clients and destroyed) only when both of its  *)
(* workers have exited.  The configured endpoints may change at any time. *)
(***************************************************************************)
CONSTANTS
    Sessions,  \* the inbound connections
    Names,     \* endpoint names that may be configured
    NoName     \* the endpoint of a session not yet authenticated

VARIABLES
    phase,     \* phase[s]: the session's phase, as above
    local,     \* local[s]: its local worker, "none" | "running" | "done"
    ep,        \* ep[s]: the endpoint it serves
    remoteEp   \* the configured endpoint names

avars == << phase, local, ep, remoteEp >>

Init ==
    /\ phase = [s \in Sessions |-> "Absent"]
    /\ local = [s \in Sessions |-> "none"]
    /\ ep = [s \in Sessions |-> NoName]
    /\ remoteEp \in SUBSET Names

\* one session moves from a phase in `from` to `to`
Step(s, from, to) ==
    /\ phase[s] \in from
    /\ phase' = [phase EXCEPT ![s] = to]

Accept(s) ==
    /\ Step(s, {"Absent"}, "Authenticating")
    /\ UNCHANGED << local, ep, remoteEp >>

\* the certificate names a configured endpoint
Authenticate(s) ==
    /\ Step(s, {"Authenticating"}, "Serving")
    /\ \E n \in remoteEp : ep' = [ep EXCEPT ![s] = n]
    /\ UNCHANGED << local, remoteEp >>

Close(s) ==
    /\ Step(s, {"Authenticating", "Serving"}, "Closing")
    /\ UNCHANGED << local, ep, remoteEp >>

\* the local worker starts while serving; the session may begin closing at
\* the same moment
StartLocal(s) ==
    /\ phase[s] = "Serving" /\ local[s] = "none"
    /\ local' = [local EXCEPT ![s] = "running"]
    /\ phase' \in {phase, [phase EXCEPT ![s] = "Closing"]}
    /\ UNCHANGED << ep, remoteEp >>

EndLocal(s) ==
    /\ local[s] = "running"
    /\ local' = [local EXCEPT ![s] = "done"]
    /\ UNCHANGED << phase, ep, remoteEp >>

Finish(s) ==
    /\ Step(s, {"Closing"}, "Finished")
    /\ UNCHANGED << local, ep, remoteEp >>

\* a set of sessions whose workers have both exited is removed at once
Reap(R) ==
    /\ R # {}
    /\ \A s \in R : phase[s] = "Finished" /\ local[s] # "running"
    /\ phase' = [s \in Sessions |-> IF s \in R THEN "Reaped" ELSE phase[s]]
    /\ UNCHANGED << local, ep, remoteEp >>

Reconfigure ==
    /\ remoteEp' \in SUBSET Names
    /\ UNCHANGED << phase, local, ep >>

Next ==
    \/ \E s \in Sessions :
          Accept(s) \/ Authenticate(s) \/ Close(s) \/ StartLocal(s)
          \/ EndLocal(s) \/ Finish(s)
    \/ \E R \in SUBSET Sessions : Reap(R)
    \/ Reconfigure

Spec == Init /\ [][Next]_avars
=============================================================================
