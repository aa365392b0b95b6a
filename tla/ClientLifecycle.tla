--------------------------- MODULE ClientLifecycle ---------------------------
(***************************************************************************)
(* What an outbound client promises (spec.md, section 4.3): it goes        *)
(*   Idle -> Connecting -> Handshaking -> Relaying                         *)
(*        -> Disconnected -> (sleep) -> Connecting ...                     *)
(* and reaches Stopped, from any state, only once an external stop was     *)
(* requested.  It relays data to the remote proxy only while Relaying and  *)
(* not asked to stop, and it picks its target proxy only while             *)
(* Disconnected (round robin or at random).                                *)
(***************************************************************************)
EXTENDS Naturals

CONSTANTS
    Targets,   \* the proxy endpoints, by index
    MaxSends   \* bound on the messages relayed

VARIABLES
    state,     \* the client's state
    stopping,  \* an external stop has been requested
    target,    \* the proxy endpoint in use
    sent       \* messages relayed to the remote proxy

avars == << state, stopping, target, sent >>

States == {"Idle", "Connecting", "Handshaking", "Relaying", "Disconnected",
           "Stopped"}

Live == States \ {"Idle", "Stopped"}

Init ==
    /\ state = "Idle" /\ stopping = FALSE
    /\ target \in Targets /\ sent = 0

Move(from, to) ==
    /\ state \in from /\ state' = to
    /\ UNCHANGED << stopping, target, sent >>

Start         == Move({"Idle"}, "Connecting")
Connected     == Move({"Connecting"}, "Handshaking")
Authenticated == Move({"Handshaking"}, "Relaying")
Lost          == Move({"Connecting", "Handshaking", "Relaying"}, "Disconnected")
Retry         == Move({"Disconnected"}, "Connecting")

Send ==
    /\ state = "Relaying" /\ ~stopping /\ sent < MaxSends
    /\ sent' = sent + 1
    /\ UNCHANGED << state, stopping, target >>

Reselect ==
    /\ state = "Disconnected"
    /\ target' \in Targets
    /\ UNCHANGED << state, stopping, sent >>

RequestStop ==
    /\ ~stopping /\ stopping' = TRUE
    /\ UNCHANGED << state, target, sent >>

Halt ==
    /\ stopping /\ state # "Stopped"
    /\ state' = "Stopped"
    /\ UNCHANGED << stopping, target, sent >>

Next ==
    \/ Start \/ Connected \/ Authenticated \/ Lost \/ Retry
    \/ Send \/ Reselect \/ RequestStop \/ Halt

Spec == Init /\ [][Next]_avars
=============================================================================
