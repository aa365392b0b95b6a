-------------------------- MODULE MCProviderClient --------------------------
(* Two local providers and two proxies, so that the local walk can fail    *)
(* over and the round robin wraps; three rounds and two messages.          *)
EXTENDS ProviderClient, TLC
====
