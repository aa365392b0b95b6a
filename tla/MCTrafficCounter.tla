-------------------------- MODULE MCTrafficCounter --------------------------
(* A ring of three buckets over ten seconds: adds within a second, across  *)
(* a wrap of the ring, and after gaps shorter than, equal to and longer    *)
(* than the ring.                                                          *)
EXTENDS TrafficCounter, TLC
====
