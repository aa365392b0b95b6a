---------------------------- MODULE MCLocalHost ----------------------------
(* Three local sockets for a limit of two connections, so that one accept  *)
(* is refused; two remote connections, so that a reconnect meets the       *)
(* handlers of the first; three data reads.                                *)
EXTENDS LocalHost, TLC

CONSTANTS s1, s2, s3

MCSocks == {s1, s2, s3}
====
