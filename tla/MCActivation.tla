---------------------------- MODULE MCActivation ----------------------------
(* Two peer names, an empty certificate file at start, an activation       *)
(* window of two ticks and a clock of three: an entry can be collected,    *)
(* expire, be swept and be added again.                                    *)
EXTENDS Activation, TLC

CONSTANTS a, b

MCNames == {a, b}
====
