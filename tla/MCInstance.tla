----------------------------- MODULE MCInstance -----------------------------
(* A small instance of ExplorerInstance: two accounts that can sign and one *)
(* mistyped address nobody controls; capacities on both sides of the floor. *)
EXTENDS ExplorerInstance

CONSTANTS a1, a2, lost, w1, w2

MCAddress == {a1, a2, lost}
MCSigner  == {a1, a2}
MCWasm    == {w1, w2}
Caps      == {0, 1, 2, 3}
=============================================================================
