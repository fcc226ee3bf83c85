------------------------------ MODULE MCEvents ------------------------------
(* Small instances of ExplorerEvents: one account that can sign and one that *)
(* is not the admin, two accepted inputs and one without a function name.    *)
EXTENDS ExplorerEvents

CONSTANTS a1, a2, i1, i2, unnamed, w1

MCAddress == {a1, a2}
MCSigner  == {a1, a2}
MCWasm    == {w1}
MCInput   == {i1, i2, unnamed}
MCUnnamed == {unnamed}
InitCaps  == {0, 2}
ResizeCaps == {1, 2, 4}
AnAdmin   == {a1}
=============================================================================
