----------------------------- MODULE MCRegistry -----------------------------
(* A small instance of ExplorerRegistry: an admin and another account that   *)
(* can sign, and one contract.                                               *)
EXTENDS ExplorerRegistry

CONSTANTS a1, a2, c1, m1, w1

MCAddress   == {a1, a2}
MCWasm      == {w1}
OneContract == {c1}
OneBody     == {m1}
AnAdmin     == {a1}
DefaultCap  == {0}
NoResize    == {}
=============================================================================
