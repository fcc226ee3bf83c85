----------------------------- MODULE MCExplorer -----------------------------
(* A small instance of Explorer: two accounts that can sign, two contracts   *)
(* with two versions each, two ledgers, and a ring of one slot that wraps    *)
(* around.  Resizes are in MCPager.                                          *)
EXTENDS Explorer, TLC

CONSTANTS a1, a2, c1, c2, m1, i1, i2, unnamed, w1

MCAddress   == {a1, a2}
MCContract  == {c1, c2}
MCBody      == {m1}
MCInput     == {i1, i2, unnamed}
MCUnnamed   == {unnamed}
MCWasm      == {w1}
AnAdmin     == {a1}
DefaultCap  == {0}
NoResize    == {}

\* Contracts are alike, and so are the named inputs; the run checks safety only.
Interchangeable == Permutations({c1, c2}) \cup Permutations({i1, i2})
=============================================================================
