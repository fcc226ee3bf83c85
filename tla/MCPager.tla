------------------------------- MODULE MCPager -------------------------------
(* A small instance of EventPager, which has the ring, its resizes and the   *)
(* administration: pages of two events over rings of one, two and three      *)
(* slots, and two inputs, so that a read of another event shows.             *)
EXTENDS EventPager

CONSTANTS a1, i1, i2, w1

MCAddress  == {a1}
MCWasm     == {w1}
MCInput    == {i1, i2}
NoUnnamed  == {}
InitCaps   == {0}
ResizeCaps == {1, 3}
=============================================================================
