------------------------------ MODULE MCTicket ------------------------------
(* A small instance of Ticket: an organizer and a buyer, up to two tickets,  *)
(* prices on both sides of zero and of the ceiling.                          *)
EXTENDS Ticket

CONSTANTS org, buyer, w1

MCAddress == {org, buyer}
MCWasm    == {w1}
Supplies  == {0, 1, 2}
Prices    == {-1, 0, 1, 2}
Ids       == {0, 1, 2}
=============================================================================
