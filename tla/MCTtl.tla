-------------------------------- MODULE MCTtl --------------------------------
(* A small instance of ExplorerTtl: one contract with two versions and a ring *)
(* of two slots; a day is one ledger, a new entry lives for the ledger it was *)
(* written in, and events have a shorter horizon than the instance.           *)
EXTENDS ExplorerTtl

CONSTANTS c1

MCContract == {c1}
=============================================================================
