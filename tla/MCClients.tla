------------------------------ MODULE MCClients ------------------------------
(* Two clients edit one contract: one acts for the admin, the other for the  *)
(* account that may be recorded as the registrant; nobody can sign for a     *)
(* third address, which can be nominated or recorded by mistake.             *)
EXTENDS RegistryClients

CONSTANTS a1, a2, lost, c1, b1, b2, k1, k2, w1

MCAddress   == {a1, a2, lost}
MCSigner    == {a1, a2}
MCContract  == {c1}
MCBody      == {b1, b2}
MCClient    == {k1, k2}
MCAccount   == [client \in {k1, k2} |-> IF client = k1 THEN a1 ELSE a2]
MCWasm      == {w1}
AnAdmin     == {a1}
DefaultCap  == {0}
NoResize    == {}
=============================================================================
