------------------------------ MODULE Explorer ------------------------------
(***************************************************************************)
(* The explorer contract as a whole, registry and event ring over one      *)
(* instance storage, and the indexer that follows it: an off-chain program *)
(* that sees nothing of the contract's storage and keeps a copy of its     *)
(* state from the events published by each transaction (docs/EVENTS.md).   *)
(***************************************************************************)
EXTENDS ExplorerRegistry, ExplorerEvents

VARIABLE
  mirror        \* what the indexer has learnt from the events so far

explorerVars  == <<instanceVars, registryVars, ringVars>>
explorerState == <<explorerVars, mirror>>

\* What the indexer keeps of one contract id.
Version(abi, written) == [abi_version |-> abi, min_ledger |-> written]

NothingHeard ==
  [registry |-> [id \in {} |-> Version(0, 0)], paused |-> FALSE,
   nominee |-> NoAddress, admin |-> NoAddress, total |-> 0, live |-> {}]

ExplorerInit ==
  /\ RegistryInit
  /\ EventsInit
  /\ mirror = NothingHeard

(***************************************************************************)
(* The indexer reads the events of a transaction by topic: a call publishes*)
(* each topic at most once.                                                *)
(***************************************************************************)

\* The payloads published under a topic by the transaction.
Heard(name) ==
  {emitted'[i].data : i \in {j \in DOMAIN emitted' : emitted'[j].topic = name}}

\* c_reg gives the version 0 of an id, c_abiu its next one, c_dereg removes it.
WritesHeard == {<<d[1], Version(0, d[3])>> : d \in Heard("c_reg")}
                 \cup {<<d[1], Version(d[3], d[4])>> : d \in Heard("c_abiu")}
RemovalsHeard == {d[1] : d \in Heard("c_dereg")}

RegistryHeard ==
  LET news == {w[1] : w \in WritesHeard}
  IN [id \in (DOMAIN mirror.registry \cup news) \ RemovalsHeard |->
        IF id \in news THEN (CHOOSE w \in WritesHeard : w[1] = id)[2]
                       ELSE mirror.registry[id]]

PausedHeard ==
  (mirror.paused \/ Heard("paused") # {}) /\ Heard("unpaused") = {}

\* adm_nom names the nominee; adm_acc and adm_cncl end the nomination.
NomineeHeard ==
  IF Heard("adm_nom") # {} THEN (CHOOSE d \in Heard("adm_nom") : TRUE)[2]
  ELSE IF Heard("adm_acc") \cup Heard("adm_cncl") # {} THEN NoAddress
  ELSE mirror.nominee

\* init publishes nothing: the admin is known once it acts in a handover.
AdminHeard ==
  LET acting == Heard("adm_nom") \cup Heard("adm_acc") \cup Heard("adm_cncl") IN
  IF acting # {} THEN (CHOOSE d \in acting : TRUE)[1] ELSE mirror.admin

Follow ==
  mirror' =
    [registry |-> RegistryHeard, paused |-> PausedHeard,
     nominee |-> NomineeHeard, admin |-> AdminHeard,
     total |-> mirror.total + Cardinality(Heard("ev_sub")),
     live |-> (mirror.live \cup {d[2] : d \in Heard("ev_sub")})
                \ {d[1] : d \in Heard("cap_hit")}]

(***************************************************************************)
(* Every transaction is a call of one component and leaves the storage of  *)
(* the other alone; the instance is common to both.                        *)
(***************************************************************************)

Transaction ==
  \/ \E caller \in Signer : RegistryCall(caller) /\ UNCHANGED ringVars
  \/ EventsNext /\ UNCHANGED registryVars

ExplorerNext ==
  \/ Transaction /\ Follow
  \/ CloseLedger /\ UNCHANGED <<ringVars, mirror>>

ExplorerSpec == ExplorerInit /\ [][ExplorerNext]_explorerState

-----------------------------------------------------------------------------
(***************************************************************************)
(* Properties.                                                             *)
(***************************************************************************)

\* The registry as get_contract serves it, without the metadata's body.
CurrentVersions ==
  [id \in DOMAIN contracts |->
     Version(contracts[id].abi_version, contracts[id].min_ledger)]

\* The published events determine the state: from them alone the indexer knows
\* after every transaction which contracts are registered, under which ABI
\* version and since which ledger, whether the contract is paused, who is
\* nominated, who the admin is (once there was a handover), how many events were
\* submitted and, as long as the capacity of a ring in use has not been changed,
\* which of them can still be read.
IndexerFollows ==
  /\ mirror.registry = CurrentVersions
  /\ mirror.paused = paused
  /\ mirror.nominee = pendingAdmin
  /\ mirror.admin \in {NoAddress, admin}
  /\ mirror.total = eventSeq
  /\ layoutSeq = 0 => mirror.live = Readable
=============================================================================
