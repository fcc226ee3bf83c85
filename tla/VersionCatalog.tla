--------------------------- MODULE VersionCatalog ---------------------------
(***************************************************************************)
(* What the versioned registry promises its readers (README, "Contract     *)
(* registry (versioned)"), with no storage entries, callers or refusals: a *)
(* registered id has the sequence of metadata published for it, which only *)
(* grows at its end, by one version at a time and never back in time,      *)
(* until the id is withdrawn.                                              *)
(***************************************************************************)
EXTENDS Naturals, Sequences

CONSTANTS Id, Metadata

VARIABLE history      \* of every registered id

CatalogInit == history = [id \in {} |-> << >>]

Newest(id) == history[id][Len(history[id])]

Publish(id, meta) ==
  /\ id \notin DOMAIN history
  /\ meta.abi_version = 0
  /\ history' = [x \in DOMAIN history \cup {id} |->
                   IF x = id THEN <<meta>> ELSE history[x]]

Revise(id, meta) ==
  /\ id \in DOMAIN history
  /\ meta.abi_version = Len(history[id])
  /\ Newest(id).min_ledger <= meta.min_ledger
  /\ history' = [history EXCEPT ![id] = Append(@, meta)]

Withdraw(id) ==
  /\ id \in DOMAIN history
  /\ history' = [x \in DOMAIN history \ {id} |-> history[x]]

CatalogNext ==
  \E id \in Id :
    \/ \E meta \in Metadata : Publish(id, meta) \/ Revise(id, meta)
    \/ Withdraw(id)

CatalogSpec == CatalogInit /\ [][CatalogNext]_history
=============================================================================
