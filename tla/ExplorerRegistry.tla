-------------------------- MODULE ExplorerRegistry --------------------------
(***************************************************************************)
(* The versioned contract registry of the explorer contract: the current   *)
(* ABI metadata of a contract id (DataKey::Contract) and every version     *)
(* ever written of it (DataKey::ContractVersion).                          *)
(***************************************************************************)
EXTENDS ExplorerInstance, FiniteSets

CONSTANTS
  ContractId,    \* the contract ids registered
  Body,          \* the caller's part of a ContractMeta: version, name,
                 \* description and functions
  AbiMax,        \* u32::MAX, the last value abi_version can hold
  LedgerMax      \* bound: the last ledger of a behaviour

ASSUME RegistryAssumption == AbiMax \in Nat /\ LedgerMax \in Nat

VARIABLES
  ledger,        \* env.ledger().sequence(), the network's
  contracts,     \* the Contract entries: id -> ContractMeta, where present
  versions,      \* the ContractVersion entries: <<id, abi_version>> -> ContractMeta
  accepted       \* history: accepted[id] are the metadata written to id since
                 \* it was last registered, in order

registryVars  == <<ledger, contracts, versions, accepted>>
entryVars     == <<contracts, versions, accepted>>
registryState == <<instanceVars, registryVars>>

ContractMeta == [body : Body, registered_by : Address,
                 abi_version : 0 .. AbiMax, min_ledger : 0 .. LedgerMax]

\* What a caller passes: the contract fills in min_ledger itself.
Draft == [body : Body, registered_by : Address, abi_version : 0 .. AbiMax]

RegistryInit ==
  /\ InstanceInit
  /\ ledger = 0
  /\ contracts = [id \in {} |-> NoAddress]
  /\ versions = [key \in {} |-> NoAddress]
  /\ accepted = [id \in ContractId |-> << >>]

\* storage.set: the entry at key k becomes v, every other entry stays.
Put(entries, k, v) ==
  [x \in DOMAIN entries \cup {k} |-> IF x = k THEN v ELSE entries[x]]

Registered(id) == id \in DOMAIN contracts

\* The draft as it is stored, under the given ABI version.
Stamped_UpcomingLedger(draft, abi) ==
  [body |-> draft.body, registered_by |-> draft.registered_by,
   abi_version |-> abi, min_ledger |-> ledger + 1]
Stamped(draft, abi) ==
  [body |-> draft.body, registered_by |-> draft.registered_by,
   abi_version |-> abi, min_ledger |-> ledger]

\* Both entries of a write: the current metadata and its history entry.
Write_AsVersionZero(id, meta) ==
  /\ contracts' = Put(contracts, id, meta)
  /\ versions' = Put(versions, <<id, 0>>, meta)
Write(id, meta) ==
  /\ contracts' = Put(contracts, id, meta)
  /\ versions' = Put(versions, <<id, meta.abi_version>>, meta)

(***************************************************************************)
(* The entry points.                                                       *)
(***************************************************************************)

Unregistered_NotChecked(id) == TRUE
Unregistered(id) == ~Registered(id)

register_contract(caller, id, draft) ==
  /\ ~paused
  /\ IsAdmin(caller)
  /\ Unregistered(id)
  /\ LET stored == Stamped(draft, 0) IN
       /\ Write(id, stored)
       /\ accepted' = [accepted EXCEPT ![id] = <<stored>>]
       /\ emitted' = <<Topic("c_reg", <<id, stored.registered_by, ledger>>)>>
  /\ UNCHANGED <<admin, pendingAdmin, paused, eventSeq, maxEvents, wasm, ledger>>

MayChange(caller, id) == caller = contracts[id].registered_by \/ IsAdmin(caller)

\* abi_version + 1, which at u32::MAX aborts the call (overflow-checks).
Expected_NotStale(id, draft) == draft.abi_version <= contracts[id].abi_version + 1
Expected_Wraps(id, draft) ==
  draft.abi_version = (contracts[id].abi_version + 1) % (AbiMax + 1)
Expected(id, draft) ==
  /\ contracts[id].abi_version < AbiMax
  /\ draft.abi_version = contracts[id].abi_version + 1

update_contract(caller, id, draft) ==
  /\ ~paused
  /\ Registered(id)
  /\ MayChange(caller, id)
  /\ Expected(id, draft)
  /\ LET updated == Stamped(draft, draft.abi_version) IN
       /\ Write(id, updated)
       /\ accepted' = [accepted EXCEPT ![id] = Append(@, updated)]
       /\ emitted' = <<Topic("c_abiu", <<id, contracts[id].abi_version,
                                         updated.abi_version, ledger>>),
                       Topic("c_upd", <<id, caller, ledger>>)>>
  /\ UNCHANGED <<admin, pendingAdmin, paused, eventSeq, maxEvents, wasm, ledger>>

\* Only the current entry goes: the version entries stay.
deregister_contract(caller, id) ==
  /\ ~paused
  /\ Registered(id)
  /\ MayChange(caller, id)
  /\ contracts' = [x \in DOMAIN contracts \ {id} |-> contracts[x]]
  /\ emitted' = <<Topic("c_dereg", <<id, caller, ledger>>)>>
  /\ UNCHANGED <<admin, pendingAdmin, paused, eventSeq, maxEvents, wasm,
                 ledger, versions, accepted>>

\* The network closes ledgers between calls.
CloseLedger ==
  /\ ledger < LedgerMax
  /\ ledger' = ledger + 1
  /\ UNCHANGED <<instanceVars, entryVars>>

RegistryCall(caller) ==
  \E id \in ContractId :
    \/ \E draft \in Draft : \/ register_contract(caller, id, draft)
                            \/ update_contract(caller, id, draft)
    \/ deregister_contract(caller, id)

InstanceCall == InstanceNext /\ UNCHANGED registryVars

RegistryNext ==
  \/ \E caller \in Signer : RegistryCall(caller)
  \/ InstanceCall
  \/ CloseLedger

RegistrySpec == RegistryInit /\ [][RegistryNext]_registryState

-----------------------------------------------------------------------------
(***************************************************************************)
(* Properties.                                                             *)
(***************************************************************************)

\* Every entry has its type; an entry is filed under the version it carries,
\* and a current entry is never newer than the ledger it was written in.
RegistryTypeOK ==
  /\ InstanceTypeOK
  /\ ledger \in 0 .. LedgerMax
  /\ DOMAIN contracts \subseteq ContractId
  /\ \A id \in DOMAIN contracts : contracts[id] \in ContractMeta
  /\ DOMAIN versions \subseteq ContractId \X (0 .. AbiMax)
  /\ \A key \in DOMAIN versions :
        versions[key] \in ContractMeta /\ versions[key].abi_version = key[2]
  /\ accepted \in [ContractId -> Seq(ContractMeta)]

\* Of a registered contract get_contract serves the metadata accepted last, and
\* get_contract_version serves, for every version since the registration, the
\* metadata accepted as that version: none is lost, overwritten or renumbered,
\* also when the id was registered, updated and deregistered before.
HistoryIsServed ==
  \A id \in DOMAIN contracts :
    LET last == contracts[id].abi_version IN
    /\ Len(accepted[id]) = last + 1
    /\ contracts[id] = accepted[id][last + 1]
    /\ \A v \in 0 .. last : /\ <<id, v>> \in DOMAIN versions
                            /\ versions[<<id, v>>] = accepted[id][v + 1]

\* The version in force at a ledger is well defined: along the versions of a
\* registered contract min_ledger never decreases, and it is never ahead of the
\* network, so the newest version with min_ledger <= L is the one whose ABI
\* decodes a call made in ledger L.
MinLedgerOrdersVersions ==
  \A id \in DOMAIN contracts :
    \A w \in 0 .. contracts[id].abi_version :
      /\ versions[<<id, w>>].min_ledger <= ledger
      /\ \A v \in 0 .. w :
            versions[<<id, v>>].min_ledger <= versions[<<id, w>>].min_ledger

\* Of a contract that stays registered, every version already written is there
\* and the same after the step.
VersionsStand ==
  \A id \in DOMAIN contracts : id \in DOMAIN contracts' =>
    \A v \in 0 .. contracts[id].abi_version :
      /\ <<id, v>> \in DOMAIN versions'
      /\ versions'[<<id, v>>] = versions[<<id, v>>]

\* The step writes metadata of one contract at most.
OneHistoryMoves ==
  \A id1, id2 \in ContractId :
    accepted'[id1] # accepted[id1] /\ accepted'[id2] # accepted[id2] => id1 = id2

\* While a contract stays registered no call, on it or on another contract,
\* changes or removes a version already written, and no call writes to two
\* contracts: what a client once read with get_contract_version stays the answer.
WrittenVersionsStand == [][VersionsStand /\ OneHistoryMoves]_entryVars

\* What the two getters answer for a registered contract: get_contract its last
\* version, get_contract_version each one before it.
ServedHistory(id) ==
  LET last == contracts[id].abi_version IN
  [n \in 1 .. (last + 1) |->
     IF n = last + 1 THEN contracts[id] ELSE versions[<<id, n - 1>>]]

\* The registry, read through its getters, is the promised catalogue.
Catalog == INSTANCE VersionCatalog WITH
  Id       <- ContractId,
  Metadata <- ContractMeta,
  history  <- [id \in DOMAIN contracts |-> ServedHistory(id)]

\* Whatever entries earlier registrations of an id left behind, the getters answer
\* from a history that starts with a registration and to which an update adds the
\* next version; no call rewrites, drops or reorders a part of it.
ImplementsCatalog == Catalog!CatalogSpec

(* What the documentation says of the registry, which the code breaks. *)

\* get_contract_version "returns None if that version does not exist": it only
\* answers for versions up to the current one of a registered contract.
OnlyExistingVersionsServed ==
  \A key \in DOMAIN versions :
    Registered(key[1]) /\ key[2] <= contracts[key[1]].abi_version

\* "Caller must be the admin or the original registrant": an update is made by
\* the admin or by the registered_by of the registration itself.
OnlyOriginalRegistrantUpdates ==
  [][\A id \in DOMAIN contracts :
       /\ id \in DOMAIN contracts'
       /\ contracts'[id] # contracts[id]
       => emitted'[2].data[2] \in {admin, accepted[id][1].registered_by}]_registryState
=============================================================================
